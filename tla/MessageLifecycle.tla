-------------------------- MODULE MessageLifecycle --------------------------
(***************************************************************************)
(* What c0de-webhook promises of an accepted message, with no queue, no    *)
(* worker and no process in sight: it stays pending until it is sent,      *)
(* given up or removed; it is called sent only after the remote side has   *)
(* taken it; it is given up only after enough attempts; a settled message  *)
(* becomes pending again only when the admin resubmits it. A crash or a    *)
(* restart is no step of this specification.                               *)
(*                                                                         *)
(* The admin may resubmit a message that is still being attempted. Such a  *)
(* message is doubled: attempts of it may go on after one of them has      *)
(* settled it, and the late one has the last word.                         *)
(***************************************************************************)
EXTENDS Naturals

CONSTANTS Msgs,
          MinAttempts  \* attempts before a message may be given up

VARIABLES phase,    \* "none", "pending", "sent", "failed" or "removed"
          tries,    \* calls of the channel's Send so far
          reached,  \* the remote side has taken the message
          asked,    \* how often the admin has resubmitted it
          doubled   \* the messages resubmitted while they were attempted

vars == <<phase, tries, reached, asked, doubled>>

Init ==
  /\ phase = [m \in Msgs |-> "none"]
  /\ tries = [m \in Msgs |-> 0]
  /\ reached = [m \in Msgs |-> FALSE]
  /\ asked = [m \in Msgs |-> 0]
  /\ doubled = {}

Settled == {"sent", "failed"}

Move(m, from, to) ==
  /\ phase[m] \in from
  /\ phase' = [phase EXCEPT ![m] = to]
  /\ UNCHANGED <<tries, reached, asked, doubled>>

Accept(m) == Move(m, {"none"}, "pending")

\* A removed message may be in flight: its attempts go on.
InFlight(m) == phase[m] \in {"pending", "removed"} \/ m \in doubled

Try(m) ==
  /\ InFlight(m)
  /\ tries' = [tries EXCEPT ![m] = @ + 1]
  /\ UNCHANGED <<phase, reached, asked, doubled>>

HandOver(m) ==
  /\ InFlight(m)
  /\ tries[m] > 0
  /\ reached' = [reached EXCEPT ![m] = TRUE]
  /\ UNCHANGED <<phase, tries, asked, doubled>>

\* Who may settle a message: the attempt it is pending for, or a late one.
Open(m) == {"pending"} \union IF m \in doubled THEN Settled ELSE {}

ConfirmSent(m) == reached[m] /\ Move(m, Open(m), "sent")

GiveUp(m) == tries[m] >= MinAttempts /\ Move(m, Open(m), "failed")

\* Only a pending message can become doubled.
Resubmit(m) ==
  /\ phase[m] \in {"pending"} \union Settled
  /\ phase' = [phase EXCEPT ![m] = "pending"]
  /\ asked' = [asked EXCEPT ![m] = @ + 1]
  /\ \/ UNCHANGED doubled
     \/ phase[m] = "pending" /\ doubled' = doubled \union {m}
  /\ UNCHANGED <<tries, reached>>

Remove(m) == Move(m, {"pending"} \union Settled, "removed")

Next ==
  \E m \in Msgs :
    \/ Accept(m) \/ Try(m) \/ HandOver(m) \/ ConfirmSent(m)
    \/ GiveUp(m) \/ Resubmit(m) \/ Remove(m)

Spec == Init /\ [][Next]_vars
=============================================================================
