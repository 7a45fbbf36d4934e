-------------------------- MODULE WhatsAppLinking --------------------------
(***************************************************************************)
(* The WhatsApp Web client: linking a phone by QR code and unlinking it.   *)
(*                                                                         *)
(* StartLinking holds the mutex only around the flag, and touches          *)
(* wc.client without it; Disconnect holds it during a network call. The    *)
(* goroutine that follows the QR channel outlives the request that began   *)
(* the linking.                                                            *)
(*                                                                         *)
(* The whatsmeow library is not part of this code. What it does is chosen  *)
(* here among the outcomes the code distinguishes or ignores.              *)
(***************************************************************************)
EXTENDS Naturals, FiniteSets

CONSTANTS
  Links,        \* requests POST /settings/whatsapp-link
  Disconnects,  \* requests POST /settings/whatsapp-disconnect
  First,        \* the client NewWebClient makes
  None          \* no client, no QR code, nobody

ASSUME CallsAssumption ==
  /\ IsFiniteSet(Links) /\ IsFiniteSet(Disconnects)
  /\ Links \intersect Disconnects = {}
ASSUME NamesAssumption ==
  First \notin Links /\ None \notin Links \union Disconnects \union {First}

Calls   == Links \union Disconnects
Clients == Links \union {First}    \* a linking makes at most one client

VARIABLES
  mu,       \* WebClient.mu: the call that holds it between two steps
  linking,  \* "true when actively waiting for QR scan"
  qrPNG,    \* the client whose QR code is stored
  client,   \* WebClient.client
  pc,       \* of each call: the step it is at
  qrChan,   \* of each link call: the client whose QR channel it reads
  watcher,  \* of each link call: its goroutine, "off", "running" or "ended"
  \* the library
  stored,   \* its database has a paired device
  paired,   \* of each client: Store.ID is set
  socket,   \* of each client: IsConnected
  qr        \* of each client's QR channel: its state, or the event it ended with

flags   == <<linking, qrPNG>>
threads == <<pc, qrChan, watcher>>
library == <<stored, paired, socket, qr>>
vars    == <<mu, flags, client, threads, library>>

\* NewWebClient restores the stored session, and goes on if it cannot connect.
Init ==
  /\ mu = None
  /\ linking = FALSE
  /\ qrPNG = None
  /\ client = First
  /\ pc = [k \in Calls |-> "idle"]
  /\ qrChan = [k \in Links |-> None]
  /\ watcher = [k \in Links |-> "off"]
  /\ stored \in BOOLEAN
  /\ paired = [c \in Clients |-> c = First /\ stored]
  /\ \E up \in BOOLEAN : socket = [c \in Clients |-> c = First /\ stored /\ up]
  /\ qr = [c \in Clients |-> "none"]

Goto(k, label) == pc' = [pc EXCEPT ![k] = label]

-----------------------------------------------------------------------------
(* StartLinking.                                                           *)

\* mutant: the flag is set and not tested
BeginUnchecked(k) ==
  /\ linking' = TRUE
  /\ qrPNG' = None
  /\ Goto(k, "drop")
  /\ UNCHANGED mu

\* mutant: the early return forgets the unlock
BeginKeepsLock(k) ==
  IF linking
  THEN Goto(k, "done") /\ mu' = k /\ UNCHANGED flags
  ELSE linking' = TRUE /\ qrPNG' = None /\ Goto(k, "drop") /\ UNCHANGED mu

Begin(k) ==
  IF linking
  THEN Goto(k, "done") /\ UNCHANGED <<mu, flags>>
  ELSE linking' = TRUE /\ qrPNG' = None /\ Goto(k, "drop") /\ UNCHANGED mu

StartLinking(k) ==
  /\ pc[k] = "idle"
  /\ mu = None
  /\ Begin(k)
  /\ UNCHANGED <<client, qrChan, watcher, library>>

DropOld(k) ==
  /\ pc[k] = "drop"
  /\ socket' = [socket EXCEPT ![client] = FALSE]
  /\ Goto(k, "device")
  /\ UNCHANGED <<mu, flags, client, qrChan, watcher, stored, paired, qr>>

\* GetFirstDevice returns the paired device if there is one, else a new one.
GetDevice(k) ==
  /\ pc[k] = "device"
  /\ \/ /\ Goto(k, "fail")
        /\ UNCHANGED <<client, paired>>
     \/ /\ client' = k
        /\ paired' = [paired EXCEPT ![k] = stored]
        /\ Goto(k, "qr")
  /\ UNCHANGED <<mu, flags, qrChan, watcher, stored, socket, qr>>

\* The error of GetQRChannel is dropped; the channel is nil then, as it always
\* is for a client that is paired or connected.
OpenQRChannel(k) ==
  /\ pc[k] = "qr"
  /\ Goto(k, "connect")
  /\ \/ UNCHANGED <<qrChan, qr>>
     \/ /\ ~paired[client] /\ ~socket[client] /\ qr[client] = "none"
        /\ qrChan' = [qrChan EXCEPT ![k] = client]
        /\ qr' = [qr EXCEPT ![client] = "open"]
  /\ UNCHANGED <<mu, flags, client, watcher, stored, paired, socket>>

Connect(k) ==
  /\ pc[k] = "connect"
  /\ \/ /\ Goto(k, "fail")
        /\ UNCHANGED <<watcher, socket>>
     \/ /\ socket' = [socket EXCEPT ![client] = TRUE]
        /\ watcher' = [watcher EXCEPT ![k] = "running"]
        /\ Goto(k, "done")
  /\ UNCHANGED <<mu, flags, client, qrChan, stored, paired, qr>>

\* mutant: the error is returned and the flag forgotten
FailLinkingForgets(k) ==
  /\ pc[k] = "fail"
  /\ mu = None
  /\ Goto(k, "done")
  /\ UNCHANGED <<mu, flags, client, qrChan, watcher, library>>

FailLinking(k) ==
  /\ pc[k] = "fail"
  /\ mu = None
  /\ linking' = FALSE
  /\ Goto(k, "done")
  /\ UNCHANGED <<mu, qrPNG, client, qrChan, watcher, library>>

-----------------------------------------------------------------------------
(* Disconnect. Its lock is held until Logout returns.                      *)

Disconnect(k) ==
  /\ pc[k] = "idle"
  /\ mu = None
  /\ mu' = k
  /\ Goto(k, "logout")
  /\ UNCHANGED <<flags, client, qrChan, watcher, library>>

\* Logout fails without a session, or on the network; its error is dropped.
Logout(k) ==
  /\ pc[k] = "logout"
  /\ \/ UNCHANGED library
     \/ /\ paired[client] /\ socket[client]
        /\ stored' = FALSE
        /\ paired' = [paired EXCEPT ![client] = FALSE]
        /\ socket' = [socket EXCEPT ![client] = FALSE]
        /\ UNCHANGED qr
  /\ linking' = FALSE
  /\ qrPNG' = None
  /\ mu' = None
  /\ Goto(k, "done")
  /\ UNCHANGED <<client, qrChan, watcher>>

-----------------------------------------------------------------------------
(* The library: what happens to an open QR channel.                        *)

Scan(c) ==
  /\ qr[c] = "open" /\ socket[c]
  /\ qr' = [qr EXCEPT ![c] = "success"]
  /\ paired' = [paired EXCEPT ![c] = TRUE]
  /\ stored' = TRUE
  /\ UNCHANGED <<mu, flags, client, threads, socket>>

Expire(c) ==
  /\ qr[c] = "open"
  /\ qr' = [qr EXCEPT ![c] = "timeout"]
  /\ UNCHANGED <<mu, flags, client, threads, stored, paired, socket>>

\* The channel ends after an event that is neither of the two (an error, an
\* outdated client), or without any.
Break(c) ==
  /\ qr[c] = "open"
  /\ qr' = [qr EXCEPT ![c] = "closed"]
  /\ UNCHANGED <<mu, flags, client, threads, stored, paired, socket>>

-----------------------------------------------------------------------------
(* The goroutine that ranges over the QR channel; a nil channel blocks it. *)

Watches(k, state) ==
  /\ watcher[k] = "running"
  /\ qrChan[k] # None
  /\ qr[qrChan[k]] = state

ShowCode(k) ==
  /\ Watches(k, "open")
  /\ mu = None
  /\ qrPNG' = qrChan[k]
  /\ UNCHANGED <<mu, linking, client, threads, library>>

\* mutant: after the timeout the last code stays
EndKeepsCode ==
  /\ linking' = FALSE
  /\ UNCHANGED qrPNG

End ==
  /\ linking' = FALSE
  /\ qrPNG' = None

\* "success" and "timeout" leave the flags alike, except for qrDone, which
\* nothing reads.
EndLinking(k) ==
  /\ Watches(k, "success") \/ Watches(k, "timeout")
  /\ mu = None
  /\ End
  /\ watcher' = [watcher EXCEPT ![k] = "ended"]
  /\ UNCHANGED <<mu, client, pc, qrChan, library>>

\* Any other event is not handled, and then the loop ends.
LeaveLoop(k) ==
  /\ Watches(k, "closed")
  /\ watcher' = [watcher EXCEPT ![k] = "ended"]
  /\ UNCHANGED <<mu, flags, client, pc, qrChan, library>>

-----------------------------------------------------------------------------
LinkStep(k) ==
  \/ StartLinking(k) \/ DropOld(k) \/ GetDevice(k)
  \/ OpenQRChannel(k) \/ Connect(k) \/ FailLinking(k)

CallStep == (\E k \in Links : LinkStep(k))
              \/ (\E k \in Disconnects : Disconnect(k) \/ Logout(k))

\* All calls are over; the status page is still polled.
Polled ==
  /\ \A k \in Calls : pc[k] = "done"
  /\ UNCHANGED vars

Next ==
  \/ CallStep
  \/ \E c \in Clients : Scan(c) \/ Expire(c) \/ Break(c)
  \/ \E k \in Links : ShowCode(k) \/ EndLinking(k) \/ LeaveLoop(k)
  \/ Polled

Spec == Init /\ [][Next]_vars

\* A request that has begun goes on; no request need arrive. The Go scheduler
\* and the mutex are fair, and the library's calls are assumed to return, with
\* an error or not. Nothing is assumed of the phone or of the QR channel.
Fairness ==
  /\ \A k \in Links : WF_vars(pc[k] # "idle" /\ LinkStep(k))
  /\ \A k \in Disconnects : WF_vars(Logout(k))

FairSpec == Spec /\ Fairness

-----------------------------------------------------------------------------
(* Properties.                                                             *)

\* Every variable has its type; the mutex is held across steps only by a
\* Disconnect that waits for Logout.
TypeOK ==
  /\ mu \in {k \in Disconnects : pc[k] = "logout"} \union {None}
  /\ linking \in BOOLEAN
  /\ qrPNG \in Clients \union {None}
  /\ client \in Clients
  /\ pc \in [Calls -> {"idle", "drop", "device", "qr", "connect", "fail",
                       "logout", "done"}]
  /\ qrChan \in [Links -> Clients \union {None}]
  /\ watcher \in [Links -> {"off", "running", "ended"}]
  /\ stored \in BOOLEAN
  /\ paired \in [Clients -> BOOLEAN]
  /\ socket \in [Clients -> BOOLEAN]
  /\ qr \in [Clients -> {"none", "open", "success", "timeout", "closed"}]

InProgress(k) == pc[k] \in {"drop", "device", "qr", "connect", "fail"}

Undisturbed == \A k \in Disconnects : pc[k] = "idle"

\* As long as nobody disconnects, the flag admits one linking at a time: two
\* requests never work on wc.client together, nor beside a goroutine of an
\* earlier one that still can set the flags, and the flag stays up meanwhile.
OneAttempt ==
  LET attempts == {k \in Links : InProgress(k) \/ watcher[k] = "running"} IN
  Undisturbed =>
    /\ Cardinality(attempts) <= 1
    /\ attempts # {} => linking

\* GetQRPNG "returns the latest QR code PNG image, or nil if not linking", and
\* the code is one of the client in use: scanning it pairs the device that
\* the worker will send with. After a Disconnect neither need be true: the
\* goroutine of the abandoned linking is still there and stores its next code.
QRIsCurrent ==
  Undisturbed /\ qrPNG # None => linking /\ qrPNG = client

\* "linking: true when actively waiting for QR scan". It is up with nobody
\* waiting in two cases only: GetQRChannel returned an error with a nil channel,
\* which blocks the goroutine for ever, or the channel ended with an event that
\* the goroutine ignores. (All further StartLinking return at once then, and the
\* page, which asks Status, shows no button to disconnect.) No failure of
\* GetDevice or Connect, no timeout and no pairing leaves it up.
WaitingUnlessLost ==
  linking => \E k \in Links :
    \/ InProgress(k)
    \/ watcher[k] = "running"
    \/ watcher[k] = "ended" /\ qr[qrChan[k]] = "closed"

\* Every request that takes the mutex returns, also when it comes while
\* another one holds it or finds the flag up.
CallsReturn == \A k \in Calls : pc[k] # "idle" ~> pc[k] = "done"
=============================================================================
