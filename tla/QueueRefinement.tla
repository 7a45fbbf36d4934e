--------------------------- MODULE QueueRefinement ---------------------------
(***************************************************************************)
(* The delivery queue implements the message lifecycle: "queued" and       *)
(* "sending" are both pending, a message is doubled once a Retry has met   *)
(* it in hand, and whatever the process, the dispatcher and the workers do *)
(* besides is invisible.                                                   *)
(***************************************************************************)
EXTENDS DeliveryQueue

Phase ==
  [m \in Msgs |->
     CASE status[m] \in {"queued", "sending"} -> "pending"
       [] status[m] = "deleted" -> "removed"
       [] OTHER -> status[m]]

Reached == [m \in Msgs |-> delivered[m] > 0]
Doubled == {m \in Msgs : overlaps[m] > 0}

Promise ==
  INSTANCE MessageLifecycle WITH
    phase <- Phase, reached <- Reached, asked <- retries, doubled <- Doubled,
    MinAttempts <- Limit

\* Every behaviour of the queue keeps the promise of the lifecycle: sent only
\* when delivered, failed only after all attempts, settled again only after a
\* Retry of the admin, at any interleaving of workers, admin, crashes and
\* failing UPDATEs. Only a message that the admin resubmitted while the
\* process had it in hand may be unsettled by a late attempt.
ImplementsLifecycle == Promise!Spec
==============================================================================
