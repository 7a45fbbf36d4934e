--------------------------- MODULE DeliveryQueue ---------------------------
(***************************************************************************)
(* The delivery queue of c0de-webhook: the messages table, the dispatcher  *)
(* goroutine that claims due rows, the bounded Go channel, the workers     *)
(* that send and mark, the admin's Retry and Delete buttons, and the       *)
(* process that is shut down, crashes and starts again on the same table.  *)
(*                                                                         *)
(* Every SQL statement (or transaction) is one step; what a goroutine does *)
(* between two statements interleaves with everybody else.                 *)
(***************************************************************************)
EXTENDS Naturals, Sequences, FiniteSets, Functions

CONSTANTS
  Msgs,            \* the rows that may ever be inserted (ids are AUTOINCREMENT)
  Workers,         \* the worker goroutines
  NoMsg,           \* "this worker holds no message"
  MaxRetries,      \* queue.max_retries, stored in the row as max_attempts
  MaxStops,        \* bound: signals and crashes explored
  MaxDbErrors,     \* bound: failing UPDATE statements explored
  MaxAdminRetries, \* bound: Retry POSTs explored
  MaxDeletes,      \* bound: rows the admin deletes
  MaxClock         \* bound: seconds in which rows are inserted

ASSUME WorkersAssumption == IsFiniteSet(Workers) /\ Workers # {}
ASSUME NoMsgAssumption == NoMsg \notin Msgs
ASSUME RetriesAssumption == MaxRetries \in Nat

Statuses == {"none", "queued", "sending", "sent", "failed", "deleted"}

VARIABLES
  \* the messages table, which survives a restart
  status, attempts, waiting, created, clock,
  \* the process: dispatcher, channel, workers
  up, ctxDone, dispatching, batch, ch, closed, pc, msg, tally,
  \* the admin's browser
  retryShown,
  \* history, of each row: attempts begun, messages the remote side took,
  \* answers to those that were lost, attempts that left no trace in the
  \* table, Retry posts, and those of them that met the row in hand
  tries, delivered, unheard, unrecorded, retries, overlaps,
  \* history, for the bounds
  stops, dbErrs

table   == <<status, attempts, waiting, created, clock>>
chan    == <<dispatching, batch, ch, closed>>
threads == <<pc, msg, tally>>
process == <<up, ctxDone>>
posts   == <<retries, overlaps>>
history == <<tries, delivered, unheard, unrecorded, posts, stops, dbErrs>>
vars    == <<table, chan, threads, process, retryShown, history>>

NumWorkers == Cardinality(Workers)
Capacity   == 2 * NumWorkers

\* In a call of sendByChannel, or after it and before its result is stored.
TryPcs  == {"sending", "delivered", "sent", "errored", "marking"}
BusyPcs == TryPcs \union {"received"}
Pcs     == BusyPcs \union {"receive", "exited"}

Busy(w)  == pc[w] \in BusyPcs
InTry(m) == \E w \in Workers : pc[w] \in TryPcs /\ msg[w] = m
Held(m)  == \/ m \in Range(ch)
            \/ m \in Range(batch)
            \/ \E w \in Workers : Busy(w) /\ msg[w] = m

-----------------------------------------------------------------------------
Init ==
  /\ status = [m \in Msgs |-> "none"]
  /\ attempts = [m \in Msgs |-> 0]
  /\ waiting = [m \in Msgs |-> FALSE]
  /\ created = [m \in Msgs |-> 0]
  /\ clock = 0
  /\ up = FALSE /\ ctxDone = FALSE
  /\ dispatching = FALSE /\ batch = <<>> /\ ch = <<>> /\ closed = FALSE
  /\ pc = [w \in Workers |-> "exited"]
  /\ msg = [w \in Workers |-> NoMsg]
  /\ tally = [w \in Workers |-> 0]
  /\ retryShown = {}
  /\ tries = [m \in Msgs |-> 0]
  /\ delivered = [m \in Msgs |-> 0]
  /\ unheard = [m \in Msgs |-> 0]
  /\ unrecorded = [m \in Msgs |-> 0]
  /\ retries = [m \in Msgs |-> 0]
  /\ overlaps = [m \in Msgs |-> 0]
  /\ stops = 0
  /\ dbErrs = 0

-----------------------------------------------------------------------------
(* The HTTP handlers that write the table.                                 *)

\* created_at has a resolution of one second, so neighbours may share it.
Enqueue(m) ==
  /\ up
  /\ status[m] = "none"
  /\ \E t \in {clock, clock + 1} :
       /\ t <= MaxClock
       /\ clock' = t
       /\ created' = [created EXCEPT ![m] = t]
  /\ status' = [status EXCEPT ![m] = "queued"]
  /\ UNCHANGED <<attempts, waiting, chan, threads, process, retryShown, history>>

\* The queue page renders a Retry button on the rows that have failed.
\* Without Retry posts (a bound) what it shows has no effect.
ViewQueue ==
  /\ up
  /\ MaxAdminRetries > 0
  /\ retryShown' = retryShown \union {m \in Msgs : status[m] = "failed"}
  /\ UNCHANGED <<table, chan, threads, process, history>>

\* The button posts the id. The UPDATE does not look at the row's status, so
\* from a page that is no longer true it also makes a row "queued" that has
\* been sent, or that the process has in hand.
RetryMessage(m) ==
  /\ up
  /\ m \in retryShown
  /\ status[m] \notin {"none", "deleted"}
  /\ FoldFunction(+, 0, retries) < MaxAdminRetries
  /\ status' = [status EXCEPT ![m] = "queued"]
  /\ waiting' = [waiting EXCEPT ![m] = FALSE]
  /\ retries' = [retries EXCEPT ![m] = @ + 1]
  /\ overlaps' = IF Held(m) THEN [overlaps EXCEPT ![m] = @ + 1] ELSE overlaps
  /\ UNCHANGED <<attempts, created, clock, chan, threads, process, retryShown,
                 tries, delivered, unheard, unrecorded, stops, dbErrs>>

DeleteMessage(m) ==
  /\ up
  /\ status[m] \notin {"none", "deleted"}
  /\ Cardinality({n \in Msgs : status[n] = "deleted"}) < MaxDeletes
  /\ status' = [status EXCEPT ![m] = "deleted"]
  /\ UNCHANGED <<attempts, waiting, created, clock, chan, threads, process,
                 retryShown, history>>

-----------------------------------------------------------------------------
(* The dispatcher.                                                         *)

\* mutant: rows in delivery are claimed again
EligibleInFlight == {m \in Msgs : status[m] \in {"queued", "sending"} /\ ~waiting[m]}

Eligible == {m \in Msgs : status[m] = "queued" /\ ~waiting[m]}

\* mutant: LIMIT without ORDER BY
BatchesUnordered ==
  {q \in UNION {[1..n -> Eligible] : n \in 1..NumWorkers} : IsInjective(q)}

\* The batches the claiming transaction may return: the oldest due rows,
\* NumWorkers at most, in the order of created_at (ties in any order).
Batches ==
  {q \in UNION {[1..n -> Eligible] : n \in 1..NumWorkers} :
     /\ IsInjective(q)
     /\ \A i, j \in 1..Len(q) : i < j => created[q[i]] <= created[q[j]]
     /\ \A m \in Eligible \ Range(q) :
          /\ Len(q) = NumWorkers
          /\ \A i \in 1..Len(q) : created[q[i]] <= created[m]}

\* A tick. The outer select may take the tick although ctx is done. A failing
\* transaction rolls back and changes nothing.
Claim ==
  /\ up /\ dispatching
  /\ batch = <<>>
  /\ \E q \in Batches :
       /\ batch' = q
       /\ status' = [m \in Msgs |-> IF m \in Range(q) THEN "sending" ELSE status[m]]
  /\ UNCHANGED <<attempts, waiting, created, clock, dispatching, ch, closed,
                 threads, process, retryShown, history>>

\* The inner select may push although ctx is done.
Push ==
  /\ up /\ dispatching
  /\ batch # <<>>
  /\ Len(ch) < Capacity
  /\ ch' = Append(ch, Head(batch))
  /\ batch' = Tail(batch)
  /\ UNCHANGED <<table, dispatching, closed, threads, process, retryShown, history>>

\* mutant: the send to the channel is not in a select with ctx.Done
DispatcherExitBetweenBatches ==
  /\ up /\ dispatching
  /\ ctxDone
  /\ batch = <<>>
  /\ dispatching' = FALSE
  /\ closed' = TRUE
  /\ UNCHANGED <<table, batch, ch, threads, process, retryShown, history>>

\* Either select sees ctx done: the rest of the batch is abandoned.
DispatcherExit ==
  /\ up /\ dispatching
  /\ ctxDone
  /\ dispatching' = FALSE
  /\ batch' = <<>>
  /\ closed' = TRUE
  /\ UNCHANGED <<table, ch, threads, process, retryShown, history>>

-----------------------------------------------------------------------------
(* A worker.                                                               *)

Receive(w) ==
  /\ up
  /\ pc[w] = "receive"
  /\ ch # <<>>
  /\ msg' = [msg EXCEPT ![w] = Head(ch)]
  /\ ch' = Tail(ch)
  /\ pc' = [pc EXCEPT ![w] = "received"]
  /\ UNCHANGED <<table, dispatching, batch, closed, tally, process, retryShown, history>>

\* range over a closed and drained channel ends
DrainedExit(w) ==
  /\ up
  /\ pc[w] = "receive"
  /\ ch = <<>> /\ closed
  /\ pc' = [pc EXCEPT ![w] = "exited"]
  /\ UNCHANGED <<table, chan, msg, tally, process, retryShown, history>>

\* ctx done after the receive: the message is dropped, its row stays "sending"
DropAndExit(w) ==
  /\ up
  /\ pc[w] = "received"
  /\ ctxDone
  /\ pc' = [pc EXCEPT ![w] = "exited"]
  /\ msg' = [msg EXCEPT ![w] = NoMsg]
  /\ UNCHANGED <<table, chan, tally, process, retryShown, history>>

BeginSend(w) ==
  /\ up
  /\ pc[w] = "received"
  /\ ~ctxDone
  /\ pc' = [pc EXCEPT ![w] = "sending"]
  /\ tries' = [tries EXCEPT ![msg[w]] = @ + 1]
  /\ UNCHANGED <<table, chan, msg, tally, process, retryShown,
                 delivered, unheard, unrecorded, posts, stops, dbErrs>>

\* The remote side takes the message; the call has not returned yet.
Deliver(w) ==
  /\ up
  /\ pc[w] = "sending"
  /\ pc' = [pc EXCEPT ![w] = "delivered"]
  /\ delivered' = [delivered EXCEPT ![msg[w]] = @ + 1]
  /\ UNCHANGED <<table, chan, msg, tally, process, retryShown,
                 tries, unheard, unrecorded, posts, stops, dbErrs>>

\* mutant: an error of the channel is not passed on
SendErrorSwallowed(w) ==
  /\ up
  /\ pc[w] \in {"sending", "delivered"}
  /\ pc' = [pc EXCEPT ![w] = "sent"]
  /\ UNCHANGED <<table, chan, msg, tally, process, retryShown, history>>

SendSucceeds(w) ==
  /\ up
  /\ pc[w] = "delivered"
  /\ pc' = [pc EXCEPT ![w] = "sent"]
  /\ UNCHANGED <<table, chan, msg, tally, process, retryShown, history>>

\* An error before delivery, or after it: QUIT fails, or the answer is lost.
SendFails(w) ==
  /\ up
  /\ pc[w] \in {"sending", "delivered"}
  /\ pc' = [pc EXCEPT ![w] = "errored"]
  /\ unheard' = IF pc[w] = "delivered"
                THEN [unheard EXCEPT ![msg[w]] = @ + 1] ELSE unheard
  /\ UNCHANGED <<table, chan, msg, tally, process, retryShown,
                 tries, delivered, unrecorded, posts, stops, dbErrs>>

\* mutant: the loop variable outlives the iteration
DoneKeepsMessage(w) ==
  /\ pc' = [pc EXCEPT ![w] = "receive"]
  /\ tally' = [tally EXCEPT ![w] = 0]
  /\ UNCHANGED msg

\* The worker goes back to the channel.
Done(w) ==
  /\ pc' = [pc EXCEPT ![w] = "receive"]
  /\ msg' = [msg EXCEPT ![w] = NoMsg]
  /\ tally' = [tally EXCEPT ![w] = 0]

\* The outcome of the worker's attempt left no trace in the table.
Unrecorded(w) == unrecorded' = [unrecorded EXCEPT ![msg[w]] = @ + 1]

RowExists(w) == status[msg[w]] # "deleted"

MarkSent(w) ==
  /\ up
  /\ pc[w] = "sent"
  /\ Done(w)
  /\ IF RowExists(w)
     THEN /\ status' = [status EXCEPT ![msg[w]] = "sent"]
          /\ attempts' = [attempts EXCEPT ![msg[w]] = @ + 1]
          /\ UNCHANGED unrecorded
     ELSE /\ Unrecorded(w)
          /\ UNCHANGED <<status, attempts>>
  /\ UNCHANGED <<waiting, created, clock, chan, process, retryShown,
                 tries, delivered, unheard, posts, stops, dbErrs>>

\* MarkFailed, first statement: read the row. A missing row ends the call.
ReadAttempts(w) ==
  /\ up
  /\ pc[w] = "errored"
  /\ IF RowExists(w)
     THEN /\ pc' = [pc EXCEPT ![w] = "marking"]
          /\ tally' = [tally EXCEPT ![w] = attempts[msg[w]] + 1]
          /\ UNCHANGED <<msg, unrecorded>>
     ELSE Done(w) /\ Unrecorded(w)
  /\ UNCHANGED <<table, chan, process, retryShown,
                 tries, delivered, unheard, posts, stops, dbErrs>>

\* mutant: > for >=
GivesUpLate(w) == tally[w] > MaxRetries

GivesUp(w) == tally[w] >= MaxRetries

\* MarkFailed, second statement: write what the first one computed.
WriteFailed(w) ==
  /\ up
  /\ pc[w] = "marking"
  /\ Done(w)
  /\ IF RowExists(w)
     THEN /\ attempts' = [attempts EXCEPT ![msg[w]] = tally[w]]
          /\ \/ /\ GivesUp(w)
                /\ status' = [status EXCEPT ![msg[w]] = "failed"]
                /\ UNCHANGED waiting
             \/ /\ ~GivesUp(w)
                /\ status' = [status EXCEPT ![msg[w]] = "queued"]
                /\ waiting' = [waiting EXCEPT ![msg[w]] = TRUE]
          /\ UNCHANGED unrecorded
     ELSE Unrecorded(w) /\ UNCHANGED <<attempts, status, waiting>>
  /\ UNCHANGED <<created, clock, chan, process, retryShown,
                 tries, delivered, unheard, posts, stops, dbErrs>>

\* MarkSent or MarkFailed returns an error: it is logged, nothing is stored.
MarkError(w) ==
  /\ up
  /\ pc[w] \in {"sent", "errored", "marking"}
  /\ dbErrs < MaxDbErrors
  /\ dbErrs' = dbErrs + 1
  /\ Done(w)
  /\ Unrecorded(w)
  /\ UNCHANGED <<table, chan, process, retryShown,
                 tries, delivered, unheard, posts, stops>>

\* next_retry_at passes
BackoffElapses(m) ==
  /\ waiting[m]
  /\ waiting' = [waiting EXCEPT ![m] = FALSE]
  /\ UNCHANGED <<status, attempts, created, clock, chan, threads, process,
                 retryShown, history>>

-----------------------------------------------------------------------------
(* The process.                                                            *)

\* SIGTERM: main cancels ctx and waits for the goroutines.
Shutdown ==
  /\ up /\ ~ctxDone
  /\ stops < MaxStops
  /\ stops' = stops + 1
  /\ ctxDone' = TRUE
  /\ UNCHANGED <<table, chan, threads, up, retryShown,
                 tries, delivered, unheard, unrecorded, posts, dbErrs>>

Gone ==
  /\ up' = FALSE /\ ctxDone' = FALSE
  /\ dispatching' = FALSE /\ batch' = <<>> /\ ch' = <<>> /\ closed' = FALSE
  /\ pc' = [w \in Workers |-> "exited"]
  /\ msg' = [w \in Workers |-> NoMsg]
  /\ tally' = [w \in Workers |-> 0]

\* wg.Wait has returned; main goes on to its end
ProcessExit ==
  /\ up /\ ctxDone
  /\ ~dispatching
  /\ \A w \in Workers : pc[w] = "exited"
  /\ Gone
  /\ UNCHANGED <<table, retryShown, history>>

Crash ==
  /\ up
  /\ stops < MaxStops
  /\ stops' = stops + 1
  /\ Gone
  /\ unrecorded' = [m \in Msgs |-> IF InTry(m) THEN unrecorded[m] + 1 ELSE unrecorded[m]]
  /\ UNCHANGED <<table, retryShown, tries, delivered, unheard, posts, dbErrs>>

\* mutant: Start does not reset
ResetNothing == UNCHANGED <<status, dbErrs>>

\* mutant: the UPDATE has a wider WHERE clause
ResetEverything ==
  /\ status' = [m \in Msgs |-> IF status[m] \in {"sending", "sent"}
                              THEN "queued" ELSE status[m]]
  /\ UNCHANGED dbErrs

\* ResetStuckMessages; its error is only logged.
ResetStuckMessages ==
  \/ /\ status' = [m \in Msgs |-> IF status[m] = "sending" THEN "queued" ELSE status[m]]
     /\ UNCHANGED dbErrs
  \/ /\ dbErrs < MaxDbErrors
     /\ dbErrs' = dbErrs + 1
     /\ UNCHANGED status

Start ==
  /\ ~up
  /\ ResetStuckMessages
  /\ up' = TRUE
  /\ dispatching' = TRUE
  /\ pc' = [w \in Workers |-> "receive"]
  /\ UNCHANGED <<attempts, waiting, created, clock, batch, ch, closed, msg, tally,
                 ctxDone, retryShown, tries, delivered, unheard, unrecorded, posts, stops>>

-----------------------------------------------------------------------------
WorkerStep(w) ==
  \/ Receive(w) \/ DrainedExit(w) \/ DropAndExit(w)
  \/ BeginSend(w) \/ Deliver(w) \/ SendSucceeds(w) \/ SendFails(w)
  \/ MarkSent(w) \/ ReadAttempts(w) \/ WriteFailed(w) \/ MarkError(w)

RowStep(m) ==
  Enqueue(m) \/ RetryMessage(m) \/ DeleteMessage(m) \/ BackoffElapses(m)

ProcessStep ==
  \/ ViewQueue \/ Claim \/ Push \/ DispatcherExit
  \/ Shutdown \/ ProcessExit \/ Crash \/ Start

Next ==
  \/ \E m \in Msgs : RowStep(m)
  \/ \E w \in Workers : WorkerStep(w)
  \/ ProcessStep

Spec == Init /\ [][Next]_vars

\* The Go scheduler runs every goroutine that can run, the ticker keeps
\* ticking, a send returns, time passes, and the supervisor restarts.
Fairness ==
  /\ WF_vars(Claim) /\ WF_vars(Push) /\ WF_vars(DispatcherExit)
  /\ WF_vars(ProcessExit) /\ WF_vars(Start)
  /\ \A m \in Msgs : WF_vars(BackoffElapses(m))
  /\ \A w \in Workers : WF_vars(WorkerStep(w))

FairSpec == Spec /\ Fairness

-----------------------------------------------------------------------------
Counter == [Msgs -> Nat]

\* Every variable has its type; the channel never holds more than its
\* capacity, make(chan store.Message, workers*2).
TypeOK ==
  /\ status \in [Msgs -> Statuses]
  /\ attempts \in Counter
  /\ waiting \in [Msgs -> BOOLEAN]
  /\ created \in Counter
  /\ clock \in Nat
  /\ up \in BOOLEAN /\ ctxDone \in BOOLEAN
  /\ dispatching \in BOOLEAN /\ closed \in BOOLEAN
  /\ batch \in Seq(Msgs)
  /\ ch \in Seq(Msgs) /\ Len(ch) <= Capacity
  /\ pc \in [Workers -> Pcs]
  /\ msg \in [Workers -> Msgs \union {NoMsg}]
  /\ \A w \in Workers : msg[w] \in Msgs <=> Busy(w)
  /\ tally \in [Workers -> Nat]
  /\ retryShown \subseteq Msgs
  /\ tries \in Counter /\ delivered \in Counter /\ unheard \in Counter
  /\ unrecorded \in Counter /\ retries \in Counter /\ overlaps \in Counter
  /\ stops \in Nat /\ dbErrs \in Nat

\* How often a message is in the process's hands: in the batch, in the
\* channel, with the workers.
Places(s, m) == Cardinality({i \in DOMAIN s : s[i] = m})
WorkersAt(S, m) == Cardinality({w \in Workers : pc[w] \in S /\ msg[w] = m})
Copies(m) == Places(batch, m) + Places(ch, m) + WorkersAt(BusyPcs, m)

\* A message is in one place at most: no two workers send it at the same
\* time, and it is not twice among the batch, the channel and the workers.
\* Only a Retry post that meets the row in hand adds a holder, and one only.
SingleHolder == \A m \in Msgs : Copies(m) <= 1 + overlaps[m]

\* While the process holds a message its row says "sending", unless the admin
\* deleted the row or posted a Retry in the meantime: the claim made it so and
\* nobody else changes it.
HeldIsSending ==
  \A m \in Msgs :
    overlaps[m] = 0 /\ Held(m) => status[m] \in {"sending", "deleted"}

\* max_attempts bounds the attempts the remote side may see: one more for
\* each Retry of the admin, and one more for each attempt whose outcome
\* never reached the table (a crash, a failing UPDATE). It does so although a
\* Retry may add a second holder, and although two holders may read the same
\* attempts column and lose a count.
Limit == IF MaxRetries = 0 THEN 1 ELSE MaxRetries
SendBudget ==
  \A m \in Msgs : tries[m] <= Limit + retries[m] + unrecorded[m]

\* A message is delivered once. Each delivery more has a cause of its own: a
\* Retry of the admin, an answer that was lost after the remote side had taken
\* the message, or an outcome that never reached the table (a crash between the
\* delivery and MarkSent, a failing UPDATE). Neither restarts nor duplicate
\* holders multiply what one such event causes.
DeliveriesExplained ==
  \A m \in Msgs :
    delivered[m] <= 1 + retries[m] + unheard[m] + unrecorded[m]

\* As long as no UPDATE has failed, a row that says "sending" in a process
\* that is not shutting down is held by somebody who will finish it: crashes
\* and shutdowns leave no row behind once the process is up again.
StuckOnlyAfterDbError ==
  (dbErrs = 0 /\ up /\ ~ctxDone) =>
    \A m \in Msgs : status[m] = "sending" => Held(m)

\* With one worker, first attempts happen in the order of created_at, across
\* crashes too: no message overtakes an older one that was never tried. (A
\* reset that fails at a start leaves rows behind; hence the condition.)
FirstTriesInOrder ==
  [][\A m, n \in Msgs :
       /\ dbErrs = 0
       /\ tries[m] = 0 /\ tries'[m] = 1
       /\ status[n] \notin {"none", "deleted"}
       /\ created[n] < created[m]
       => tries[n] > 0]_vars

\* Every accepted message is settled in the end, whatever crashes, shutdowns
\* and retries come in between, if no UPDATE fails.
EventuallySettled ==
  \A m \in Msgs :
    status[m] = "queued" ~> status[m] \in {"sent", "failed", "deleted"}

\* A shutdown ends: wg.Wait does not block, also when the channel is full
\* and the dispatcher is blocked on it.
ShutdownCompletes == ctxDone ~> ~up

-----------------------------------------------------------------------------
(* What the documentation says and the code does not do.                   *)

\* docs: "queued - message accepted, waiting in queue": no worker is in the
\* middle of an attempt to send it.
QueuedIsWaiting ==
  \A m \in Msgs : status[m] = "queued" => ~InTry(m)
=============================================================================
