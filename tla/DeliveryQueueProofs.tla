------------------------ MODULE DeliveryQueueProofs ------------------------
(***************************************************************************)
(* Proofs about the delivery queue and about the lifecycle that it keeps   *)
(* to, for every set of rows, every non-empty finite set of workers and    *)
(* every MaxRetries. No proof restricts the admin: a Retry may meet a row  *)
(* in any status.                                                          *)
(***************************************************************************)
EXTENDS QueueRefinement, FiniteSetTheorems, SequenceTheorems, TLAPS

-----------------------------------------------------------------------------
(* The channel and the batch as sequences.                                 *)

\* What Append does to the elements, as in Push.
LEMMA AppendElements ==
  ASSUME NEW S, NEW s \in Seq(S), NEW e \in S
  PROVE  /\ Append(s, e) \in Seq(S)
         /\ Len(Append(s, e)) = Len(s) + 1
         /\ Range(Append(s, e)) = Range(s) \union {e}
         /\ IsInjective(s) /\ e \notin Range(s) => IsInjective(Append(s, e))
<1> DEFINE t == Append(s, e)
<1>1. /\ t \in Seq(S)
      /\ Len(t) = Len(s) + 1
      /\ Len(s) \in Nat
      /\ DOMAIN s = 1..Len(s)
      /\ DOMAIN t = 1..Len(s) + 1
      /\ \A i \in 1..Len(s) : t[i] = s[i]
      /\ t[Len(s) + 1] = e
  OBVIOUS
<1> HIDE DEF t
<1>2. Range(t) = Range(s) \union {e}
  <2>1. ASSUME NEW x \in Range(t)  PROVE x \in Range(s) \union {e}
    <3>1. PICK i \in 1..Len(s) + 1 : x = t[i]
      BY <1>1 DEF Range
    <3> QED  BY <1>1, <3>1 DEF Range
  <2>2. Range(s) \subseteq Range(t)
    BY <1>1 DEF Range
  <2>3. e \in Range(t)
    BY <1>1 DEF Range
  <2> QED  BY <2>1, <2>2, <2>3
<1>3. IsInjective(s) /\ e \notin Range(s) => IsInjective(t)
  BY <1>1 DEF Range, IsInjective
<1> QED  BY <1>1, <1>2, <1>3 DEF t

\* What taking the head away does to the elements, as in Push and Receive.
LEMMA HeadTailElements ==
  ASSUME NEW S, NEW s \in Seq(S), s # <<>>
  PROVE  /\ Head(s) \in S
         /\ Tail(s) \in Seq(S)
         /\ Len(Tail(s)) = Len(s) - 1
         /\ Range(s) = {Head(s)} \union Range(Tail(s))
         /\ IsInjective(s) => IsInjective(Tail(s)) /\ Head(s) \notin Range(Tail(s))
<1> DEFINE t == Tail(s)
<1>1. /\ t \in Seq(S)
      /\ Len(s) \in Nat /\ Len(s) > 0
      /\ Len(t) = Len(s) - 1
      /\ DOMAIN s = 1..Len(s)
      /\ DOMAIN t = 1..Len(s) - 1
      /\ \A i \in 1..Len(s) - 1 : t[i] = s[i + 1]
      /\ Head(s) = s[1]
      /\ Head(s) \in S
  OBVIOUS
<1> HIDE DEF t
<1>2. Range(s) = {Head(s)} \union Range(t)
  <2>1. ASSUME NEW x \in Range(s)  PROVE x \in {Head(s)} \union Range(t)
    <3>1. PICK i \in 1..Len(s) : x = s[i]
      BY <1>1 DEF Range
    <3>2. CASE i = 1
      BY <1>1, <3>1, <3>2
    <3>3. CASE i > 1
      <4>1. i - 1 \in 1..Len(s) - 1 /\ (i - 1) + 1 = i
        BY <1>1, <3>3
      <4>2. t[i - 1] = x
        BY <1>1, <3>1, <4>1
      <4> QED  BY <1>1, <4>1, <4>2 DEF Range
    <3> QED  BY <3>2, <3>3
  <2>2. Range(t) \subseteq Range(s)
    BY <1>1 DEF Range
  <2>3. Head(s) \in Range(s)
    BY <1>1 DEF Range
  <2> QED  BY <2>1, <2>2, <2>3
<1>3. ASSUME IsInjective(s)  PROVE IsInjective(t) /\ Head(s) \notin Range(t)
  <2>1. \A i, j \in 1..Len(s) : s[i] = s[j] => i = j
    BY <1>1, <1>3 DEF IsInjective
  <2>2. IsInjective(t)
    BY <1>1, <2>1 DEF IsInjective
  <2>3. Head(s) \notin Range(t)
    BY <1>1, <2>1 DEF Range
  <2> QED  BY <2>2, <2>3
<1> QED  BY <1>1, <1>2, <1>3 DEF t

\* The empty channel, as after a start or a crash.
LEMMA EmptyElements == Range(<<>>) = {} /\ IsInjective(<<>>)
  BY DEF Range, IsInjective

\* The number of workers is a positive natural number, so that the channel has
\* room for at least two messages.
LEMMA NumWorkersPositive == NumWorkers \in Nat /\ NumWorkers > 0
  BY WorkersAssumption, FS_CardinalityType, FS_EmptySet DEF NumWorkers

\* What the claiming transaction may return.
LEMMA BatchElements ==
  ASSUME NEW q \in Batches
  PROVE  /\ q \in Seq(Msgs)
         /\ q # <<>>
         /\ IsInjective(q)
         /\ Range(q) \subseteq {m \in Msgs : status[m] = "queued"}
<1>1. PICK n \in 1..NumWorkers : q \in [1..n -> Eligible]
  BY DEF Batches
<1>2. n \in Nat /\ n > 0
  BY NumWorkersPositive
<1>3. Eligible \subseteq {m \in Msgs : status[m] = "queued"}
  BY DEF Eligible
<1>4. q \in Seq(Msgs) /\ Len(q) = n
  BY <1>1, <1>2, <1>3
<1>5. Range(q) \subseteq Eligible
  BY <1>1 DEF Range
<1> QED  BY <1>2, <1>3, <1>4, <1>5 DEF Batches

-----------------------------------------------------------------------------
(* Types.                                                                  *)

\* A process that is down holds no message; without it the type of msg would
\* not survive Start.
IdleWhenDown ==
  ~up => ch = <<>> /\ batch = <<>> /\ \A w \in Workers : ~Busy(w)

\* Only the end of the process takes it down, and it leaves nothing behind.
LEMMA IdleStep == IdleWhenDown /\ [Next]_vars => IdleWhenDown'
<1> SUFFICES ASSUME IdleWhenDown, [Next]_vars  PROVE IdleWhenDown'
  OBVIOUS
<1> USE DEF IdleWhenDown, table, chan, threads, process, posts, history
<1>1. ASSUME NEW m \in Msgs, RowStep(m)  PROVE IdleWhenDown'
  BY <1>1 DEF RowStep, Enqueue, RetryMessage, DeleteMessage, BackoffElapses, Busy
<1>2. ASSUME NEW w \in Workers, WorkerStep(w)  PROVE IdleWhenDown'
  <2>1. up' = up /\ up
    BY <1>2 DEF WorkerStep, Receive, DrainedExit, DropAndExit, BeginSend, Deliver,
         SendSucceeds, SendFails, MarkSent, ReadAttempts, WriteFailed, MarkError
  <2> QED  BY <2>1
<1>3. ASSUME ProcessStep  PROVE IdleWhenDown'
  BY <1>3 DEF ProcessStep, ViewQueue, Claim, Push, DispatcherExit, Shutdown,
       ProcessExit, Crash, Start, Gone, Busy, BusyPcs, TryPcs
<1>4. CASE UNCHANGED vars
  BY <1>4 DEF vars, Busy
<1> QED  BY <1>1, <1>2, <1>3, <1>4 DEF Next

\* The initial values have their types.
LEMMA TypeInit == Init => TypeOK /\ IdleWhenDown
<1> SUFFICES ASSUME Init  PROVE TypeOK /\ IdleWhenDown
  OBVIOUS
<1>1. Capacity \in Nat
  BY NumWorkersPositive DEF Capacity
<1>2. <<>> \in Seq(Msgs) /\ Len(<<>>) = 0
  OBVIOUS
<1>3. \A w \in Workers : msg[w] \in Msgs <=> Busy(w)
  BY NoMsgAssumption DEF Init, Busy, BusyPcs, TryPcs
<1>4. /\ pc \in [Workers -> Pcs]
      /\ msg \in [Workers -> Msgs \union {NoMsg}]
      /\ tally \in [Workers -> Nat]
  BY DEF Init, Pcs
<1>5. /\ status \in [Msgs -> Statuses]
      /\ attempts \in Counter /\ created \in Counter /\ tries \in Counter
      /\ delivered \in Counter /\ unheard \in Counter /\ unrecorded \in Counter
      /\ retries \in Counter /\ overlaps \in Counter
      /\ waiting \in [Msgs -> BOOLEAN]
  BY DEF Init, Statuses, Counter
<1>6. ch = <<>> /\ batch = <<>>
  BY DEF Init
<1>7. /\ up \in BOOLEAN /\ ctxDone \in BOOLEAN
      /\ dispatching \in BOOLEAN /\ closed \in BOOLEAN
      /\ clock \in Nat /\ stops \in Nat /\ dbErrs \in Nat
      /\ retryShown \subseteq Msgs
  BY DEF Init
<1>8. Len(ch) <= Capacity /\ ch \in Seq(Msgs) /\ batch \in Seq(Msgs)
  BY <1>1, <1>2, <1>6
<1>9. IdleWhenDown
  BY DEF Init, IdleWhenDown, Busy, BusyPcs, TryPcs
<1> QED  BY <1>3, <1>4, <1>5, <1>7, <1>8, <1>9 DEF TypeOK

\* The part of TypeOK about the workers.
ThreadsOK ==
  /\ pc \in [Workers -> Pcs]
  /\ msg \in [Workers -> Msgs \union {NoMsg}]
  /\ \A w \in Workers : msg[w] \in Msgs <=> Busy(w)
  /\ tally \in [Workers -> Nat]

\* A worker that goes back to the channel holds no message any more.
LEMMA DoneType ==
  ASSUME ThreadsOK, NEW w \in Workers, Done(w)
  PROVE  ThreadsOK'
  BY NoMsgAssumption DEF ThreadsOK, Done, Busy, BusyPcs, TryPcs, Pcs

\* Counting an attempt that left no trace keeps the counters natural numbers.
LEMMA UnrecordedType ==
  ASSUME unrecorded \in [Msgs -> Nat], NEW w \in Workers, msg[w] \in Msgs, Unrecorded(w)
  PROVE  unrecorded' \in [Msgs -> Nat]
  BY DEF Unrecorded

\* After the end of the process no worker is busy.
LEMMA GoneType ==
  ASSUME Gone
  PROVE  /\ ThreadsOK'
         /\ up' \in BOOLEAN /\ ctxDone' \in BOOLEAN
         /\ dispatching' \in BOOLEAN /\ closed' \in BOOLEAN
         /\ batch' = <<>> /\ ch' = <<>>
  BY NoMsgAssumption DEF Gone, ThreadsOK, Busy, BusyPcs, TryPcs, Pcs

\* Every action preserves the types: a batch fits the channel's element type,
\* a push never exceeds the capacity, a worker has a message exactly while
\* it is busy.
LEMMA TypeStep == TypeOK /\ IdleWhenDown /\ [Next]_vars => TypeOK'
<1> SUFFICES ASSUME TypeOK, IdleWhenDown, [Next]_vars  PROVE TypeOK'
  OBVIOUS
<1> USE NoMsgAssumption DEF TypeOK, Counter, table, chan, threads, process, posts, history
<1>1. ASSUME NEW m \in Msgs, RowStep(m)  PROVE TypeOK'
  <2>1. CASE Enqueue(m)
    BY <2>1 DEF Enqueue, Statuses, Busy
  <2>2. CASE RetryMessage(m)
    <3>1. status' \in [Msgs -> Statuses]
      BY <2>2 DEF RetryMessage, Statuses
    <3>2. /\ retries' \in [Msgs -> Nat] /\ overlaps' \in [Msgs -> Nat]
          /\ waiting' \in [Msgs -> BOOLEAN]
      <4>1. overlaps' = [overlaps EXCEPT ![m] = @ + 1] \/ overlaps' = overlaps
        BY <2>2 DEF RetryMessage
      <4>2. /\ waiting' = [waiting EXCEPT ![m] = FALSE]
            /\ retries' = [retries EXCEPT ![m] = @ + 1]
        BY <2>2 DEF RetryMessage
      <4>3. /\ waiting \in [Msgs -> BOOLEAN]
            /\ retries \in [Msgs -> Nat] /\ overlaps \in [Msgs -> Nat]
        OBVIOUS
      <4> HIDE DEF TypeOK
      <4>4. waiting' \in [Msgs -> BOOLEAN]
        BY <4>2, <4>3
      <4>5. retries' \in [Msgs -> Nat] /\ overlaps' \in [Msgs -> Nat]
        BY <4>1, <4>2, <4>3
      <4> QED  BY <4>4, <4>5
    <3>3. /\ UNCHANGED <<pc, msg, tally, ch, batch>>
          /\ \A v \in Workers : msg'[v] \in Msgs <=> Busy(v)'
      BY <2>2 DEF RetryMessage, Busy
    <3> QED  BY <2>2, <3>1, <3>2, <3>3 DEF RetryMessage
  <2>3. CASE DeleteMessage(m)
    BY <2>3 DEF DeleteMessage, Statuses, Busy
  <2>4. CASE BackoffElapses(m)
    BY <2>4 DEF BackoffElapses, Busy
  <2> QED  BY <1>1, <2>1, <2>2, <2>3, <2>4 DEF RowStep
<1>2. ASSUME NEW w \in Workers, WorkerStep(w)  PROVE TypeOK'
  <2>0. ThreadsOK
    BY DEF ThreadsOK
  <2> USE DEF Busy, BusyPcs, TryPcs, Pcs
  <2>1. CASE Receive(w)
    <3>1. ch # <<>> /\ ch' = Tail(ch) /\ msg' = [msg EXCEPT ![w] = Head(ch)]
      BY <2>1 DEF Receive
    <3>2. Head(ch) \in Msgs /\ Tail(ch) \in Seq(Msgs) /\ Len(Tail(ch)) = Len(ch) - 1
      BY <3>1, HeadTailElements
    <3>3. ch' \in Seq(Msgs) /\ Len(ch') <= Capacity
      BY <3>1, <3>2, NumWorkersPositive DEF Capacity
    <3>4. /\ pc' \in [Workers -> Pcs]
          /\ msg' \in [Workers -> Msgs \union {NoMsg}]
          /\ \A v \in Workers : msg'[v] \in Msgs <=> Busy(v)'
      BY <2>1, <3>1, <3>2 DEF Receive
    <3> QED  BY <2>1, <3>3, <3>4 DEF Receive
  <2>2. CASE DrainedExit(w)
    BY <2>2 DEF DrainedExit
  <2>3. CASE DropAndExit(w)
    BY <2>3 DEF DropAndExit
  <2>4. CASE BeginSend(w)
    <3>1. msg[w] \in Msgs /\ tries' = [tries EXCEPT ![msg[w]] = @ + 1]
      BY <2>4 DEF BeginSend
    <3>2. tries' \in [Msgs -> Nat]
      BY <3>1
    <3>3. /\ pc' \in [Workers -> Pcs]
          /\ \A v \in Workers : msg'[v] \in Msgs <=> Busy(v)'
      BY <2>4 DEF BeginSend
    <3> QED  BY <2>4, <3>2, <3>3 DEF BeginSend
  <2>5. CASE Deliver(w)
    <3>1. msg[w] \in Msgs /\ delivered' = [delivered EXCEPT ![msg[w]] = @ + 1]
      BY <2>5 DEF Deliver
    <3>2. delivered' \in [Msgs -> Nat]
      BY <3>1
    <3>3. /\ pc' \in [Workers -> Pcs]
          /\ \A v \in Workers : msg'[v] \in Msgs <=> Busy(v)'
      BY <2>5 DEF Deliver
    <3> QED  BY <2>5, <3>2, <3>3 DEF Deliver
  <2>6. CASE SendSucceeds(w)
    BY <2>6 DEF SendSucceeds
  <2>7. CASE SendFails(w)
    <3>1. msg[w] \in Msgs
      BY <2>7 DEF SendFails
    <3>2. unheard' \in [Msgs -> Nat]
      BY <2>7, <3>1 DEF SendFails
    <3>3. /\ pc' \in [Workers -> Pcs]
          /\ \A v \in Workers : msg'[v] \in Msgs <=> Busy(v)'
      BY <2>7 DEF SendFails
    <3> QED  BY <2>7, <3>2, <3>3 DEF SendFails
  <2>8. CASE MarkSent(w)
    <3>1. Done(w) /\ msg[w] \in Msgs /\ ch' = ch /\ batch' = batch
      BY <2>8 DEF MarkSent
    <3>2. /\ status' \in [Msgs -> Statuses]
          /\ attempts' \in [Msgs -> Nat] /\ unrecorded' \in [Msgs -> Nat]
      <4>1. CASE RowExists(w)
        <5>1. /\ status' = [status EXCEPT ![msg[w]] = "sent"]
              /\ attempts' = [attempts EXCEPT ![msg[w]] = @ + 1]
              /\ unrecorded' = unrecorded
          BY <2>8, <4>1 DEF MarkSent
        <5> QED  BY <3>1, <5>1 DEF Statuses
      <4>2. CASE ~RowExists(w)
        BY <2>8, <3>1, <4>2, UnrecordedType DEF MarkSent
      <4> QED  BY <4>1, <4>2
    <3>3. ThreadsOK'
      BY <3>1, <2>0, DoneType
    <3> QED  BY <2>8, <3>1, <3>2, <3>3 DEF MarkSent, ThreadsOK
  <2>9. CASE ReadAttempts(w)
    <3>1. CASE RowExists(w)
      <4>1. /\ pc' = [pc EXCEPT ![w] = "marking"]
            /\ tally' = [tally EXCEPT ![w] = attempts[msg[w]] + 1]
            /\ msg' = msg /\ unrecorded' = unrecorded /\ msg[w] \in Msgs
        BY <2>9, <3>1 DEF ReadAttempts
      <4>2. pc' \in [Workers -> Pcs] /\ tally' \in [Workers -> Nat]
        BY <4>1
      <4>3. \A v \in Workers : msg'[v] \in Msgs <=> Busy(v)'
        BY <2>9, <4>1 DEF ReadAttempts
      <4> QED  BY <2>9, <4>1, <4>2, <4>3 DEF ReadAttempts
    <3>2. CASE ~RowExists(w)
      <4>1. Done(w) /\ msg[w] \in Msgs
        BY <2>9, <3>2 DEF ReadAttempts
      <4>2. unrecorded' \in [Msgs -> Nat]
        BY <2>9, <3>2, <4>1, UnrecordedType DEF ReadAttempts
      <4>3. ThreadsOK'
        BY <4>1, <2>0, DoneType
      <4> QED  BY <2>9, <4>1, <4>2, <4>3 DEF ReadAttempts, ThreadsOK
    <3> QED  BY <3>1, <3>2
  <2>10. CASE WriteFailed(w)
    <3>1. Done(w) /\ msg[w] \in Msgs
      BY <2>10 DEF WriteFailed
    <3>2. /\ status' \in [Msgs -> Statuses] /\ waiting' \in [Msgs -> BOOLEAN]
          /\ attempts' \in [Msgs -> Nat] /\ unrecorded' \in [Msgs -> Nat]
      <4>1. CASE RowExists(w)
        <5>1. /\ attempts' = [attempts EXCEPT ![msg[w]] = tally[w]]
              /\ unrecorded' = unrecorded
          BY <2>10, <4>1 DEF WriteFailed
        <5>2. \/ waiting' = waiting /\ status' = [status EXCEPT ![msg[w]] = "failed"]
              \/ /\ waiting' = [waiting EXCEPT ![msg[w]] = TRUE]
                 /\ status' = [status EXCEPT ![msg[w]] = "queued"]
          BY <2>10, <4>1 DEF WriteFailed, GivesUp
        <5>3. status' \in [Msgs -> Statuses] /\ waiting' \in [Msgs -> BOOLEAN]
          BY <3>1, <5>2 DEF Statuses
        <5> QED  BY <3>1, <5>1, <5>3
      <4>2. CASE ~RowExists(w)
        BY <2>10, <3>1, <4>2, UnrecordedType DEF WriteFailed
      <4> QED  BY <4>1, <4>2
    <3>3. ThreadsOK'
      BY <3>1, <2>0, DoneType
    <3> QED  BY <2>10, <3>1, <3>2, <3>3 DEF WriteFailed, ThreadsOK
  <2>11. CASE MarkError(w)
    <3>1. Done(w) /\ msg[w] \in Msgs
      BY <2>11 DEF MarkError
    <3>2. unrecorded' \in [Msgs -> Nat]
      BY <2>11, <3>1 DEF MarkError, Unrecorded
    <3>3. ThreadsOK'
      BY <3>1, <2>0, DoneType
    <3>4. dbErrs' \in Nat
      BY <2>11 DEF MarkError
    <3>5. /\ UNCHANGED <<status, attempts, waiting, created, clock, up, ctxDone>>
          /\ UNCHANGED <<dispatching, batch, ch, closed, retryShown>>
          /\ UNCHANGED <<tries, delivered, unheard, retries, overlaps, stops>>
      BY <2>11 DEF MarkError
    <3> QED  BY <3>2, <3>3, <3>4, <3>5 DEF ThreadsOK
  <2> QED  BY <1>2, <2>1, <2>2, <2>3, <2>4, <2>5, <2>6, <2>7, <2>8, <2>9, <2>10, <2>11
           DEF WorkerStep
<1>3. ASSUME ProcessStep  PROVE TypeOK'
  <2> <<>> \in Seq(Msgs) /\ Len(<<>>) = 0 /\ Capacity \in Nat
    BY NumWorkersPositive DEF Capacity
  <2>1. CASE ViewQueue
    BY <2>1 DEF ViewQueue, Busy
  <2>2. CASE Claim
    BY <2>2, BatchElements DEF Claim, Statuses, Busy
  <2>3. CASE Push
    <3>1. Head(batch) \in Msgs /\ batch' \in Seq(Msgs)
      BY <2>3, HeadTailElements DEF Push
    <3>2. ch' \in Seq(Msgs) /\ Len(ch') <= Capacity
      BY <2>3, <3>1, AppendElements DEF Push
    <3> QED  BY <2>3, <3>1, <3>2 DEF Push, Busy
  <2>4. CASE DispatcherExit
    BY <2>4 DEF DispatcherExit, Busy
  <2>5. CASE Shutdown
    BY <2>5 DEF Shutdown, Busy
  <2>6. CASE ProcessExit
    BY <2>6, GoneType DEF ProcessExit, ThreadsOK
  <2>7. CASE Crash
    BY <2>7, GoneType DEF Crash, ThreadsOK
  <2>8. CASE Start
    <3>1. status' \in [Msgs -> Statuses] /\ dbErrs' \in Nat
      BY <2>8 DEF Start, ResetStuckMessages, Statuses
    <3>2. \A w \in Workers : msg'[w] \in Msgs <=> Busy(w)'
      BY <2>8 DEF Start, IdleWhenDown, Busy, BusyPcs, TryPcs
    <3>3. pc' \in [Workers -> Pcs]
      BY <2>8 DEF Start, Pcs
    <3>4. up' \in BOOLEAN /\ dispatching' \in BOOLEAN
      BY <2>8 DEF Start
    <3>5. /\ UNCHANGED <<attempts, waiting, created, clock, batch, ch, closed, msg, tally>>
          /\ UNCHANGED <<ctxDone, retryShown, tries, delivered, unheard, unrecorded>>
          /\ UNCHANGED <<retries, overlaps, stops>>
      BY <2>8 DEF Start
    <3> QED  BY <3>1, <3>2, <3>3, <3>4, <3>5 DEF Busy
  <2> QED  BY <1>3, <2>1, <2>2, <2>3, <2>4, <2>5, <2>6, <2>7, <2>8 DEF ProcessStep
<1>4. CASE UNCHANGED vars
  BY <1>4 DEF vars, Busy
<1> QED  BY <1>1, <1>2, <1>3, <1>4 DEF Next

\* Every reachable state is well typed, and the channel never holds more
\* than its capacity, for any number of workers.
THEOREM TypeCorrect == Spec => [](TypeOK /\ IdleWhenDown)
  BY TypeInit, TypeStep, IdleStep, PTL DEF Spec

-----------------------------------------------------------------------------
(* Counting. A row is followed by four numbers: how many of its copies     *)
(* wait for a sender, are with a sender, have been taken and are to be     *)
(* marked sent, have failed and are to be marked so.                       *)

One(b) == IF b THEN 1 ELSE 0

Todo(m)    == Places(batch, m) + Places(ch, m) + WorkersAt({"received"}, m)
Sending(m) == WorkersAt({"sending"}, m)
Taken(m)   == WorkersAt({"delivered", "sent"}, m)
Failing(m) == WorkersAt({"errored", "marking"}, m)
Trying(m)  == Sending(m) + Taken(m) + Failing(m)

\* How often a message occurs in a sequence is a natural number, zero exactly
\* if it is no element, and at most one if the elements are different.
LEMMA PlacesType ==
  ASSUME NEW s \in Seq(Msgs), NEW m
  PROVE  /\ Places(s, m) \in Nat
         /\ Places(s, m) = 0 <=> m \notin Range(s)
         /\ IsInjective(s) => Places(s, m) <= 1
<1> DEFINE P == {i \in DOMAIN s : s[i] = m}
<1>1. DOMAIN s = 1..Len(s) /\ Len(s) \in Nat
  OBVIOUS
<1>2. IsFiniteSet(P)
  <2>1. IsFiniteSet(1..Len(s))
    BY <1>1, FS_Interval
  <2>2. P \in SUBSET (1..Len(s))
    BY <1>1
  <2> QED  BY <2>1, <2>2, FS_Subset
<1>3. Cardinality(P) \in Nat
  BY <1>2, FS_CardinalityType
<1>4. Cardinality(P) = 0 <=> P = {}
  BY <1>2, FS_EmptySet
<1>5. P = {} <=> m \notin Range(s)
  BY DEF Range
<1>6. ASSUME IsInjective(s)  PROVE Cardinality(P) <= 1
  <2>1. CASE P = {}
    BY <1>4, <2>1
  <2>2. ASSUME NEW i \in P  PROVE Cardinality(P) <= 1
    <3>1. P = {i}
      BY <1>6, <2>2 DEF IsInjective
    <3>2. Cardinality({i}) = 1
      BY FS_Singleton
    <3> HIDE DEF P
    <3> QED  BY <3>1, <3>2
  <2> QED  BY <2>1, <2>2
<1> QED  BY <1>3, <1>4, <1>5, <1>6 DEF Places

\* Nothing occurs in the empty sequence.
LEMMA PlacesEmpty == \A m : Places(<<>>, m) = 0
<1> SUFFICES ASSUME NEW m  PROVE Places(<<>>, m) = 0
  OBVIOUS
<1>1. {i \in DOMAIN <<>> : <<>>[i] = m} = {}
  OBVIOUS
<1> QED  BY <1>1, FS_EmptySet DEF Places

\* A push adds one occurrence, of the element that is appended.
LEMMA PlacesAppend ==
  ASSUME NEW s \in Seq(Msgs), NEW e \in Msgs, NEW m
  PROVE  Places(Append(s, e), m) = Places(s, m) + One(e = m)
<1> DEFINE t == Append(s, e)
           P == {i \in DOMAIN s : s[i] = m}
           Q == {i \in DOMAIN t : t[i] = m}
<1>1. /\ Len(s) \in Nat /\ DOMAIN s = 1..Len(s) /\ DOMAIN t = 1..Len(s) + 1
      /\ t[Len(s) + 1] = e
      /\ \A i \in 1..Len(s) : t[i] = s[i]
  OBVIOUS
<1> HIDE DEF t
<1>2. IsFiniteSet(P) /\ Len(s) + 1 \notin P
  <2>1. IsFiniteSet(1..Len(s))
    BY <1>1, FS_Interval
  <2>2. P \in SUBSET (1..Len(s)) /\ Len(s) + 1 \notin P
    BY <1>1
  <2> QED  BY <2>1, <2>2, FS_Subset
<1>3. CASE e = m
  <2>1. Q = P \union {Len(s) + 1}
    BY <1>1, <1>3
  <2> QED  BY <1>2, <1>3, <2>1, FS_AddElement DEF Places, One, t
<1>4. CASE e # m
  <2>1. Q = P
    BY <1>1, <1>4
  <2>2. Places(s, m) \in Nat
    BY PlacesType
  <2>3. Places(t, m) = Places(s, m)
    BY <2>1 DEF Places
  <2> QED  BY <1>4, <2>2, <2>3 DEF One, t
<1> QED  BY <1>3, <1>4

\* Taking the head away takes one occurrence, of the head.
LEMMA PlacesTail ==
  ASSUME NEW s \in Seq(Msgs), s # <<>>, NEW m
  PROVE  Places(s, m) = Places(Tail(s), m) + One(Head(s) = m)
<1> DEFINE t == Tail(s)
           P == {i \in DOMAIN s : s[i] = m}
           Q == {i \in DOMAIN t : t[i] = m}
           R == {i \in 2..Len(s) : s[i] = m}
           f == [i \in Q |-> i + 1]
<1>1. /\ Len(s) \in Nat /\ Len(s) > 0 /\ Head(s) = s[1] /\ t \in Seq(Msgs)
      /\ DOMAIN s = 1..Len(s) /\ DOMAIN t = 1..Len(s) - 1
      /\ \A i \in 1..Len(s) - 1 : t[i] = s[i + 1]
  OBVIOUS
<1> HIDE DEF t
<1>2. IsFiniteSet(Q) /\ IsFiniteSet(R)
  <2>1. IsFiniteSet(1..Len(s) - 1) /\ IsFiniteSet(2..Len(s))
    BY <1>1, FS_Interval
  <2>2. Q \in SUBSET (1..Len(s) - 1) /\ R \in SUBSET (2..Len(s))
    BY <1>1
  <2> QED  BY <2>1, <2>2, FS_Subset
<1>3. f \in Bijection(Q, R)
  <2>1. \A i \in Q : i + 1 \in R
    BY <1>1
  <2>2. \A j \in R : j - 1 \in Q /\ (j - 1) + 1 = j
    BY <1>1
  <2>3. f \in [Q -> R]
    BY <2>1
  <2>4. \A i, j \in Q : f[i] = f[j] => i = j
    BY <1>1
  <2>5. \A j \in R : \E i \in Q : f[i] = j
    BY <2>2
  <2> QED  BY <2>3, <2>4, <2>5 DEF Bijection, Injection, Surjection, IsInjective
<1>4. Cardinality(Q) = Cardinality(R)
  BY <1>2, <1>3, FS_Bijection DEF ExistsBijection
<1>5. 1 \notin R
  BY <1>1
<1>6. CASE Head(s) = m
  <2>1. P = R \union {1}
    BY <1>1, <1>6
  <2> QED  BY <1>2, <1>4, <1>5, <1>6, <2>1, FS_AddElement DEF Places, One, t
<1>7. CASE Head(s) # m
  <2>1. P = R
    BY <1>1, <1>7
  <2>2. Places(t, m) \in Nat
    BY <1>1, PlacesType
  <2>3. Places(s, m) = Places(t, m)
    BY <1>4, <2>1 DEF Places
  <2> QED  BY <1>7, <2>2, <2>3 DEF One, t
<1> QED  BY <1>6, <1>7

\* The number of workers that have a message at given places is a natural
\* number, zero if and only if there is none.
LEMMA WorkersAtType ==
  ASSUME NEW S, NEW m
  PROVE  /\ WorkersAt(S, m) \in Nat
         /\ WorkersAt(S, m) = 0 <=> \A w \in Workers : ~(pc[w] \in S /\ msg[w] = m)
<1> DEFINE W == {w \in Workers : pc[w] \in S /\ msg[w] = m}
<1>1. IsFiniteSet(W)
  BY WorkersAssumption, FS_Subset
<1>2. Cardinality(W) \in Nat /\ (Cardinality(W) = 0 <=> W = {})
  BY <1>1, FS_CardinalityType, FS_EmptySet
<1> QED  BY <1>2 DEF WorkersAt

LEMMA WorkersAtNat == \A S, m : WorkersAt(S, m) \in Nat
  BY WorkersAtType
LEMMA WorkersAtNext == (\A S, m : WorkersAt(S, m) \in Nat)'
  BY WorkersAtNat, PTL

\* A step of one worker changes these numbers by what that worker does.
LEMMA WorkersAtMove ==
  ASSUME NEW w \in Workers, NEW S, NEW m,
         \A v \in Workers : v # w => pc'[v] = pc[v] /\ msg'[v] = msg[v]
  PROVE  WorkersAt(S, m)' + One(pc[w] \in S /\ msg[w] = m)
           = WorkersAt(S, m) + One(pc'[w] \in S /\ msg'[w] = m)
<1> DEFINE R == {v \in Workers \ {w} : pc[v] \in S /\ msg[v] = m}
           W == {v \in Workers : pc[v] \in S /\ msg[v] = m}
           X == {v \in Workers : pc'[v] \in S /\ msg'[v] = m}
<1>1. IsFiniteSet(R) /\ w \notin R
  BY WorkersAssumption, FS_Subset
<1>2. Cardinality(R) \in Nat /\ Cardinality(R \union {w}) = Cardinality(R) + 1
  BY <1>1, FS_CardinalityType, FS_AddElement
<1>3. W = IF pc[w] \in S /\ msg[w] = m THEN R \union {w} ELSE R
  OBVIOUS
<1>4. X = IF pc'[w] \in S /\ msg'[w] = m THEN R \union {w} ELSE R
  OBVIOUS
<1>5. Cardinality(W) = Cardinality(R) + One(pc[w] \in S /\ msg[w] = m)
  <2>1. CASE pc[w] \in S /\ msg[w] = m
    BY <1>2, <1>3, <2>1 DEF One
  <2>2. CASE ~(pc[w] \in S /\ msg[w] = m)
    <3>1. W = R
      BY <1>3, <2>2
    <3>2. One(pc[w] \in S /\ msg[w] = m) = 0
      BY <2>2 DEF One
    <3> HIDE DEF R, W
    <3> QED  BY <1>2, <3>1, <3>2
  <2> QED  BY <2>1, <2>2
<1>6. Cardinality(X) = Cardinality(R) + One(pc'[w] \in S /\ msg'[w] = m)
  <2>1. CASE pc'[w] \in S /\ msg'[w] = m
    BY <1>2, <1>4, <2>1 DEF One
  <2>2. CASE ~(pc'[w] \in S /\ msg'[w] = m)
    <3>1. X = R
      BY <1>4, <2>2
    <3>2. One(pc'[w] \in S /\ msg'[w] = m) = 0
      BY <2>2 DEF One
    <3> HIDE DEF R, X
    <3> QED  BY <1>2, <3>1, <3>2
  <2> QED  BY <2>1, <2>2
<1>7. WorkersAt(S, m) = Cardinality(W) /\ WorkersAt(S, m)' = Cardinality(X)
  BY DEF WorkersAt
<1>8. /\ One(pc[w] \in S /\ msg[w] = m) \in Nat
      /\ One(pc'[w] \in S /\ msg'[w] = m) \in Nat
  BY DEF One
<1> QED  BY <1>2, <1>5, <1>6, <1>7, <1>8

\* The places of a worker that has nothing in common.
LEMMA WorkersAtUnion ==
  ASSUME NEW S, NEW T, S \intersect T = {}, NEW m
  PROVE  WorkersAt(S \union T, m) = WorkersAt(S, m) + WorkersAt(T, m)
<1> DEFINE A == {w \in Workers : pc[w] \in S /\ msg[w] = m}
           B == {w \in Workers : pc[w] \in T /\ msg[w] = m}
           C == {w \in Workers : pc[w] \in S \union T /\ msg[w] = m}
<1>1. IsFiniteSet(A) /\ IsFiniteSet(B) /\ A \intersect B = {} /\ C = A \union B
  BY WorkersAssumption, FS_Subset
<1>2. Cardinality(A \union B) = Cardinality(A) + Cardinality(B) - Cardinality(A \intersect B)
  BY <1>1, FS_Union
<1>3. /\ Cardinality(A) \in Nat /\ Cardinality(B) \in Nat
      /\ Cardinality(A \intersect B) = 0
  BY <1>1, FS_CardinalityType, FS_EmptySet
<1>4. Cardinality(C) = Cardinality(A) + Cardinality(B)
  BY <1>1, <1>2, <1>3
<1> QED  BY <1>4 DEF WorkersAt

\* The four numbers, their sum, and what it means that some are zero.
CountsMean(m) ==
  /\ Todo(m) \in Nat /\ Sending(m) \in Nat /\ Taken(m) \in Nat /\ Failing(m) \in Nat
  /\ Copies(m) = Todo(m) + Trying(m)
  /\ Held(m) <=> Copies(m) > 0
  /\ InTry(m) <=> Trying(m) > 0
LEMMA Counts == TypeOK => \A m \in Msgs : CountsMean(m)
<1> SUFFICES ASSUME TypeOK, NEW m \in Msgs  PROVE CountsMean(m)
  OBVIOUS
<1> DEFINE b == Places(batch, m)
           c == Places(ch, m)
           r == WorkersAt({"received"}, m)
           s == WorkersAt({"sending"}, m)
           t == WorkersAt({"delivered", "sent"}, m)
           f == WorkersAt({"errored", "marking"}, m)
           all == WorkersAt(BusyPcs, m)
           tr == WorkersAt(TryPcs, m)
<1>1. /\ b \in Nat /\ (b = 0 <=> m \notin Range(batch))
      /\ c \in Nat /\ (c = 0 <=> m \notin Range(ch))
  BY PlacesType DEF TypeOK
<1>2. /\ r \in Nat /\ s \in Nat /\ t \in Nat /\ f \in Nat /\ all \in Nat /\ tr \in Nat
      /\ all = 0 <=> \A w \in Workers : ~(pc[w] \in BusyPcs /\ msg[w] = m)
      /\ tr = 0 <=> \A w \in Workers : ~(pc[w] \in TryPcs /\ msg[w] = m)
  BY WorkersAtType
<1>3. tr = s + t + f
  <2>1. WorkersAt({"sending"} \union {"delivered", "sent"}, m) = s + t
    BY WorkersAtUnion
  <2>2. WorkersAt(({"sending"} \union {"delivered", "sent"}) \union {"errored", "marking"}, m)
          = WorkersAt({"sending"} \union {"delivered", "sent"}, m) + f
    BY WorkersAtUnion
  <2>3. TryPcs = ({"sending"} \union {"delivered", "sent"}) \union {"errored", "marking"}
    BY DEF TryPcs
  <2> QED  BY <2>1, <2>2, <2>3
<1>4. all = tr + r
  <2>1. WorkersAt(TryPcs \union {"received"}, m) = tr + r
    BY WorkersAtUnion DEF TryPcs
  <2> QED  BY <2>1 DEF BusyPcs
<1> HIDE DEF b, c, r, s, t, f, all, tr
<1>5. Todo(m) = b + c + r /\ Sending(m) = s /\ Taken(m) = t /\ Failing(m) = f
      /\ Copies(m) = b + c + all /\ Trying(m) = s + t + f
  BY DEF Todo, Sending, Taken, Failing, Copies, Trying, b, c, r, s, t, f, all
<1>6. Held(m) <=> ~(b = 0 /\ c = 0 /\ all = 0)
  BY <1>1, <1>2 DEF Held, Busy
<1>7. InTry(m) <=> tr # 0
  BY <1>2 DEF InTry
<1>8. Copies(m) = Todo(m) + Trying(m) /\ Trying(m) = tr
  BY <1>1, <1>2, <1>3, <1>4, <1>5
<1>9. Held(m) <=> Copies(m) > 0
  BY <1>1, <1>2, <1>5, <1>6
<1>10. InTry(m) <=> Trying(m) > 0
  BY <1>2, <1>7, <1>8
<1> QED  BY <1>1, <1>2, <1>5, <1>8, <1>9, <1>10 DEF CountsMean

\* The same of the state after a step.
LEMMA CountsNext == TypeOK' => (\A m \in Msgs : CountsMean(m))'
  BY Counts, PTL

-----------------------------------------------------------------------------
(* The books that are kept of each row. None of SingleHolder, SendBudget   *)
(* and DeliveriesExplained is inductive: each leaves out what may still    *)
(* happen. A row that is claimable, or that says "sending" with nobody to  *)
(* send it, owes one more attempt; so does every copy on its way.          *)

Claimable(m) == status[m] \in {"none", "queued"}
Owed(m) == One(Claimable(m) \/ (status[m] = "sending" /\ Copies(m) = 0))

\* The first claim makes one holder; each Retry in hand allows one more.
HoldersCounted(m) == Copies(m) + One(Claimable(m)) <= 1 + overlaps[m]

\* What was delivered and what may yet be delivered.
DeliveriesCounted(m) ==
  delivered[m] + Todo(m) + Sending(m) + Failing(m) + Owed(m)
    <= 1 + retries[m] + unheard[m] + unrecorded[m]

\* What was attempted and what will be, if no attempt fails any more; as long
\* as no page shows a Retry button the column attempts knows of all of it.
AttemptsCounted(m) ==
  /\ tries[m] + Todo(m) + Owed(m) <= Limit + retries[m] + unrecorded[m]
  /\ m \notin retryShown =>
       tries[m] + Todo(m) + Owed(m) <= attempts[m] + 1 + unrecorded[m]
  /\ attempts[m] + Trying(m) <= tries[m]

\* A row with a Retry button has used up its attempts, and no lost count takes
\* it below the limit again: so a failing attempt never queues it once more.
ShownUsedUp(m) ==
  /\ m \in retryShown \/ status[m] = "failed" => attempts[m] >= MaxRetries
  /\ overlaps[m] > 0 => m \in retryShown

HeldRow(m) ==
  Held(m) => /\ status[m] # "none"
             /\ overlaps[m] = 0 => status[m] \in {"sending", "deleted"}

RowOK(m) == /\ HoldersCounted(m) /\ DeliveriesCounted(m) /\ AttemptsCounted(m)
            /\ ShownUsedUp(m) /\ HeldRow(m)

\* What MarkFailed is about to write.
MarkingOK(w) ==
  pc[w] = "marking" =>
    /\ tally[w] + Trying(msg[w]) <= tries[msg[w]] + 1
    /\ IF msg[w] \in retryShown THEN tally[w] >= MaxRetries
                                ELSE tally[w] > attempts[msg[w]]

Books == /\ \A m \in Msgs : RowOK(m)
         /\ \A w \in Workers : MarkingOK(w)

\* The limit on attempts is at least one, and at least max_retries.
LEMMA LimitPositive == Limit \in Nat /\ Limit > 0 /\ MaxRetries <= Limit /\ MaxRetries \in Nat
  BY RetriesAssumption DEF Limit

\* The columns and the history of a row are natural numbers.
RowType(m) ==
  /\ CountsMean(m)
  /\ attempts[m] \in Nat /\ tries[m] \in Nat /\ delivered[m] \in Nat
  /\ unheard[m] \in Nat /\ unrecorded[m] \in Nat
  /\ retries[m] \in Nat /\ overlaps[m] \in Nat
LEMMA RowTypes == TypeOK => \A m \in Msgs : RowType(m)
  BY Counts DEF TypeOK, Counter, RowType
LEMMA RowTypesNext == TypeOK' => (\A m \in Msgs : RowType(m))'
  BY RowTypes, PTL

\* What a row owes, by its status and its copies.
OwedMeaning(m) ==
  /\ Owed(m) \in {0, 1} /\ One(Claimable(m)) \in {0, 1}
  /\ Claimable(m) => Owed(m) = 1 /\ One(Claimable(m)) = 1
  /\ ~Claimable(m) => One(Claimable(m)) = 0
  /\ ~Claimable(m) /\ Copies(m) = 0 /\ status[m] = "sending" => Owed(m) = 1
  /\ ~Claimable(m) /\ (Copies(m) # 0 \/ status[m] # "sending") => Owed(m) = 0
LEMMA OwedMeans == \A m \in Msgs : OwedMeaning(m)
<1> SUFFICES ASSUME NEW m \in Msgs  PROVE OwedMeaning(m)
  OBVIOUS
<1>1. CASE Claimable(m)
  BY <1>1 DEF Owed, One, OwedMeaning
<1>2. CASE ~Claimable(m) /\ Copies(m) = 0 /\ status[m] = "sending"
  BY <1>2 DEF Owed, One, OwedMeaning
<1>3. CASE ~Claimable(m) /\ (Copies(m) # 0 \/ status[m] # "sending")
  <2>1. ~(Claimable(m) \/ (status[m] = "sending" /\ Copies(m) = 0))
    BY <1>3
  <2> QED  BY <1>3, <2>1 DEF Owed, One, OwedMeaning
<1> QED  BY <1>1, <1>2, <1>3
LEMMA OwedMeansNext == (\A m \in Msgs : OwedMeaning(m))'
  BY OwedMeans, PTL

\* At first every row owes its first attempt, and nothing else.
LEMMA BooksInit == Init => Books
<1> SUFFICES ASSUME Init  PROVE Books
  OBVIOUS
<1>1. \A w \in Workers : MarkingOK(w)
  BY DEF Init, MarkingOK
<1>2. ASSUME NEW m \in Msgs  PROVE RowOK(m)
  <2>1. /\ ~Held(m) /\ ~InTry(m)
    BY EmptyElements DEF Init, Held, Busy, InTry, BusyPcs, TryPcs
  <2>2. RowType(m)
    BY TypeInit, RowTypes
  <2>3. Copies(m) = 0 /\ Todo(m) = 0 /\ Sending(m) = 0 /\ Failing(m) = 0 /\ Trying(m) = 0
    BY <2>1, <2>2 DEF RowType, CountsMean, Trying
  <2>4. Owed(m) = 1 /\ One(Claimable(m)) = 1
    BY DEF Init, Owed, Claimable, One
  <2>5. /\ status[m] = "none" /\ attempts[m] = 0 /\ tries[m] = 0 /\ delivered[m] = 0
        /\ unheard[m] = 0 /\ unrecorded[m] = 0 /\ retries[m] = 0 /\ overlaps[m] = 0
        /\ m \notin retryShown
    BY DEF Init
  <2> QED
    BY <2>1, <2>3, <2>4, <2>5, LimitPositive
    DEF RowOK, HoldersCounted, DeliveriesCounted, AttemptsCounted, ShownUsedUp, HeldRow
<1> QED  BY <1>1, <1>2 DEF Books

\* What the books say of a row that the step leaves alone, but that it may take
\* from the table or from some of its holders.
Same(m) ==
  /\ status'[m] = status[m] /\ attempts'[m] = attempts[m] /\ tries'[m] = tries[m]
  /\ delivered'[m] = delivered[m] /\ unheard'[m] = unheard[m]
  /\ unrecorded'[m] = unrecorded[m] /\ retries'[m] = retries[m]
  /\ overlaps'[m] = overlaps[m] /\ (m \in retryShown' <=> m \in retryShown)
SameCounts(m) ==
  /\ Todo(m)' = Todo(m) /\ Sending(m)' = Sending(m)
  /\ Taken(m)' = Taken(m) /\ Failing(m)' = Failing(m)
LEMMA RowSame ==
  ASSUME NEW m \in Msgs, RowType(m), RowType(m)', RowOK(m), Same(m), SameCounts(m)
  PROVE  RowOK(m)'
<1>1. Copies(m)' = Copies(m) /\ Trying(m)' = Trying(m) /\ (Held(m)' <=> Held(m))
  BY DEF RowType, CountsMean, SameCounts, Trying
<1>2. (Claimable(m)' <=> Claimable(m)) /\ Owed(m)' = Owed(m)
  BY <1>1 DEF Claimable, Owed, Same
<1>3. One(Claimable(m))' = One(Claimable(m))
  BY <1>2 DEF One
<1>4. HoldersCounted(m)' /\ DeliveriesCounted(m)' /\ AttemptsCounted(m)'
  BY <1>1, <1>2, <1>3
  DEF RowOK, Same, SameCounts, HoldersCounted, DeliveriesCounted, AttemptsCounted
<1>5. ShownUsedUp(m)' /\ HeldRow(m)'
  BY <1>1 DEF RowOK, Same, ShownUsedUp, HeldRow
<1> QED  BY <1>4, <1>5 DEF RowOK

\* MarkFailed's result stays right for a worker that does not move.
LEMMA MarkingSame ==
  ASSUME NEW v \in Workers, MarkingOK(v), msg[v] \in Msgs,
         RowType(msg[v]), RowType(msg[v])', tally[v] \in Nat,
         pc'[v] = pc[v], msg'[v] = msg[v], tally'[v] = tally[v], retryShown' = retryShown,
         tries[msg[v]] + Trying(msg[v])' <= tries'[msg[v]] + Trying(msg[v]),
         attempts'[msg[v]] = attempts[msg[v]] \/ msg[v] \in retryShown
  PROVE  MarkingOK(v)'
<1> DEFINE n == msg[v]
<1>1. Trying(n) \in Nat /\ Trying(n)' \in Nat /\ tries[n] \in Nat /\ tries'[n] \in Nat
  BY DEF RowType, CountsMean, Trying
<1>2. Trying(msg[v])' = Trying(n)'
  OBVIOUS
<1> QED  BY <1>1 DEF MarkingOK

\* Two workers can have the same message in hand only after a Retry.
LEMMA TwoHolders ==
  ASSUME TypeOK, Books, NEW v \in Workers, NEW w \in Workers, v # w,
         Busy(v), Busy(w), msg[v] = msg[w]
  PROVE  msg[w] \in Msgs /\ overlaps[msg[w]] > 0 /\ msg[w] \in retryShown
<1> DEFINE n == msg[w]
           W == {u \in Workers : pc[u] \in BusyPcs /\ msg[u] = n}
<1>1. n \in Msgs
  BY DEF TypeOK
<1>2. IsFiniteSet(W)
  BY WorkersAssumption, FS_Subset
<1>3. Cardinality({v, w}) = 2
  <2>1. IsFiniteSet({v}) /\ Cardinality({v}) = 1
    BY FS_Singleton
  <2>2. Cardinality({v} \union {w}) = 2
    BY <2>1, FS_AddElement
  <2>3. {v, w} = {v} \union {w}
    OBVIOUS
  <2> QED  BY <2>2, <2>3
<1>4. {v, w} \in SUBSET W
  BY DEF Busy
<1>5. Cardinality(W) >= 2 /\ Cardinality(W) \in Nat
  BY <1>2, <1>3, <1>4, FS_Subset, FS_CardinalityType
<1>6. WorkersAt(BusyPcs, n) >= 2 /\ WorkersAt(BusyPcs, n) \in Nat
  BY <1>5 DEF WorkersAt
<1>7. Places(batch, n) \in Nat /\ Places(ch, n) \in Nat
  BY PlacesType DEF TypeOK
<1>8. Copies(n) >= 2 /\ Copies(n) \in Nat
  BY <1>6, <1>7 DEF Copies
<1>9. RowType(n) /\ RowOK(n)
  BY <1>1, RowTypes DEF Books
<1>10. overlaps[n] > 0
  BY <1>8, <1>9 DEF RowOK, HoldersCounted, RowType, One
<1>11. n \in retryShown
  BY <1>9, <1>10 DEF RowOK, ShownUsedUp
<1> QED  BY <1>1, <1>10, <1>11

\* What a step of one worker does to the numbers of a row.
LEMMA WorkerCounts ==
  ASSUME TypeOK, NEW w \in Workers, NEW m \in Msgs,
         \A v \in Workers : v # w => pc'[v] = pc[v] /\ msg'[v] = msg[v],
         UNCHANGED <<ch, batch>>
  PROVE  /\ Todo(m)' + One(pc[w] = "received" /\ msg[w] = m)
              = Todo(m) + One(pc'[w] = "received" /\ msg'[w] = m)
         /\ Sending(m)' + One(pc[w] = "sending" /\ msg[w] = m)
              = Sending(m) + One(pc'[w] = "sending" /\ msg'[w] = m)
         /\ Taken(m)' + One(pc[w] \in {"delivered", "sent"} /\ msg[w] = m)
              = Taken(m) + One(pc'[w] \in {"delivered", "sent"} /\ msg'[w] = m)
         /\ Failing(m)' + One(pc[w] \in {"errored", "marking"} /\ msg[w] = m)
              = Failing(m) + One(pc'[w] \in {"errored", "marking"} /\ msg'[w] = m)
<1>1. Places(batch, m)' = Places(batch, m) /\ Places(ch, m)' = Places(ch, m)
  OBVIOUS
<1>2. Places(batch, m) \in Nat /\ Places(ch, m) \in Nat
  BY PlacesType DEF TypeOK
<1>3. WorkersAt({"received"}, m)' + One(pc[w] = "received" /\ msg[w] = m)
        = WorkersAt({"received"}, m) + One(pc'[w] = "received" /\ msg'[w] = m)
  <2>1. WorkersAt({"received"}, m)' + One(pc[w] \in {"received"} /\ msg[w] = m)
          = WorkersAt({"received"}, m) + One(pc'[w] \in {"received"} /\ msg'[w] = m)
    BY WorkersAtMove
  <2> QED  BY <2>1 DEF One
<1>4. Sending(m)' + One(pc[w] = "sending" /\ msg[w] = m)
        = Sending(m) + One(pc'[w] = "sending" /\ msg'[w] = m)
  <2>1. WorkersAt({"sending"}, m)' + One(pc[w] \in {"sending"} /\ msg[w] = m)
          = WorkersAt({"sending"}, m) + One(pc'[w] \in {"sending"} /\ msg'[w] = m)
    BY WorkersAtMove
  <2> QED  BY <2>1 DEF One, Sending
<1>5. /\ Taken(m)' + One(pc[w] \in {"delivered", "sent"} /\ msg[w] = m)
           = Taken(m) + One(pc'[w] \in {"delivered", "sent"} /\ msg'[w] = m)
      /\ Failing(m)' + One(pc[w] \in {"errored", "marking"} /\ msg[w] = m)
           = Failing(m) + One(pc'[w] \in {"errored", "marking"} /\ msg'[w] = m)
  BY WorkersAtMove DEF Taken, Failing
<1>6. WorkersAt({"received"}, m) \in Nat
  BY WorkersAtType
<1>7. WorkersAt({"received"}, m)' \in Nat
  BY WorkersAtNext
<1>8. Todo(m)' + One(pc[w] = "received" /\ msg[w] = m)
        = Todo(m) + One(pc'[w] = "received" /\ msg'[w] = m)
  BY <1>1, <1>2, <1>3, <1>6, <1>7 DEF Todo, One
<1> QED  BY <1>4, <1>5, <1>8

\* A step of a busy worker keeps the books if it keeps those of its message.
LEMMA WorkerBooks ==
  ASSUME TypeOK, TypeOK', Books, NEW w \in Workers, Busy(w), NEW n \in Msgs, n = msg[w],
         \A v \in Workers : v # w => pc'[v] = pc[v] /\ msg'[v] = msg[v] /\ tally'[v] = tally[v],
         UNCHANGED <<ch, batch, retryShown>>,
         Busy(w)' => msg'[w] = msg[w],
         \A m \in Msgs : m # n => Same(m),
         RowOK(n)', MarkingOK(w)',
         tries[n] + Trying(n)' <= tries'[n] + Trying(n)
  PROVE  Books'
<1>2. ASSUME NEW m \in Msgs, m # n  PROVE SameCounts(m)
  <2>1. msg[w] # m /\ (Busy(w)' => msg'[w] # m)
    BY <1>2
  <2>2. /\ One(pc[w] = "received" /\ msg[w] = m) = 0
        /\ One(pc[w] = "sending" /\ msg[w] = m) = 0
        /\ One(pc[w] \in {"delivered", "sent"} /\ msg[w] = m) = 0
        /\ One(pc[w] \in {"errored", "marking"} /\ msg[w] = m) = 0
    BY <2>1 DEF One
  <2>3. /\ One(pc'[w] = "received" /\ msg'[w] = m) = 0
        /\ One(pc'[w] = "sending" /\ msg'[w] = m) = 0
        /\ One(pc'[w] \in {"delivered", "sent"} /\ msg'[w] = m) = 0
        /\ One(pc'[w] \in {"errored", "marking"} /\ msg'[w] = m) = 0
    BY <2>1 DEF One, Busy, BusyPcs, TryPcs
  <2>4. RowType(m) /\ RowType(m)'
    BY RowTypes, RowTypesNext
  <2> QED  BY <2>2, <2>3, <2>4, WorkerCounts DEF SameCounts, RowType, CountsMean
<1>3. ASSUME NEW m \in Msgs  PROVE RowOK(m)'
  <2>1. CASE m = n
    BY <2>1
  <2>2. CASE m # n
    <3>1. Same(m) /\ SameCounts(m) /\ RowOK(m)
      BY <1>2, <2>2 DEF Books
    <3>2. RowType(m) /\ RowType(m)'
      BY RowTypes, RowTypesNext
    <3> QED  BY <3>1, <3>2, RowSame
  <2> QED  BY <2>1, <2>2
<1>4. ASSUME NEW v \in Workers, v # w, pc[v] = "marking"  PROVE MarkingOK(v)'
  <2>1. /\ msg[v] \in Msgs /\ Busy(v) /\ tally[v] \in Nat
    BY <1>4 DEF TypeOK, Busy, BusyPcs, TryPcs
  <2>2. /\ pc'[v] = pc[v] /\ msg'[v] = msg[v] /\ tally'[v] = tally[v]
        /\ retryShown' = retryShown /\ MarkingOK(v)
    BY <1>4 DEF Books
  <2>3. RowType(msg[v]) /\ RowType(msg[v])'
    BY <2>1, <2>2, RowTypes, RowTypesNext
  <2>4. CASE msg[v] = n
    <3>1. msg[v] \in retryShown
      BY <1>4, <2>1, <2>4, TwoHolders
    <3>2. tries[msg[v]] + Trying(msg[v])' <= tries'[msg[v]] + Trying(msg[v])
      BY <2>2, <2>4
    <3> QED  BY <2>1, <2>2, <2>3, <3>1, <3>2, MarkingSame
  <2>5. CASE msg[v] # n
    <3>1. Same(msg[v]) /\ SameCounts(msg[v])
      BY <1>2, <2>1, <2>5
    <3>2. Trying(msg[v])' = Trying(msg[v])
      BY <2>2, <3>1 DEF SameCounts, Trying
    <3>3. tries[msg[v]] + Trying(msg[v])' <= tries'[msg[v]] + Trying(msg[v])
      BY <2>3, <3>1, <3>2 DEF Same, RowType, CountsMean, Trying
    <3>4. attempts'[msg[v]] = attempts[msg[v]]
      BY <3>1 DEF Same
    <3> QED  BY <2>1, <2>2, <2>3, <3>3, <3>4, MarkingSame
  <2> QED  BY <2>4, <2>5
<1>5. ASSUME NEW v \in Workers  PROVE MarkingOK(v)'
  <2>1. CASE v = w
    BY <2>1
  <2>2. CASE v # w /\ pc[v] = "marking"
    BY <1>4, <2>2
  <2>3. CASE v # w /\ pc[v] # "marking"
    BY <2>3 DEF MarkingOK
  <2> QED  BY <2>1, <2>2, <2>3
<1> QED  BY <1>3, <1>5 DEF Books

\* What the step of a worker does to the numbers of its own message.
Moves(n, from, to) ==
  /\ Todo(n)' + One(from = "todo") = Todo(n) + One(to = "todo")
  /\ Sending(n)' + One(from = "sending") = Sending(n) + One(to = "sending")
  /\ Taken(n)' + One(from = "taken") = Taken(n) + One(to = "taken")
  /\ Failing(n)' + One(from = "failing") = Failing(n) + One(to = "failing")

At(p) ==
  CASE p = "received" -> "todo"
    [] p = "sending" -> "sending"
    [] p \in {"delivered", "sent"} -> "taken"
    [] p \in {"errored", "marking"} -> "failing"
    [] OTHER -> "none"
LEMMA WorkerMoves ==
  ASSUME TypeOK, NEW w \in Workers, Busy(w), NEW n \in Msgs, n = msg[w],
         \A v \in Workers : v # w => pc'[v] = pc[v] /\ msg'[v] = msg[v],
         UNCHANGED <<ch, batch>>,
         Busy(w)' => msg'[w] = msg[w]
  PROVE  Moves(n, At(pc[w]), At(pc'[w]))
<1>2. /\ One(pc[w] = "received" /\ msg[w] = n) = One(At(pc[w]) = "todo")
      /\ One(pc[w] = "sending" /\ msg[w] = n) = One(At(pc[w]) = "sending")
      /\ One(pc[w] \in {"delivered", "sent"} /\ msg[w] = n) = One(At(pc[w]) = "taken")
      /\ One(pc[w] \in {"errored", "marking"} /\ msg[w] = n) = One(At(pc[w]) = "failing")
  BY DEF One, At
<1>3. /\ One(pc'[w] = "received" /\ msg'[w] = n) = One(At(pc'[w]) = "todo")
      /\ One(pc'[w] = "sending" /\ msg'[w] = n) = One(At(pc'[w]) = "sending")
      /\ One(pc'[w] \in {"delivered", "sent"} /\ msg'[w] = n) = One(At(pc'[w]) = "taken")
      /\ One(pc'[w] \in {"errored", "marking"} /\ msg'[w] = n) = One(At(pc'[w]) = "failing")
  <2>1. pc'[w] \in BusyPcs => msg'[w] = n
    BY DEF Busy
  <2> QED  BY <2>1 DEF One, At, BusyPcs, TryPcs
<1> QED  BY <1>2, <1>3, WorkerCounts DEF Moves

\* A step of a worker on its message: the numbers before and after.
LEMMA MovedNumbers ==
  ASSUME NEW n \in Msgs, RowType(n), RowType(n)', NEW from, NEW to, Moves(n, from, to)
  PROVE  /\ Trying(n) \in Nat /\ Trying(n)' \in Nat
         /\ Copies(n) \in Nat /\ Copies(n)' \in Nat
         /\ Copies(n) = Todo(n) + Trying(n) /\ Copies(n)' = Todo(n)' + Trying(n)'
         /\ (Held(n) <=> Copies(n) > 0) /\ (Held(n)' <=> Copies(n)' > 0)
  BY DEF RowType, CountsMean, Trying

\* DropAndExit, BeginSend, Deliver, SendSucceeds and SendFails.
LEMMA BooksSending ==
  ASSUME TypeOK, TypeOK', Books, NEW w \in Workers,
         DropAndExit(w) \/ BeginSend(w) \/ Deliver(w) \/ SendSucceeds(w) \/ SendFails(w)
  PROVE  Books'
<1> DEFINE n == msg[w]
<1> USE DEF table, chan, process, posts, history
<1>1. /\ Busy(w) /\ n \in Msgs
      /\ UNCHANGED <<ch, batch, retryShown, status, attempts, unrecorded, retries, overlaps, tally>>
      /\ \A v \in Workers : v # w => pc'[v] = pc[v] /\ msg'[v] = msg[v] /\ tally'[v] = tally[v]
      /\ Busy(w)' => msg'[w] = msg[w]
      /\ pc'[w] # "marking"
  BY DEF DropAndExit, BeginSend, Deliver, SendSucceeds, SendFails, TypeOK, Busy, BusyPcs, TryPcs
<1>2. /\ tries \in [Msgs -> Nat] /\ delivered \in [Msgs -> Nat] /\ unheard \in [Msgs -> Nat]
      /\ pc \in [Workers -> Pcs]
  BY DEF TypeOK, Counter
<1>3. RowType(n) /\ RowOK(n) /\ (\A m \in Msgs : RowType(m)')
  BY <1>1, RowTypes, RowTypesNext DEF Books
<1>4. PICK x \in Msgs : x = n
  BY <1>1
<1>5. RowType(x) /\ RowOK(x) /\ RowType(x)'
  BY <1>3, <1>4
<1>6. Moves(x, At(pc[w]), At(pc'[w]))
  BY <1>1, <1>4, WorkerMoves
<1>7. /\ Trying(x) \in Nat /\ Trying(x)' \in Nat
      /\ Copies(x) \in Nat /\ Copies(x)' \in Nat
      /\ Copies(x) = Todo(x) + Trying(x) /\ Copies(x)' = Todo(x)' + Trying(x)'
      /\ (Held(x) <=> Copies(x) > 0) /\ (Held(x)' <=> Copies(x)' > 0)
  BY <1>5, <1>6, MovedNumbers
<1>8. /\ Claimable(x)' <=> Claimable(x)
      /\ One(Claimable(x)') = One(Claimable(x))
  BY <1>1 DEF Claimable
<1>9. ShownUsedUp(x)'
  BY <1>1, <1>5 DEF RowOK, ShownUsedUp
<1> HIDE DEF n
<1>10. ASSUME NEW d \in {0, 1}, NEW e \in {0, 1}, NEW t \in {0, 1}, NEW u \in {0, 1},
              tries'[x] = tries[x] + t,
              delivered'[x] = delivered[x] + d, unheard'[x] = unheard[x] + u,
              Todo(x)' = Todo(x) - e, t <= e, Trying(x)' = Trying(x) + t,
              Sending(x)' + Failing(x)' + d <= Sending(x) + Failing(x) + t + u,
              Copies(x) > 0
       PROVE  RowOK(x)'
  <2>1. /\ status'[x] = status[x] /\ attempts'[x] = attempts[x] /\ unrecorded'[x] = unrecorded[x]
        /\ retries'[x] = retries[x] /\ overlaps'[x] = overlaps[x] /\ retryShown' = retryShown
    BY <1>1
  <2>2. /\ Owed(x) \in {0, 1} /\ Owed(x)' \in {0, 1} /\ Owed(x)' + Todo(x)' + t <= Owed(x) + Todo(x)
    <3>1. Copies(x)' = Copies(x) - e + t
      <4>1. Todo(x) \in Nat /\ e \in Int /\ t \in Int
        BY <1>5, <1>10 DEF RowType, CountsMean
      <4> QED  BY <1>7, <1>10, <4>1
    <3>2. Owed(x) = One(Claimable(x))
      <4>1. Copies(x) # 0
        BY <1>7, <1>10
      <4>2. /\ Claimable(x) => Owed(x) = 1 /\ One(Claimable(x)) = 1
            /\ ~Claimable(x) => Owed(x) = 0 /\ One(Claimable(x)) = 0
        BY <4>1, OwedMeans DEF OwedMeaning
      <4> QED  BY <4>2
    <3>3. Owed(x)' = One(Claimable(x)) \/ (Owed(x)' = 1 /\ e = 1 /\ t = 0)
      <4>1. CASE Copies(x)' = 0
        <5>1. e = 1 /\ t = 0
          BY <1>7, <1>10, <3>1, <4>1
        <5> QED  BY <1>8, <5>1, OwedMeans, OwedMeansNext DEF OwedMeaning
      <4>2. CASE Copies(x)' # 0
        BY <1>8, <4>2, OwedMeans, OwedMeansNext DEF OwedMeaning
      <4> QED  BY <4>1, <4>2
    <3>4. Todo(x) \in Nat /\ Todo(x)' = Todo(x) - e /\ One(Claimable(x)) \in {0, 1}
      BY <1>5, <1>10 DEF RowType, CountsMean, One
    <3>5. CASE Owed(x)' = One(Claimable(x))
      BY <1>10, <3>2, <3>4, <3>5
    <3>6. CASE Owed(x)' = 1 /\ e = 1 /\ t = 0
      BY <1>10, <3>2, <3>4, <3>6
    <3> QED  BY <3>3, <3>5, <3>6
  <2>3. HoldersCounted(x)'
    <3>1. Copies(x)' <= Copies(x)
      BY <1>5, <1>7, <1>10 DEF RowType, CountsMean
    <3>2. One(Claimable(x))' = One(Claimable(x)) /\ One(Claimable(x)) \in {0, 1}
      BY <1>8 DEF One
    <3> QED  BY <1>5, <1>7, <2>1, <3>1, <3>2 DEF RowOK, HoldersCounted, RowType
  <2>4. DeliveriesCounted(x)'
    BY <1>5, <1>10, <2>1, <2>2 DEF RowOK, DeliveriesCounted, RowType, CountsMean
  <2>5. AttemptsCounted(x)'
    <3>1. AttemptsCounted(x) /\ Todo(x) \in Nat /\ Todo(x)' \in Nat
      BY <1>5 DEF RowOK, RowType, CountsMean
    <3>2. tries[x] + Todo(x) + Owed(x) >= tries'[x] + Todo(x)' + Owed(x)'
      BY <1>5, <1>10, <2>2, <3>1 DEF RowType
    <3>3. attempts[x] + Trying(x) <= tries[x] => attempts[x] + Trying(x)' <= tries'[x]
      BY <1>5, <1>7, <1>10 DEF RowType
    <3>4. /\ tries[x] \in Nat /\ tries'[x] \in Nat /\ attempts[x] \in Nat /\ retries[x] \in Nat
          /\ unrecorded[x] \in Nat
      BY <1>5 DEF RowType
    <3>5. tries'[x] + Todo(x)' + Owed(x)' <= Limit + retries[x] + unrecorded[x]
      BY <2>2, <3>1, <3>2, <3>4, LimitPositive DEF AttemptsCounted
    <3>6. x \notin retryShown => tries'[x] + Todo(x)' + Owed(x)' <= attempts[x] + 1 + unrecorded[x]
      BY <2>2, <3>1, <3>2, <3>4 DEF AttemptsCounted
    <3> QED  BY <2>1, <3>1, <3>3, <3>5, <3>6 DEF AttemptsCounted
  <2>6. HeldRow(x)'
    <3>1. Held(x)
      BY <1>7, <1>10
    <3> QED  BY <1>5, <2>1, <3>1 DEF RowOK, HeldRow
  <2> QED  BY <1>9, <2>3, <2>4, <2>5, <2>6 DEF RowOK
<1>11. Copies(x) > 0
  <2>1. Held(x)
    BY <1>1, <1>4 DEF Held, n
  <2> QED  BY <1>7, <2>1
<1>12. RowOK(x)' /\ tries[x] + Trying(x)' <= tries'[x] + Trying(x)
  <2> USE <1>4, <1>5, <1>7, <1>10, <1>11
      DEF RowType, CountsMean, Trying, Moves, At, One, n
  <2>1. CASE DropAndExit(w)
    <3>1. pc[w] = "received" /\ pc'[w] = "exited" /\ UNCHANGED <<tries, delivered, unheard>>
      BY <2>1, <1>2 DEF DropAndExit
    <3>2. Moves(x, "todo", "none")
      BY <1>6, <3>1
    <3>3. /\ Todo(x)' = Todo(x) - 1 /\ Trying(x)' = Trying(x) + 0
          /\ Sending(x)' + Failing(x)' = Sending(x) + Failing(x)
      BY <3>2
    <3>4. tries'[x] = tries[x] + 0 /\ delivered'[x] = delivered[x] + 0 /\ unheard'[x] = unheard[x] + 0
      BY <3>1
    <3> QED  BY <3>3, <3>4
  <2>2. CASE BeginSend(w)
    <3>1. /\ pc[w] = "received" /\ pc'[w] = "sending" /\ UNCHANGED <<delivered, unheard>>
          /\ tries' = [tries EXCEPT ![x] = @ + 1]
      BY <2>2, <1>2 DEF BeginSend
    <3>2. Moves(x, "todo", "sending")
      BY <1>6, <3>1
    <3>3. /\ Todo(x)' = Todo(x) - 1 /\ Trying(x)' = Trying(x) + 1
          /\ Sending(x)' + Failing(x)' = Sending(x) + Failing(x) + 1
      BY <3>2
    <3>4. tries'[x] = tries[x] + 1 /\ delivered'[x] = delivered[x] + 0 /\ unheard'[x] = unheard[x] + 0
      BY <1>2, <3>1
    <3> QED  BY <3>3, <3>4
  <2>3. CASE Deliver(w)
    <3>1. /\ pc[w] = "sending" /\ pc'[w] = "delivered" /\ UNCHANGED <<tries, unheard>>
          /\ delivered' = [delivered EXCEPT ![x] = @ + 1]
      BY <2>3, <1>2 DEF Deliver
    <3>2. Moves(x, "sending", "taken")
      BY <1>6, <3>1
    <3>3. /\ Todo(x)' = Todo(x) - 0 /\ Trying(x)' = Trying(x) + 0
          /\ Sending(x)' + Failing(x)' + 1 = Sending(x) + Failing(x)
      BY <3>2
    <3>4. tries'[x] = tries[x] + 0 /\ delivered'[x] = delivered[x] + 1 /\ unheard'[x] = unheard[x] + 0
      BY <1>2, <3>1
    <3> QED  BY <3>3, <3>4
  <2>4. CASE SendSucceeds(w)
    <3>1. pc[w] = "delivered" /\ pc'[w] = "sent" /\ UNCHANGED <<tries, delivered, unheard>>
      BY <2>4, <1>2 DEF SendSucceeds
    <3>2. Moves(x, "taken", "taken")
      BY <1>6, <3>1
    <3>3. /\ Todo(x)' = Todo(x) - 0 /\ Trying(x)' = Trying(x) + 0
          /\ Sending(x)' + Failing(x)' = Sending(x) + Failing(x)
      BY <3>2
    <3>4. tries'[x] = tries[x] + 0 /\ delivered'[x] = delivered[x] + 0 /\ unheard'[x] = unheard[x] + 0
      BY <3>1
    <3> QED  BY <3>3, <3>4
  <2>5. CASE SendFails(w) /\ pc[w] = "sending"
    <3>1. pc'[w] = "errored" /\ UNCHANGED <<tries, delivered, unheard>>
      BY <2>5, <1>2 DEF SendFails
    <3>2. Moves(x, "sending", "failing")
      BY <1>6, <2>5, <3>1
    <3>3. /\ Todo(x)' = Todo(x) - 0 /\ Trying(x)' = Trying(x) + 0
          /\ Sending(x)' + Failing(x)' = Sending(x) + Failing(x)
      BY <3>2
    <3>4. tries'[x] = tries[x] + 0 /\ delivered'[x] = delivered[x] + 0 /\ unheard'[x] = unheard[x] + 0
      BY <3>1
    <3> QED  BY <3>3, <3>4
  <2>6. CASE SendFails(w) /\ pc[w] = "delivered"
    <3>1. /\ pc'[w] = "errored" /\ UNCHANGED <<tries, delivered>>
          /\ unheard' = [unheard EXCEPT ![x] = @ + 1]
      BY <2>6, <1>2 DEF SendFails
    <3>2. Moves(x, "taken", "failing")
      BY <1>6, <2>6, <3>1
    <3>3. /\ Todo(x)' = Todo(x) - 0 /\ Trying(x)' = Trying(x) + 0
          /\ Sending(x)' + Failing(x)' = Sending(x) + Failing(x) + 1
      BY <3>2
    <3>4. tries'[x] = tries[x] + 0 /\ delivered'[x] = delivered[x] + 0 /\ unheard'[x] = unheard[x] + 1
      BY <1>2, <3>1
    <3> QED  BY <3>3, <3>4
  <2> QED
    BY <2>1, <2>2, <2>3, <2>4, <2>5, <2>6
    DEF DropAndExit, BeginSend, Deliver, SendSucceeds, SendFails
<1>13. \A m \in Msgs : m # x => Same(m)
  BY <1>1, <1>2, <1>4 DEF Same, DropAndExit, BeginSend, Deliver, SendSucceeds, SendFails, n
<1>14. MarkingOK(w)'
  BY <1>1 DEF MarkingOK
<1> QED  BY <1>1, <1>4, <1>12, <1>13, <1>14, WorkerBooks DEF n

\* What the numbers of a row are to each other, in a state and in the next.
AllNumbers ==
  \A x \in Msgs :
    /\ Todo(x) \in Nat /\ Sending(x) \in Nat /\ Taken(x) \in Nat /\ Failing(x) \in Nat
    /\ Trying(x) \in Nat /\ Trying(x) = Sending(x) + Taken(x) + Failing(x)
    /\ Copies(x) \in Nat /\ Copies(x) = Todo(x) + Trying(x)
    /\ (Held(x) <=> Copies(x) > 0)
    /\ attempts[x] \in Nat /\ tries[x] \in Nat /\ delivered[x] \in Nat
    /\ unheard[x] \in Nat /\ unrecorded[x] \in Nat /\ retries[x] \in Nat
    /\ overlaps[x] \in Nat
LEMMA NumbersTotal == TypeOK => AllNumbers
<1> SUFFICES ASSUME TypeOK, NEW x \in Msgs  PROVE RowType(x) /\ Trying(x) = Sending(x) + Taken(x) + Failing(x)
  BY DEF AllNumbers, RowType, CountsMean, Trying
<1> QED  BY RowTypes DEF Trying
LEMMA NumbersNext == TypeOK' => AllNumbers'
  BY NumbersTotal, PTL

\* A worker that is done with a message takes one copy away, and no other.
LEMMA DoneNumbers ==
  ASSUME TypeOK, TypeOK', NEW w \in Workers, NEW x \in Msgs, x = msg[w],
         pc[w] \in {"sent", "errored", "marking"}, Done(w), UNCHANGED <<ch, batch>>
  PROVE  /\ Busy(w) /\ ~Busy(w)' /\ pc'[w] # "marking"
         /\ \A v \in Workers : v # w => /\ pc'[v] = pc[v] /\ msg'[v] = msg[v]
                                        /\ tally'[v] = tally[v]
         /\ Todo(x)' = Todo(x) /\ Sending(x)' = Sending(x) /\ Trying(x)' = Trying(x) - 1
         /\ Failing(x)' <= Failing(x)
         /\ pc[w] # "sent" => Failing(x)' = Failing(x) - 1
         /\ Copies(x)' = Copies(x) - 1 /\ Copies(x) > 0
<1>1. pc \in [Workers -> Pcs] /\ msg \in [Workers -> Msgs \union {NoMsg}] /\ tally \in [Workers -> Nat]
  BY DEF TypeOK
<1>2. /\ Busy(w) /\ ~Busy(w)' /\ pc'[w] # "marking"
      /\ \A v \in Workers : v # w => /\ pc'[v] = pc[v] /\ msg'[v] = msg[v]
                                     /\ tally'[v] = tally[v]
  BY <1>1 DEF Done, Busy, BusyPcs, TryPcs
<1>3. pc'[w] = "receive"
  BY <1>1 DEF Done
<1>4. Moves(x, At(pc[w]), At(pc'[w]))
  BY <1>2, WorkerMoves
<1>5. AllNumbers /\ AllNumbers'
  BY NumbersTotal, NumbersNext
<1>6. CASE pc[w] = "sent"
  <2>1. Moves(x, "taken", "none")
    BY <1>3, <1>4, <1>6 DEF At
  <2>2. /\ Todo(x)' = Todo(x) /\ Sending(x)' = Sending(x) /\ Taken(x)' + 1 = Taken(x)
        /\ Failing(x)' = Failing(x)
    BY <1>5, <2>1 DEF Moves, One, AllNumbers
  <2> QED  BY <1>2, <1>5, <1>6, <2>2 DEF AllNumbers
<1>7. CASE pc[w] \in {"errored", "marking"}
  <2>1. Moves(x, "failing", "none")
    BY <1>3, <1>4, <1>7 DEF At
  <2>2. /\ Todo(x)' = Todo(x) /\ Sending(x)' = Sending(x) /\ Taken(x)' = Taken(x)
        /\ Failing(x)' + 1 = Failing(x)
    BY <1>5, <2>1 DEF Moves, One, AllNumbers
  <2> QED  BY <1>2, <1>5, <1>7, <2>2 DEF AllNumbers
<1> QED  BY <1>6, <1>7

\* The outcome of an attempt is not stored: the row may owe one more attempt.
LEMMA BooksLost ==
  ASSUME TypeOK, TypeOK', Books, NEW w \in Workers,
         pc[w] \in {"sent", "errored", "marking"}, Done(w), Unrecorded(w),
         UNCHANGED <<ch, batch, retryShown, status, attempts, tries, delivered, unheard,
                     retries, overlaps>>
  PROVE  Books'
<1>1. PICK x \in Msgs : x = msg[w]
  BY DEF TypeOK, Busy, BusyPcs, TryPcs
<1>2. /\ Busy(w) /\ ~Busy(w)' /\ pc'[w] # "marking"
      /\ \A v \in Workers : v # w => /\ pc'[v] = pc[v] /\ msg'[v] = msg[v]
                                     /\ tally'[v] = tally[v]
      /\ Todo(x)' = Todo(x) /\ Sending(x)' = Sending(x) /\ Trying(x)' = Trying(x) - 1
      /\ Failing(x)' <= Failing(x)
      /\ pc[w] # "sent" => Failing(x)' = Failing(x) - 1
      /\ Copies(x)' = Copies(x) - 1 /\ Copies(x) > 0
  BY <1>1, DoneNumbers
<1>3. AllNumbers /\ AllNumbers' /\ RowOK(x)
  BY NumbersTotal, NumbersNext DEF Books
<1>4. /\ unrecorded'[x] = unrecorded[x] + 1
      /\ \A m \in Msgs : m # x => unrecorded'[m] = unrecorded[m]
  BY <1>1 DEF Unrecorded, TypeOK, Counter
<1>5. /\ (Claimable(x)' <=> Claimable(x)) /\ One(Claimable(x))' = One(Claimable(x))
      /\ One(Claimable(x)) \in {0, 1}
      /\ Owed(x) \in Nat /\ Owed(x)' \in Nat /\ Owed(x)' <= Owed(x) + 1
  <2>1. Claimable(x)' <=> Claimable(x)
    BY DEF Claimable
  <2> QED  BY <2>1, OwedMeans, OwedMeansNext DEF OwedMeaning
<1>6. RowOK(x)'
  <2>1. HoldersCounted(x)'
    BY <1>2, <1>3, <1>5 DEF RowOK, HoldersCounted, AllNumbers
  <2>2. DeliveriesCounted(x)'
    BY <1>2, <1>3, <1>4, <1>5 DEF RowOK, DeliveriesCounted, AllNumbers
  <2>3. AttemptsCounted(x)'
    BY <1>2, <1>3, <1>4, <1>5, LimitPositive DEF RowOK, AttemptsCounted, AllNumbers
  <2>4. ShownUsedUp(x)' /\ HeldRow(x)'
    BY <1>2, <1>3 DEF RowOK, ShownUsedUp, HeldRow, AllNumbers
  <2> QED  BY <2>1, <2>2, <2>3, <2>4 DEF RowOK
<1>7. tries[x] + Trying(x)' <= tries'[x] + Trying(x)
  BY <1>2, <1>3 DEF AllNumbers
<1>8. \A m \in Msgs : m # x => Same(m)
  BY <1>4 DEF Same
<1> QED  BY <1>1, <1>2, <1>6, <1>7, <1>8, WorkerBooks DEF MarkingOK

\* The outcome of an attempt is stored: as "sent", as "failed" when the
\* attempts are used up, as "queued" when they are not.
LEMMA BooksStored ==
  ASSUME TypeOK, TypeOK', Books, NEW w \in Workers, NEW x \in Msgs, x = msg[w],
         pc[w] \in {"sent", "marking"}, Done(w),
         UNCHANGED <<ch, batch, retryShown, tries, delivered, unheard, unrecorded,
                     retries, overlaps>>,
         \A m \in Msgs : m # x => status'[m] = status[m] /\ attempts'[m] = attempts[m],
         \/ pc[w] = "sent" /\ status'[x] = "sent" /\ attempts'[x] = attempts[x] + 1
         \/ /\ pc[w] = "marking" /\ attempts'[x] = tally[w]
            /\ \/ tally[w] >= MaxRetries /\ status'[x] = "failed"
               \/ ~(tally[w] >= MaxRetries) /\ status'[x] = "queued"
  PROVE  Books'
<1>2. /\ Busy(w) /\ ~Busy(w)' /\ pc'[w] # "marking"
      /\ \A v \in Workers : v # w => /\ pc'[v] = pc[v] /\ msg'[v] = msg[v]
                                     /\ tally'[v] = tally[v]
      /\ Todo(x)' = Todo(x) /\ Sending(x)' = Sending(x) /\ Trying(x)' = Trying(x) - 1
      /\ Failing(x)' <= Failing(x)
      /\ pc[w] # "sent" => Failing(x)' = Failing(x) - 1
      /\ Copies(x)' = Copies(x) - 1 /\ Copies(x) > 0
  BY DoneNumbers
<1>3. AllNumbers /\ AllNumbers' /\ RowOK(x) /\ tally[w] \in Nat
  BY NumbersTotal, NumbersNext DEF Books, TypeOK
<1>4. /\ One(Claimable(x)) \in {0, 1} /\ One(Claimable(x))' \in {0, 1}
      /\ Owed(x) \in Nat /\ Owed(x)' \in Nat
  BY OwedMeans, OwedMeansNext DEF OwedMeaning
<1>5. pc[w] = "marking" =>
        /\ tally[w] + Trying(x) <= tries[x] + 1
        /\ x \in retryShown => tally[w] >= MaxRetries
        /\ x \notin retryShown => tally[w] > attempts[x]
  BY DEF Books, MarkingOK
<1>6. ShownUsedUp(x)'
  BY <1>3, <1>5, LimitPositive DEF RowOK, ShownUsedUp, AllNumbers
<1>7. overlaps[x] = 0 => Copies(x)' = 0
  BY <1>2, <1>3, <1>4 DEF RowOK, HoldersCounted, AllNumbers
<1>8. HeldRow(x)'
  BY <1>3, <1>7 DEF HeldRow, AllNumbers
<1>9. RowOK(x)'
  <2>1. CASE status'[x] \in {"sent", "failed"}
    <3>1. Owed(x)' = 0 /\ One(Claimable(x))' = 0
      <4>1. ~Claimable(x)' /\ status'[x] # "sending"
        BY <2>1 DEF Claimable
      <4> QED  BY <4>1, OwedMeansNext DEF OwedMeaning
    <3>2. HoldersCounted(x)'
      BY <1>2, <1>3, <1>4, <3>1 DEF RowOK, HoldersCounted, AllNumbers
    <3>3. DeliveriesCounted(x)'
      BY <1>2, <1>3, <1>4, <3>1 DEF RowOK, DeliveriesCounted, AllNumbers
    <3>4. AttemptsCounted(x)'
      <4>1. AttemptsCounted(x)
        BY <1>3 DEF RowOK
      <4>2. tries[x] + Todo(x)' + Owed(x)' <= Limit + retries[x] + unrecorded[x]
        BY <1>2, <1>3, <1>4, <3>1, <4>1, LimitPositive DEF AttemptsCounted, AllNumbers
      <4>3. attempts'[x] + Trying(x)' <= tries[x]
        BY <1>2, <1>3, <1>5, <4>1 DEF AttemptsCounted, AllNumbers
      <4>4. x \notin retryShown => attempts'[x] > attempts[x]
        BY <1>3, <1>5 DEF AllNumbers
      <4>5. x \notin retryShown =>
              tries[x] + Todo(x)' + Owed(x)' <= attempts'[x] + 1 + unrecorded[x]
        BY <1>2, <1>3, <1>4, <3>1, <4>1, <4>4 DEF AttemptsCounted, AllNumbers
      <4> QED  BY <4>2, <4>3, <4>5 DEF AttemptsCounted
    <3> QED  BY <1>6, <1>8, <3>2, <3>3, <3>4 DEF RowOK
  <2>2. CASE status'[x] = "queued"
    <3>1. Owed(x)' = 1 /\ One(Claimable(x))' = 1
      BY <2>2, OwedMeansNext DEF Claimable, OwedMeaning
    <3>2. /\ pc[w] = "marking" /\ attempts'[x] = tally[w] /\ tally[w] < MaxRetries
          /\ x \notin retryShown /\ tally[w] > attempts[x] /\ tally[w] + Trying(x) <= tries[x] + 1
      BY <1>3, <1>5, <2>2, LimitPositive
    <3>3. overlaps[x] = 0
      BY <1>3, <3>2 DEF RowOK, ShownUsedUp, AllNumbers
    <3>4. HoldersCounted(x)'
      BY <1>3, <1>7, <3>1, <3>3 DEF HoldersCounted
    <3>5. DeliveriesCounted(x)'
      BY <1>2, <1>3, <1>4, <3>1, <3>2 DEF RowOK, DeliveriesCounted, AllNumbers
    <3>6. AttemptsCounted(x)'
      <4>1. AttemptsCounted(x)
        BY <1>3 DEF RowOK
      <4>2. tries[x] + Todo(x)' + Owed(x)' <= tally[w] + 1 + unrecorded[x]
        BY <1>2, <1>3, <1>4, <3>1, <3>2, <4>1 DEF AttemptsCounted, AllNumbers
      <4>3. tally[w] + 1 + unrecorded[x] <= Limit + retries[x] + unrecorded[x]
        BY <1>3, <3>2, LimitPositive DEF AllNumbers
      <4>4. tries[x] + Todo(x)' + Owed(x)' <= Limit + retries[x] + unrecorded[x]
        BY <1>2, <1>3, <1>4, <4>2, <4>3, LimitPositive DEF AllNumbers
      <4>5. attempts'[x] + Trying(x)' <= tries[x]
        BY <1>2, <1>3, <3>2 DEF AllNumbers
      <4> QED  BY <3>2, <4>2, <4>4, <4>5 DEF AttemptsCounted
    <3> QED  BY <1>6, <1>8, <3>4, <3>5, <3>6 DEF RowOK
  <2> QED  BY <2>1, <2>2
<1>10. tries[x] + Trying(x)' <= tries'[x] + Trying(x)
  BY <1>2, <1>3 DEF AllNumbers
<1>11. \A m \in Msgs : m # x => Same(m)
  BY DEF Same
<1> QED  BY <1>2, <1>9, <1>10, <1>11, WorkerBooks DEF MarkingOK

\* MarkFailed reads the column: what it is about to write is right.
LEMMA BooksRead ==
  ASSUME TypeOK, TypeOK', Books, NEW w \in Workers, ReadAttempts(w), RowExists(w)
  PROVE  Books'
<1> USE DEF table, chan, process, posts, history
<1>1. PICK x \in Msgs : x = msg[w]
  BY DEF TypeOK, ReadAttempts, Busy, BusyPcs, TryPcs
<1>2. /\ Busy(w) /\ pc[w] = "errored" /\ pc'[w] = "marking" /\ tally'[w] = attempts[x] + 1
      /\ \A v \in Workers : v # w => /\ pc'[v] = pc[v] /\ msg'[v] = msg[v]
                                     /\ tally'[v] = tally[v]
      /\ UNCHANGED <<ch, batch, msg, retryShown, status, attempts, tries, delivered, unheard,
                     unrecorded, retries, overlaps>>
  BY <1>1 DEF ReadAttempts, TypeOK, Busy, BusyPcs, TryPcs
<1>3. Moves(x, "failing", "failing")
  <2>1. Moves(x, At(pc[w]), At(pc'[w]))
    BY <1>1, <1>2, WorkerMoves
  <2> QED  BY <1>2, <2>1 DEF At
<1>4. AllNumbers /\ AllNumbers' /\ RowOK(x) /\ RowType(x) /\ RowType(x)'
  BY NumbersTotal, NumbersNext, RowTypes, RowTypesNext DEF Books
<1>5. SameCounts(x)
  <2>1. /\ Todo(x)' + 0 = Todo(x) + 0 /\ Sending(x)' + 0 = Sending(x) + 0
        /\ Taken(x)' + 0 = Taken(x) + 0 /\ Failing(x)' + 1 = Failing(x) + 1
    BY <1>3 DEF Moves, One
  <2>2. /\ Todo(x) \in Nat /\ Sending(x) \in Nat /\ Taken(x) \in Nat /\ Failing(x) \in Nat
        /\ Todo(x)' \in Nat /\ Sending(x)' \in Nat /\ Taken(x)' \in Nat /\ Failing(x)' \in Nat
    BY <1>4 DEF AllNumbers
  <2> QED  BY <2>1, <2>2 DEF SameCounts
<1>6. \A m \in Msgs : Same(m)
  BY <1>2 DEF Same
<1>7. RowOK(x)'
  BY <1>4, <1>5, <1>6, RowSame
<1>8. Trying(x)' = Trying(x)
  BY <1>5 DEF SameCounts, Trying
<1>9. MarkingOK(w)'
  <2>1. /\ attempts[x] + 1 + Trying(x) <= tries[x] + 1
        /\ x \in retryShown => attempts[x] + 1 >= MaxRetries
        /\ attempts[x] + 1 > attempts[x]
    BY <1>4, LimitPositive DEF RowOK, AttemptsCounted, ShownUsedUp, AllNumbers
  <2>2. /\ x = msg'[w] /\ attempts'[x] = attempts[x] /\ tries'[x] = tries[x]
        /\ retryShown' = retryShown
    BY <1>1, <1>2
  <2>3. Trying(msg[w])' = Trying(x)
    BY <1>8, <2>2 DEF Trying, Sending, Taken, Failing
  <2> QED  BY <1>2, <2>1, <2>2, <2>3 DEF MarkingOK
<1>10. tries[x] + Trying(x)' <= tries'[x] + Trying(x)
  BY <1>2, <1>4, <1>8 DEF AllNumbers
<1> QED  BY <1>1, <1>2, <1>6, <1>7, <1>9, <1>10, WorkerBooks

\* A step that changes no row, and the counts of none, keeps the books.
LEMMA BooksStill ==
  ASSUME TypeOK, TypeOK', Books, retryShown' = retryShown,
         \A m \in Msgs : Same(m) /\ SameCounts(m),
         \A v \in Workers : pc'[v] = "marking" =>
           pc[v] = "marking" /\ msg'[v] = msg[v] /\ tally'[v] = tally[v]
  PROVE  Books'
<1>1. ASSUME NEW m \in Msgs  PROVE RowOK(m)'
  <2>1. RowType(m) /\ RowType(m)' /\ RowOK(m) /\ Same(m) /\ SameCounts(m)
    BY RowTypes, RowTypesNext DEF Books
  <2> QED  BY <2>1, RowSame
<1>2. ASSUME NEW v \in Workers  PROVE MarkingOK(v)'
  <2>1. CASE pc'[v] # "marking"
    BY <2>1 DEF MarkingOK
  <2>2. CASE pc'[v] = "marking"
    <3>1. /\ pc'[v] = pc[v] /\ msg'[v] = msg[v] /\ tally'[v] = tally[v]
          /\ msg[v] \in Msgs /\ tally[v] \in Nat /\ MarkingOK(v)
      BY <2>2 DEF TypeOK, Books, Busy, BusyPcs, TryPcs
    <3>2. RowType(msg[v]) /\ RowType(msg[v])' /\ Same(msg[v]) /\ SameCounts(msg[v])
      BY <3>1, RowTypes, RowTypesNext
    <3>3. Trying(msg[v])' = Trying(msg[v])
      BY <3>1, <3>2 DEF SameCounts, Trying
    <3>4. tries[msg[v]] + Trying(msg[v])' <= tries'[msg[v]] + Trying(msg[v])
      BY <3>1, <3>2, <3>3 DEF Same, RowType, CountsMean, Trying
    <3>5. attempts'[msg[v]] = attempts[msg[v]]
      BY <3>2 DEF Same
    <3> QED  BY <3>1, <3>2, <3>4, <3>5, MarkingSame
  <2> QED  BY <2>1, <2>2
<1> QED  BY <1>1, <1>2 DEF Books

\* A message goes from the channel to a worker, or an idle worker ends.
LEMMA BooksIdleWorker ==
  ASSUME TypeOK, TypeOK', Books, NEW w \in Workers, Receive(w) \/ DrainedExit(w)
  PROVE  Books'
<1> USE DEF table, chan, process, posts, history
<1>1. /\ pc[w] = "receive" /\ pc'[w] \in {"received", "exited"}
      /\ UNCHANGED <<batch, tally, retryShown, status, attempts, tries, delivered, unheard,
                     unrecorded, retries, overlaps>>
      /\ \A v \in Workers : v # w => pc'[v] = pc[v] /\ msg'[v] = msg[v]
  BY DEF Receive, DrainedExit, TypeOK
<1>2. \A m \in Msgs : Same(m)
  BY <1>1 DEF Same
<1>3. \A v \in Workers : pc'[v] = "marking" =>
        pc[v] = "marking" /\ msg'[v] = msg[v] /\ tally'[v] = tally[v]
  BY <1>1
<1>4. ASSUME NEW m \in Msgs  PROVE SameCounts(m)
  <2>1. /\ ch \in Seq(Msgs) /\ batch \in Seq(Msgs) /\ ch' \in Seq(Msgs)
        /\ pc \in [Workers -> Pcs] /\ msg \in [Workers -> Msgs \union {NoMsg}]
    BY DEF TypeOK
  <2>2. /\ WorkersAt({"sending"}, m)' + 0 = WorkersAt({"sending"}, m) + 0
        /\ WorkersAt({"delivered", "sent"}, m)' + 0 = WorkersAt({"delivered", "sent"}, m) + 0
        /\ WorkersAt({"errored", "marking"}, m)' + 0 = WorkersAt({"errored", "marking"}, m) + 0
    <3>1. \A S : pc[w] \notin S /\ pc'[w] \notin S =>
            /\ One(pc[w] \in S /\ msg[w] = m) = 0 /\ One(pc'[w] \in S /\ msg'[w] = m) = 0
      BY DEF One
    <3>2. \A S : WorkersAt(S, m)' + One(pc[w] \in S /\ msg[w] = m)
                   = WorkersAt(S, m) + One(pc'[w] \in S /\ msg'[w] = m)
      BY <1>1, WorkersAtMove
    <3>3. \A S : pc[w] \notin S /\ pc'[w] \notin S => WorkersAt(S, m)' + 0 = WorkersAt(S, m) + 0
      BY <3>1, <3>2
    <3> QED  BY <1>1, <3>3
  <2>3. Sending(m)' = Sending(m) /\ Taken(m)' = Taken(m) /\ Failing(m)' = Failing(m)
    BY <2>2, WorkersAtNat, WorkersAtNext DEF Sending, Taken, Failing
  <2>4. WorkersAt({"received"}, m)' = WorkersAt({"received"}, m)
                                        + One(pc'[w] = "received" /\ msg'[w] = m)
    <3>1. WorkersAt({"received"}, m)' + One(pc[w] \in {"received"} /\ msg[w] = m)
            = WorkersAt({"received"}, m) + One(pc'[w] \in {"received"} /\ msg'[w] = m)
      BY <1>1, WorkersAtMove
    <3> QED  BY <1>1, <3>1, WorkersAtNat, WorkersAtNext DEF One
  <2>5. Todo(m)' = Todo(m)
    <3>1. Places(batch, m)' = Places(batch, m) /\ Places(batch, m) \in Nat /\ Places(ch', m) \in Nat
      BY <1>1, <2>1, PlacesType
    <3>2. WorkersAt({"received"}, m) \in Nat
      BY WorkersAtType
    <3>3. CASE Receive(w)
      <4>1. /\ ch # <<>> /\ ch' = Tail(ch) /\ pc'[w] = "received" /\ msg'[w] = Head(ch)
        BY <2>1, <3>3 DEF Receive
      <4>2. Places(ch, m) = Places(ch', m) + One(Head(ch) = m)
        BY <2>1, <4>1, PlacesTail
      <4>3. WorkersAt({"received"}, m)' = WorkersAt({"received"}, m) + One(Head(ch) = m)
        BY <2>4, <4>1 DEF One
      <4>4. One(Head(ch) = m) \in Nat
        BY DEF One
      <4>5. Places(ch, m)' = Places(ch', m)
        OBVIOUS
      <4> QED  BY <3>1, <3>2, <4>2, <4>3, <4>4, <4>5 DEF Todo
    <3>4. CASE DrainedExit(w)
      <4>1. ch' = ch /\ pc'[w] = "exited"
        BY <2>1, <3>4 DEF DrainedExit
      <4>2. WorkersAt({"received"}, m)' = WorkersAt({"received"}, m)
        BY <2>4, <3>2, <4>1 DEF One
      <4>3. Places(ch, m)' = Places(ch, m)
        BY <4>1
      <4> QED  BY <3>1, <4>2, <4>3 DEF Todo
    <3> QED  BY <3>3, <3>4
  <2> QED  BY <2>3, <2>5 DEF SameCounts
<1> QED  BY <1>1, <1>2, <1>3, <1>4, BooksStill

\* Every step of a worker keeps the books.
LEMMA BooksWorker ==
  ASSUME TypeOK, TypeOK', Books, NEW w \in Workers, WorkerStep(w)
  PROVE  Books'
<1> USE DEF table, chan, process, posts, history
<1>1. CASE Receive(w) \/ DrainedExit(w)
  BY <1>1, BooksIdleWorker
<1>2. CASE DropAndExit(w) \/ BeginSend(w) \/ Deliver(w) \/ SendSucceeds(w) \/ SendFails(w)
  BY <1>2, BooksSending
<1>3. CASE MarkError(w)
  BY <1>3, BooksLost DEF MarkError
<1>4. CASE ReadAttempts(w)
  <2>1. CASE RowExists(w)
    BY <1>4, <2>1, BooksRead
  <2>2. CASE ~RowExists(w)
    BY <1>4, <2>2, BooksLost DEF ReadAttempts
  <2> QED  BY <2>1, <2>2
<1>5. CASE MarkSent(w)
  <2>1. CASE RowExists(w)
    <3>1. PICK x \in Msgs : x = msg[w]
      BY <1>5 DEF TypeOK, MarkSent, Busy, BusyPcs, TryPcs
    <3>2. /\ pc[w] = "sent" /\ Done(w)
          /\ status' = [status EXCEPT ![x] = "sent"]
          /\ attempts' = [attempts EXCEPT ![x] = @ + 1]
          /\ UNCHANGED <<ch, batch, retryShown, tries, delivered, unheard, unrecorded,
                         retries, overlaps>>
      BY <1>5, <2>1, <3>1 DEF MarkSent
    <3>3. /\ status'[x] = "sent" /\ attempts'[x] = attempts[x] + 1
          /\ \A m \in Msgs : m # x => status'[m] = status[m] /\ attempts'[m] = attempts[m]
      BY <3>2 DEF TypeOK, Counter
    <3> QED  BY <3>1, <3>2, <3>3, BooksStored
  <2>2. CASE ~RowExists(w)
    BY <1>5, <2>2, BooksLost DEF MarkSent
  <2> QED  BY <2>1, <2>2
<1>6. CASE WriteFailed(w)
  <2>1. CASE RowExists(w)
    <3>1. PICK x \in Msgs : x = msg[w]
      BY <1>6 DEF TypeOK, WriteFailed, Busy, BusyPcs, TryPcs
    <3>2. /\ pc[w] = "marking" /\ Done(w)
          /\ attempts' = [attempts EXCEPT ![x] = tally[w]]
          /\ \/ GivesUp(w) /\ status' = [status EXCEPT ![x] = "failed"]
             \/ ~GivesUp(w) /\ status' = [status EXCEPT ![x] = "queued"]
          /\ UNCHANGED <<ch, batch, retryShown, tries, delivered, unheard, unrecorded,
                         retries, overlaps>>
      BY <1>6, <2>1, <3>1 DEF WriteFailed
    <3>3. /\ attempts'[x] = tally[w]
          /\ \/ tally[w] >= MaxRetries /\ status'[x] = "failed"
             \/ ~(tally[w] >= MaxRetries) /\ status'[x] = "queued"
          /\ \A m \in Msgs : m # x => status'[m] = status[m] /\ attempts'[m] = attempts[m]
      BY <3>2 DEF TypeOK, Counter, GivesUp
    <3> QED  BY <3>1, <3>2, <3>3, BooksStored
  <2>2. CASE ~RowExists(w)
    BY <1>6, <2>2, BooksLost DEF WriteFailed
  <2> QED  BY <2>1, <2>2
<1> QED  BY <1>1, <1>2, <1>3, <1>4, <1>5, <1>6 DEF WorkerStep

\* A step that changes one row and leaves the process alone.
LEMMA BooksOneRow ==
  ASSUME TypeOK, TypeOK', Books, NEW x \in Msgs, RowOK(x)',
         UNCHANGED <<batch, ch, pc, msg, tally, retryShown, attempts, tries>>,
         \A m \in Msgs : m # x => Same(m)
  PROVE  Books'
<1>1. \A m : SameCounts(m)
  BY DEF SameCounts, Todo, Sending, Taken, Failing, Places, WorkersAt
<1>2. ASSUME NEW m \in Msgs, m # x  PROVE RowOK(m)'
  <2>1. RowType(m) /\ RowType(m)' /\ RowOK(m) /\ Same(m) /\ SameCounts(m)
    BY <1>1, <1>2, RowTypes, RowTypesNext DEF Books
  <2> QED  BY <2>1, RowSame
<1>3. ASSUME NEW v \in Workers  PROVE MarkingOK(v)'
  <2>1. MarkingOK(v)
    BY DEF Books
  <2>2. Trying(msg[v])' = Trying(msg[v])
    <3>1. SameCounts(msg[v]) /\ msg'[v] = msg[v]
      BY <1>1
    <3> QED  BY <3>1 DEF SameCounts, Trying
  <2>3. /\ pc'[v] = pc[v] /\ msg'[v] = msg[v] /\ tally'[v] = tally[v] /\ retryShown' = retryShown
        /\ attempts'[msg[v]] = attempts[msg[v]] /\ tries'[msg[v]] = tries[msg[v]]
    OBVIOUS
  <2> QED  BY <2>1, <2>2, <2>3 DEF MarkingOK
<1> QED  BY <1>2, <1>3 DEF Books

\* The admin and the clock keep the books. A Retry that meets the row in hand
\* makes it claimable beside its holder; that is what overlaps counts.
LEMMA BooksRowStep ==
  ASSUME TypeOK, TypeOK', Books, NEW x \in Msgs, RowStep(x)
  PROVE  Books'
<1> USE DEF table, chan, threads, process, posts, history
<1>1. AllNumbers /\ AllNumbers' /\ RowOK(x) /\ OwedMeaning(x) /\ OwedMeaning(x)'
  BY NumbersTotal, NumbersNext, OwedMeans, OwedMeansNext DEF Books
<1>2. /\ UNCHANGED <<batch, ch, pc, msg, tally, retryShown, attempts, tries, delivered,
                     unheard, unrecorded>>
      /\ status \in [Msgs -> Statuses] /\ retries \in [Msgs -> Nat] /\ overlaps \in [Msgs -> Nat]
  BY DEF RowStep, Enqueue, RetryMessage, DeleteMessage, BackoffElapses, TypeOK, Counter
<1>3. /\ Todo(x)' = Todo(x) /\ Sending(x)' = Sending(x) /\ Failing(x)' = Failing(x)
      /\ Trying(x)' = Trying(x) /\ Copies(x)' = Copies(x) /\ (Held(x)' <=> Held(x))
  BY <1>2 DEF Todo, Sending, Taken, Failing, Trying, Copies, Places, WorkersAt, Held, Busy
<1>4. /\ attempts'[x] = attempts[x] /\ tries'[x] = tries[x] /\ delivered'[x] = delivered[x]
      /\ unheard'[x] = unheard[x] /\ unrecorded'[x] = unrecorded[x]
      /\ (x \in retryShown' <=> x \in retryShown)
  BY <1>2
<1>5. ASSUME NEW r \in {0, 1}, NEW o \in {0, 1},
             retries'[x] = retries[x] + r, overlaps'[x] = overlaps[x] + o,
             \A m \in Msgs : m # x => Same(m),
             Owed(x)' <= Owed(x) + r,
             Copies(x) + One(Claimable(x))' <= 1 + overlaps[x] + o,
             r = 0 => status'[x] # "failed",
             r = 1 => x \in retryShown /\ status'[x] # "failed",
             o <= r,
             Held(x) => /\ status'[x] # "none"
                        /\ overlaps'[x] = 0 => status'[x] \in {"sending", "deleted"}
      PROVE  Books'
  <2>1. HoldersCounted(x)'
    BY <1>1, <1>3, <1>5 DEF HoldersCounted, AllNumbers
  <2>2. DeliveriesCounted(x)'
    BY <1>1, <1>3, <1>4, <1>5 DEF RowOK, DeliveriesCounted, AllNumbers, OwedMeaning
  <2>3. AttemptsCounted(x)'
    <3>1. AttemptsCounted(x)
      BY <1>1 DEF RowOK
    <3>2. tries[x] + Todo(x)' + Owed(x)' <= Limit + retries'[x] + unrecorded[x]
      BY <1>1, <1>3, <1>5, <3>1, LimitPositive DEF AttemptsCounted, AllNumbers, OwedMeaning
    <3>3. x \notin retryShown => Owed(x)' <= Owed(x)
      BY <1>1, <1>5 DEF OwedMeaning
    <3>4. x \notin retryShown => tries[x] + Todo(x)' + Owed(x)' <= attempts[x] + 1 + unrecorded[x]
      BY <1>1, <1>3, <3>1, <3>3 DEF AttemptsCounted, AllNumbers, OwedMeaning
    <3> QED  BY <1>3, <1>4, <3>1, <3>2, <3>4 DEF AttemptsCounted
  <2>4. ShownUsedUp(x)'
    BY <1>1, <1>4, <1>5 DEF RowOK, ShownUsedUp, AllNumbers
  <2>5. HeldRow(x)'
    BY <1>3, <1>5 DEF HeldRow
  <2>6. RowOK(x)'
    BY <2>1, <2>2, <2>3, <2>4, <2>5 DEF RowOK
  <2> QED  BY <1>2, <1>5, <2>6, BooksOneRow
<1>6. CASE Enqueue(x)
  <2>1. /\ status[x] = "none" /\ status'[x] = "queued" /\ UNCHANGED <<retries, overlaps>>
        /\ \A m \in Msgs : m # x => Same(m)
    BY <1>2, <1>6 DEF Enqueue, Same
  <2>2. ~Held(x)
    BY <1>1, <2>1 DEF RowOK, HeldRow
  <2>3. Owed(x)' = Owed(x) /\ One(Claimable(x))' = One(Claimable(x))
    BY <1>1, <2>1 DEF OwedMeaning, Claimable
  <2>4. Copies(x) + One(Claimable(x))' <= 1 + overlaps[x] + 0
    BY <1>1, <2>3 DEF RowOK, HoldersCounted, AllNumbers
  <2>5. retries'[x] = retries[x] + 0 /\ overlaps'[x] = overlaps[x] + 0 /\ Owed(x)' <= Owed(x) + 0
    BY <1>1, <2>1, <2>3 DEF AllNumbers, OwedMeaning
  <2> QED  BY <1>5, <2>1, <2>2, <2>4, <2>5
<1>7. CASE RetryMessage(x)
  <2>1. /\ x \in retryShown /\ status'[x] = "queued" /\ retries'[x] = retries[x] + 1
        /\ overlaps'[x] = IF Held(x) THEN overlaps[x] + 1 ELSE overlaps[x]
        /\ \A m \in Msgs : m # x => Same(m)
    BY <1>2, <1>7 DEF RetryMessage, Same
  <2>2. Owed(x)' = 1 /\ One(Claimable(x))' = 1
    BY <1>1, <2>1 DEF OwedMeaning, Claimable
  <2>3. Owed(x)' <= Owed(x) + 1
    BY <1>1, <2>2 DEF OwedMeaning
  <2>4. CASE Held(x)
    <3>1. overlaps'[x] = overlaps[x] + 1
      BY <2>1, <2>4
    <3>2. Copies(x) + One(Claimable(x))' <= 1 + overlaps[x] + 1
      BY <1>1, <2>2 DEF RowOK, HoldersCounted, AllNumbers, OwedMeaning
    <3>3. overlaps'[x] # 0
      BY <1>1, <3>1 DEF AllNumbers
    <3> QED  BY <1>5, <2>1, <2>3, <3>1, <3>2, <3>3
  <2>5. CASE ~Held(x)
    <3>1. overlaps'[x] = overlaps[x] + 0
      BY <1>1, <2>1, <2>5 DEF AllNumbers
    <3>2. Copies(x) = 0
      BY <1>1, <2>5 DEF AllNumbers
    <3>3. Copies(x) + One(Claimable(x))' <= 1 + overlaps[x] + 0
      BY <1>1, <2>2, <3>2 DEF AllNumbers
    <3> QED  BY <1>5, <2>1, <2>3, <2>5, <3>1, <3>3
  <2> QED  BY <2>4, <2>5
<1>8. CASE DeleteMessage(x)
  <2>1. /\ status'[x] = "deleted" /\ UNCHANGED <<retries, overlaps>>
        /\ \A m \in Msgs : m # x => Same(m)
    BY <1>2, <1>8 DEF DeleteMessage, Same
  <2>2. Owed(x)' = 0 /\ One(Claimable(x))' = 0
    BY <1>1, <2>1 DEF OwedMeaning, Claimable
  <2>3. Copies(x) + One(Claimable(x))' <= 1 + overlaps[x] + 0
    <3>1. Copies(x) <= 1 + overlaps[x]
      BY <1>1 DEF RowOK, HoldersCounted, AllNumbers, OwedMeaning
    <3> QED  BY <1>1, <2>2, <3>1 DEF AllNumbers
  <2>4. retries'[x] = retries[x] + 0 /\ overlaps'[x] = overlaps[x] + 0 /\ Owed(x)' <= Owed(x) + 0
    BY <1>1, <2>1, <2>2 DEF AllNumbers, OwedMeaning
  <2> QED  BY <1>5, <2>1, <2>3, <2>4
<1>9. CASE BackoffElapses(x)
  <2>1. /\ UNCHANGED <<status, retries, overlaps>>
    BY <1>9 DEF BackoffElapses
  <2>2. \A m \in Msgs : m # x => Same(m)
    BY <1>2, <2>1 DEF Same
  <2>3. RowOK(x)'
    <3>1. Same(x) /\ SameCounts(x) /\ RowType(x) /\ RowType(x)'
      BY <1>2, <2>1, RowTypes, RowTypesNext
      DEF Same, SameCounts, Todo, Sending, Taken, Failing, Places, WorkersAt
    <3> QED  BY <1>1, <3>1, RowSame
  <2> QED  BY <1>2, <2>2, <2>3, BooksOneRow
<1> QED  BY <1>6, <1>7, <1>8, <1>9 DEF RowStep

\* The queue page is rendered: a row that is shown from now on has used up its
\* attempts, and no worker is about to write less.
LEMMA BooksView ==
  ASSUME TypeOK, TypeOK', Books, ViewQueue
  PROVE  Books'
<1> USE DEF table, chan, threads, process, posts, history
<1>1. /\ UNCHANGED <<batch, ch, pc, msg, tally, status, attempts, tries, delivered,
                     unheard, unrecorded, retries, overlaps>>
      /\ retryShown' = retryShown \union {m \in Msgs : status[m] = "failed"}
  BY DEF ViewQueue
<1>2. \A m : SameCounts(m)
  BY <1>1 DEF SameCounts, Todo, Sending, Taken, Failing, Places, WorkersAt
<1>3. ASSUME NEW m \in Msgs  PROVE RowOK(m)'
  <2>1. RowOK(m) /\ AllNumbers /\ AllNumbers'
    BY NumbersTotal, NumbersNext DEF Books
  <2>2. /\ Copies(m)' = Copies(m) /\ Trying(m)' = Trying(m) /\ Todo(m)' = Todo(m)
        /\ Sending(m)' = Sending(m) /\ Failing(m)' = Failing(m) /\ (Held(m)' <=> Held(m))
    BY <1>2, <2>1 DEF SameCounts, Trying, AllNumbers
  <2>3. /\ (Claimable(m)' <=> Claimable(m)) /\ Owed(m)' = Owed(m)
        /\ One(Claimable(m))' = One(Claimable(m))
    BY <1>1, <2>2 DEF Claimable, Owed, One
  <2>4. HoldersCounted(m)' /\ DeliveriesCounted(m)' /\ AttemptsCounted(m)'
    BY <1>1, <2>1, <2>2, <2>3
    DEF RowOK, HoldersCounted, DeliveriesCounted, AttemptsCounted
  <2>5. ShownUsedUp(m)' /\ HeldRow(m)'
    BY <1>1, <2>1, <2>2 DEF RowOK, ShownUsedUp, HeldRow
  <2> QED  BY <2>4, <2>5 DEF RowOK
<1>4. ASSUME NEW v \in Workers  PROVE MarkingOK(v)'
  <2>1. CASE pc[v] # "marking"
    BY <1>1, <2>1 DEF MarkingOK
  <2>2. CASE pc[v] = "marking"
    <3>1. msg[v] \in Msgs /\ Busy(v) /\ MarkingOK(v)
      BY <2>2 DEF TypeOK, Books, Busy, BusyPcs, TryPcs
    <3>2. RowOK(msg[v]) /\ AllNumbers
      BY <3>1, NumbersTotal DEF Books
    <3>3. msg[v] \in retryShown' => msg[v] \in retryShown
      <4>1. Held(msg[v])
        BY <3>1 DEF Held
      <4>2. status[msg[v]] = "failed" => overlaps[msg[v]] # 0
        BY <3>2, <4>1 DEF RowOK, HeldRow
      <4>3. overlaps[msg[v]] # 0 => msg[v] \in retryShown
        BY <3>1, <3>2 DEF RowOK, ShownUsedUp, AllNumbers
      <4> QED  BY <1>1, <4>2, <4>3
    <3>4. Trying(msg[v])' = Trying(msg[v])
      <4>1. SameCounts(msg[v]) /\ msg'[v] = msg[v]
        BY <1>1, <1>2
      <4> QED  BY <4>1 DEF SameCounts, Trying
    <3>5. msg[v] \in retryShown => msg[v] \in retryShown'
      BY <1>1
    <3> QED  BY <1>1, <2>2, <3>1, <3>3, <3>4, <3>5 DEF MarkingOK
  <2> QED  BY <2>1, <2>2
<1> QED  BY <1>3, <1>4 DEF Books

\* MarkFailed's result stays right when the process only moves messages.
LEMMA MarkingKept ==
  ASSUME Books, UNCHANGED <<pc, msg, tally, retryShown, attempts, tries>>
  PROVE  \A v \in Workers : MarkingOK(v)'
<1> SUFFICES ASSUME NEW v \in Workers  PROVE MarkingOK(v)'
  OBVIOUS
<1>1. MarkingOK(v)
  BY DEF Books
<1>2. Trying(msg[v])' = Trying(msg[v])
  <2>1. \A m : Sending(m)' = Sending(m) /\ Taken(m)' = Taken(m) /\ Failing(m)' = Failing(m)
    BY DEF Sending, Taken, Failing, WorkersAt
  <2>2. msg'[v] = msg[v]
    OBVIOUS
  <2> QED  BY <2>1, <2>2 DEF Trying
<1>3. /\ pc'[v] = pc[v] /\ msg'[v] = msg[v] /\ tally'[v] = tally[v] /\ retryShown' = retryShown
      /\ attempts'[msg[v]] = attempts[msg[v]] /\ tries'[msg[v]] = tries[msg[v]]
  OBVIOUS
<1> QED  BY <1>1, <1>2, <1>3 DEF MarkingOK

\* The claim turns what a row owes into a holder.
LEMMA BooksClaim ==
  ASSUME TypeOK, TypeOK', Books, Claim
  PROVE  Books'
<1> USE DEF table, chan, threads, process, posts, history
<1>1. PICK q \in Batches :
        /\ batch' = q
        /\ status' = [m \in Msgs |-> IF m \in Range(q) THEN "sending" ELSE status[m]]
  BY DEF Claim
<1>2. /\ q \in Seq(Msgs) /\ IsInjective(q)
      /\ Range(q) \subseteq {m \in Msgs : status[m] = "queued"}
  BY BatchElements
<1>3. /\ batch = <<>>
      /\ UNCHANGED <<ch, pc, msg, tally, retryShown, attempts, tries, delivered,
                     unheard, unrecorded, retries, overlaps>>
  BY DEF Claim
<1>4. AllNumbers /\ AllNumbers'
  BY NumbersTotal, NumbersNext
<1>5. ASSUME NEW m
      PROVE  /\ Todo(m)' = Todo(m) + Places(q, m)
             /\ Sending(m)' = Sending(m) /\ Taken(m)' = Taken(m) /\ Failing(m)' = Failing(m)
  <2>1. /\ Places(ch, m)' = Places(ch, m)
        /\ WorkersAt({"received"}, m)' = WorkersAt({"received"}, m)
        /\ Sending(m)' = Sending(m) /\ Taken(m)' = Taken(m) /\ Failing(m)' = Failing(m)
    BY <1>3 DEF Sending, Taken, Failing, WorkersAt, Places
  <2>2. Places(batch, m)' = Places(q, m) /\ Places(batch, m) = 0
    BY <1>1, <1>3, PlacesEmpty
  <2>3. /\ Places(ch, m) \in Nat /\ WorkersAt({"received"}, m) \in Nat /\ Places(q, m) \in Nat
    BY <1>2, PlacesType, WorkersAtType DEF TypeOK
  <2> QED  BY <2>1, <2>2, <2>3 DEF Todo
<1>6. ASSUME NEW m \in Msgs  PROVE RowOK(m)'
  <2>1. RowOK(m) /\ Places(q, m) \in Nat /\ Places(q, m) <= 1
        /\ (Places(q, m) = 0 <=> m \notin Range(q))
    BY <1>2, PlacesType DEF Books
  <2>2. CASE m \notin Range(q)
    <3>1. Same(m)
      BY <1>1, <1>3, <2>2 DEF Same
    <3>2. SameCounts(m)
      BY <1>4, <1>5, <2>1, <2>2 DEF SameCounts, AllNumbers
    <3> QED  BY <2>1, <3>1, <3>2, RowSame, RowTypes, RowTypesNext
  <2>3. CASE m \in Range(q)
    <3>1. status[m] = "queued" /\ status'[m] = "sending"
      BY <1>1, <1>2, <2>3
    <3>2. Places(q, m) = 1
      BY <2>1, <2>3
    <3>3. /\ Todo(m)' = Todo(m) + 1 /\ Trying(m)' = Trying(m) /\ Copies(m)' = Copies(m) + 1
          /\ Sending(m)' = Sending(m) /\ Failing(m)' = Failing(m)
      BY <1>4, <1>5, <3>2 DEF AllNumbers
    <3>4. Owed(m) = 1 /\ One(Claimable(m)) = 1
      BY <3>1, OwedMeans DEF OwedMeaning, Claimable
    <3>5. Owed(m)' = 0 /\ One(Claimable(m))' = 0
      <4>1. ~Claimable(m)' /\ Copies(m)' # 0
        BY <1>4, <3>1, <3>3 DEF Claimable, AllNumbers
      <4> QED  BY <4>1, OwedMeansNext DEF OwedMeaning
    <3>6. HoldersCounted(m)'
      BY <1>3, <1>4, <2>1, <3>3, <3>4, <3>5 DEF RowOK, HoldersCounted, AllNumbers
    <3>7. DeliveriesCounted(m)'
      <4>1. Todo(m)' + Sending(m)' + Failing(m)' + Owed(m)' = Todo(m) + Sending(m) + Failing(m) + Owed(m)
        BY <1>4, <3>3, <3>4, <3>5 DEF AllNumbers
      <4>2. /\ delivered[m] + Todo(m) + Sending(m) + Failing(m) + Owed(m)
                 <= 1 + retries[m] + unheard[m] + unrecorded[m]
            /\ delivered'[m] = delivered[m] /\ retries'[m] = retries[m]
            /\ unheard'[m] = unheard[m] /\ unrecorded'[m] = unrecorded[m]
        BY <1>3, <2>1 DEF RowOK, DeliveriesCounted
      <4>3. /\ Todo(m) \in Nat /\ Sending(m) \in Nat /\ Failing(m) \in Nat /\ Owed(m) \in Nat
            /\ delivered[m] \in Nat /\ Todo(m)' \in Nat /\ Owed(m)' \in Nat
        BY <1>4, <3>4, <3>5 DEF AllNumbers
      <4> QED  BY <3>3, <4>1, <4>2, <4>3 DEF DeliveriesCounted
    <3>8. AttemptsCounted(m)'
      <4>1. Todo(m)' + Owed(m)' = Todo(m) + Owed(m)
        BY <1>4, <3>3, <3>4, <3>5 DEF AllNumbers
      <4>2. AttemptsCounted(m)
        BY <2>1 DEF RowOK
      <4>3. tries[m] + (Todo(m)' + Owed(m)') <= Limit + retries[m] + unrecorded[m]
        BY <1>4, <3>4, <4>1, <4>2 DEF AttemptsCounted, AllNumbers
      <4>4. m \notin retryShown =>
              tries[m] + (Todo(m)' + Owed(m)') <= attempts[m] + 1 + unrecorded[m]
        BY <1>4, <3>4, <4>1, <4>2 DEF AttemptsCounted, AllNumbers
      <4>5. tries[m] + Todo(m)' + Owed(m)' = tries[m] + (Todo(m)' + Owed(m)')
        BY <1>4, <3>5 DEF AllNumbers
      <4> QED  BY <1>3, <3>3, <4>2, <4>3, <4>4, <4>5 DEF AttemptsCounted
    <3>9. ShownUsedUp(m)' /\ HeldRow(m)'
      BY <1>3, <2>1, <3>1 DEF RowOK, ShownUsedUp, HeldRow
    <3> QED  BY <3>6, <3>7, <3>8, <3>9 DEF RowOK
  <2> QED  BY <2>2, <2>3
<1>7. \A v \in Workers : MarkingOK(v)'
  BY <1>3, MarkingKept
<1> QED  BY <1>6, <1>7 DEF Books

\* A push moves a copy from the batch to the channel.
LEMMA BooksPush ==
  ASSUME TypeOK, TypeOK', Books, Push
  PROVE  Books'
<1> USE DEF table, chan, threads, process, posts, history
<1>1. /\ batch # <<>> /\ ch' = Append(ch, Head(batch)) /\ batch' = Tail(batch)
      /\ UNCHANGED <<pc, msg, tally, retryShown, status, attempts, tries, delivered,
                     unheard, unrecorded, retries, overlaps>>
      /\ batch \in Seq(Msgs) /\ ch \in Seq(Msgs) /\ batch' \in Seq(Msgs) /\ ch' \in Seq(Msgs)
  BY DEF Push, TypeOK
<1>2. Head(batch) \in Msgs
  BY <1>1, HeadTailElements
<1>3. ASSUME NEW m \in Msgs  PROVE Same(m) /\ SameCounts(m)
  <2>1. /\ WorkersAt({"received"}, m)' = WorkersAt({"received"}, m)
        /\ Sending(m)' = Sending(m) /\ Taken(m)' = Taken(m) /\ Failing(m)' = Failing(m)
    BY <1>1 DEF Sending, Taken, Failing, WorkersAt
  <2>2. /\ Places(ch', m) = Places(ch, m) + One(Head(batch) = m)
        /\ Places(batch, m) = Places(batch', m) + One(Head(batch) = m)
    BY <1>1, <1>2, PlacesAppend, PlacesTail
  <2>3. /\ Places(ch, m) \in Nat /\ Places(batch', m) \in Nat
        /\ One(Head(batch) = m) \in Nat /\ WorkersAt({"received"}, m) \in Nat
    BY <1>1, PlacesType, WorkersAtType DEF One
  <2>4. Places(ch, m)' = Places(ch', m) /\ Places(batch, m)' = Places(batch', m)
    OBVIOUS
  <2>5. Todo(m)' = Todo(m)
    BY <2>1, <2>2, <2>3, <2>4 DEF Todo
  <2> QED  BY <1>1, <2>1, <2>5 DEF Same, SameCounts
<1> QED  BY <1>1, <1>3, BooksStill

\* The rest of a batch is abandoned: its rows owe what its copies stood for.
LEMMA BooksDispatcherExit ==
  ASSUME TypeOK, TypeOK', Books, DispatcherExit
  PROVE  Books'
<1> USE DEF table, chan, threads, process, posts, history
<1>1. /\ batch' = <<>>
      /\ UNCHANGED <<ch, pc, msg, tally, retryShown, status, attempts, tries, delivered,
                     unheard, unrecorded, retries, overlaps>>
  BY DEF DispatcherExit
<1>2. AllNumbers /\ AllNumbers'
  BY NumbersTotal, NumbersNext
<1>3. ASSUME NEW m \in Msgs  PROVE RowOK(m)'
  <2>1. /\ WorkersAt({"received"}, m)' = WorkersAt({"received"}, m)
        /\ Places(ch, m)' = Places(ch, m)
        /\ Sending(m)' = Sending(m) /\ Taken(m)' = Taken(m) /\ Failing(m)' = Failing(m)
    BY <1>1 DEF Sending, Taken, Failing, WorkersAt, Places
  <2>2. Places(batch, m)' = 0
    BY <1>1, PlacesEmpty
  <2>3. /\ Places(ch, m) \in Nat /\ Places(batch, m) \in Nat
        /\ WorkersAt({"received"}, m) \in Nat
    BY PlacesType, WorkersAtType DEF TypeOK
  <2>4. Todo(m)' <= Todo(m)
    BY <2>1, <2>2, <2>3 DEF Todo
  <2>5. RowOK(m)
    BY DEF Books
  <2>6. /\ Trying(m)' = Trying(m) /\ Copies(m)' <= Copies(m)
        /\ Copies(m) - Copies(m)' = Todo(m) - Todo(m)'
    BY <1>2, <2>1, <2>4 DEF AllNumbers
  <2>7. (Claimable(m)' <=> Claimable(m)) /\ status'[m] = status[m]
    BY <1>1 DEF Claimable
  <2>8. /\ One(Claimable(m))' = One(Claimable(m)) /\ One(Claimable(m)) \in Nat
        /\ Owed(m) \in Nat /\ Owed(m)' \in Nat
        /\ Todo(m)' + Owed(m)' <= Todo(m) + Owed(m)
    <3>1. /\ One(Claimable(m))' = One(Claimable(m)) /\ One(Claimable(m)) \in Nat
          /\ Owed(m) \in {0, 1} /\ Owed(m)' \in {0, 1}
      BY <2>7, OwedMeans, OwedMeansNext DEF OwedMeaning
    <3>2. CASE Owed(m)' <= Owed(m)
      BY <1>2, <2>4, <3>1, <3>2 DEF AllNumbers
    <3>3. CASE ~(Owed(m)' <= Owed(m))
      <4>1. Owed(m)' = 1 /\ Owed(m) = 0
        BY <3>1, <3>3
      <4>2. Copies(m)' = 0 /\ Copies(m) # 0
        BY <2>7, <4>1, OwedMeans, OwedMeansNext DEF OwedMeaning
      <4>3. /\ Todo(m) \in Nat /\ Todo(m)' \in Nat /\ Copies(m) \in Nat /\ Copies(m)' \in Nat
        BY <1>2 DEF AllNumbers
      <4> QED  BY <2>6, <3>1, <4>1, <4>2, <4>3
    <3> QED  BY <3>1, <3>2, <3>3
  <2>9. HoldersCounted(m)'
    <3>1. Copies(m) + One(Claimable(m)) <= 1 + overlaps[m] /\ overlaps'[m] = overlaps[m]
      BY <1>1, <2>5 DEF RowOK, HoldersCounted
    <3>2. Copies(m) \in Nat /\ Copies(m)' \in Nat /\ overlaps[m] \in Nat
      BY <1>2 DEF AllNumbers
    <3> QED  BY <2>6, <2>8, <3>1, <3>2 DEF HoldersCounted
  <2>10. DeliveriesCounted(m)'
    <3>1. /\ delivered[m] + Todo(m) + Sending(m) + Failing(m) + Owed(m)
               <= 1 + retries[m] + unheard[m] + unrecorded[m]
          /\ delivered'[m] = delivered[m] /\ retries'[m] = retries[m]
          /\ unheard'[m] = unheard[m] /\ unrecorded'[m] = unrecorded[m]
      BY <1>1, <2>5 DEF RowOK, DeliveriesCounted
    <3>2. /\ Todo(m) \in Nat /\ Sending(m) \in Nat /\ Failing(m) \in Nat
          /\ delivered[m] \in Nat /\ Todo(m)' \in Nat
          /\ retries[m] \in Nat /\ unheard[m] \in Nat /\ unrecorded[m] \in Nat
      BY <1>2 DEF AllNumbers
    <3> QED  BY <2>1, <2>8, <3>1, <3>2 DEF DeliveriesCounted
  <2>11. AttemptsCounted(m)'
    <3>1. AttemptsCounted(m)
      BY <2>5 DEF RowOK
    <3>2. tries[m] + Todo(m)' + Owed(m)' <= Limit + retries[m] + unrecorded[m]
      BY <1>2, <2>8, <3>1, LimitPositive DEF AttemptsCounted, AllNumbers
    <3>3. m \notin retryShown => tries[m] + Todo(m)' + Owed(m)' <= attempts[m] + 1 + unrecorded[m]
      BY <1>2, <2>8, <3>1 DEF AttemptsCounted, AllNumbers
    <3> QED  BY <1>1, <2>6, <3>1, <3>2, <3>3 DEF AttemptsCounted
  <2>12. ShownUsedUp(m)'
    BY <1>1, <2>5 DEF RowOK, ShownUsedUp
  <2>13. HeldRow(m)'
    <3>1. Held(m)' => Held(m)
      BY <1>2, <2>6 DEF AllNumbers
    <3> QED  BY <1>1, <2>5, <3>1 DEF RowOK, HeldRow
  <2> QED  BY <2>9, <2>10, <2>11, <2>12, <2>13 DEF RowOK
<1>4. \A v \in Workers : MarkingOK(v)'
  BY <1>1, MarkingKept
<1> QED  BY <1>3, <1>4 DEF Books

\* A state in which the process holds nothing: no row has a copy.
NothingHeld == ch = <<>> /\ batch = <<>> /\ \A w \in Workers : ~Busy(w)
NoCopies(m) ==
  /\ Todo(m) = 0 /\ Sending(m) = 0 /\ Taken(m) = 0 /\ Failing(m) = 0
  /\ Trying(m) = 0 /\ Copies(m) = 0 /\ ~Held(m)
LEMMA NothingCounted == TypeOK /\ NothingHeld => \A m \in Msgs : NoCopies(m)
<1> SUFFICES ASSUME TypeOK, NothingHeld, NEW m \in Msgs  PROVE NoCopies(m)
  OBVIOUS
<1>1. ~Held(m)
  BY EmptyElements DEF NothingHeld, Held
<1>2. AllNumbers
  BY NumbersTotal
<1>3. Copies(m) = 0
  BY <1>1, <1>2 DEF AllNumbers
<1>4. Todo(m) = 0 /\ Trying(m) = 0
  BY <1>2, <1>3 DEF AllNumbers
<1>5. Sending(m) = 0 /\ Taken(m) = 0 /\ Failing(m) = 0
  <2>1. /\ Sending(m) \in Nat /\ Taken(m) \in Nat /\ Failing(m) \in Nat
        /\ Sending(m) + Taken(m) + Failing(m) = 0
    BY <1>2, <1>4 DEF AllNumbers
  <2> QED  BY <2>1
<1> QED  BY <1>1, <1>3, <1>4, <1>5 DEF NoCopies
LEMMA NothingCountedNext == TypeOK' /\ NothingHeld' => (\A m \in Msgs : NoCopies(m))'
  BY NothingCounted, PTL

\* A row without copies keeps its books if what it owes was promised before.
LEMMA BooksEmpty ==
  ASSUME TypeOK, TypeOK', NEW m \in Msgs, RowOK(m), NoCopies(m)',
         attempts'[m] = attempts[m], tries'[m] = tries[m], delivered'[m] = delivered[m],
         unheard'[m] = unheard[m], retries'[m] = retries[m], overlaps'[m] = overlaps[m],
         retryShown' = retryShown, status'[m] = "failed" => status[m] = "failed",
         One(Claimable(m))' <= 1,
         NEW u \in {0, 1}, unrecorded'[m] = unrecorded[m] + u,
         Owed(m)' <= Todo(m) + Owed(m) + u
  PROVE  RowOK(m)'
<1>1. /\ Todo(m) \in Nat /\ Sending(m) \in Nat /\ Failing(m) \in Nat /\ Trying(m) \in Nat
      /\ attempts[m] \in Nat /\ tries[m] \in Nat /\ delivered[m] \in Nat /\ unheard[m] \in Nat
      /\ unrecorded[m] \in Nat /\ retries[m] \in Nat /\ overlaps[m] \in Nat
      /\ Owed(m) \in Nat /\ Owed(m)' \in Nat /\ One(Claimable(m))' \in Nat
  BY NumbersTotal, OwedMeans, OwedMeansNext DEF AllNumbers, OwedMeaning
<1>2. /\ Todo(m)' = 0 /\ Sending(m)' = 0 /\ Failing(m)' = 0 /\ Trying(m)' = 0 /\ Copies(m)' = 0
      /\ ~Held(m)'
  BY DEF NoCopies
<1>3. HoldersCounted(m)'
  BY <1>1, <1>2 DEF HoldersCounted
<1>4. DeliveriesCounted(m)'
  <2>1. delivered[m] + Todo(m) + Sending(m) + Failing(m) + Owed(m)
          <= 1 + retries[m] + unheard[m] + unrecorded[m]
    BY DEF RowOK, DeliveriesCounted
  <2>2. delivered[m] + Owed(m)' <= 1 + retries[m] + unheard[m] + (unrecorded[m] + u)
    BY <1>1, <2>1
  <2> QED  BY <1>1, <1>2, <2>2 DEF DeliveriesCounted
<1>5. AttemptsCounted(m)'
  <2>1. AttemptsCounted(m)
    BY DEF RowOK
  <2>2. tries[m] + Owed(m)' <= Limit + retries[m] + (unrecorded[m] + u)
    BY <1>1, <2>1, LimitPositive DEF AttemptsCounted
  <2>3. m \notin retryShown => tries[m] + Owed(m)' <= attempts[m] + 1 + (unrecorded[m] + u)
    BY <1>1, <2>1 DEF AttemptsCounted
  <2>4. attempts[m] + 0 <= tries[m]
    BY <1>1, <2>1 DEF AttemptsCounted
  <2> QED  BY <1>1, <1>2, <2>2, <2>3, <2>4 DEF AttemptsCounted
<1>6. ShownUsedUp(m)'
  BY DEF RowOK, ShownUsedUp
<1>7. HeldRow(m)'
  BY <1>2 DEF HeldRow
<1> QED  BY <1>3, <1>4, <1>5, <1>6, <1>7 DEF RowOK

\* The end of the process: what was on its way is owed again after the reset of
\* the next start, what was in an attempt has lost its outcome.
LEMMA BooksGone ==
  ASSUME TypeOK, TypeOK', Books, ProcessExit \/ Crash
  PROVE  Books'
<1> USE DEF table, chan, threads, process, posts, history
<1>1. /\ UNCHANGED <<status, attempts, tries, delivered, unheard, retries, overlaps, retryShown>>
      /\ ch' = <<>> /\ batch' = <<>> /\ \A w \in Workers : pc'[w] = "exited"
  BY DEF ProcessExit, Crash, Gone
<1>2. NothingHeld'
  BY <1>1 DEF NothingHeld, Busy, BusyPcs, TryPcs
<1>3. ASSUME NEW m \in Msgs  PROVE RowOK(m)'
  <2>1. NoCopies(m)' /\ RowOK(m) /\ OwedMeaning(m) /\ OwedMeaning(m)'
    BY <1>2, NothingCountedNext, OwedMeans, OwedMeansNext DEF Books
  <2>2. /\ Todo(m) \in Nat /\ Trying(m) \in Nat /\ Copies(m) = Todo(m) + Trying(m)
        /\ unrecorded[m] \in Nat
    BY NumbersTotal DEF AllNumbers
  <2>3. InTry(m) <=> Trying(m) > 0
    BY Counts DEF CountsMean
  <2>4. unrecorded'[m] = unrecorded[m] + One(InTry(m)) /\ One(InTry(m)) \in {0, 1}
    <3>1. CASE Crash
      BY <2>2, <3>1 DEF Crash, One
    <3>2. CASE ProcessExit
      <4>1. ~InTry(m) /\ unrecorded' = unrecorded
        BY <3>2 DEF ProcessExit, InTry, TryPcs
      <4> QED  BY <2>2, <4>1 DEF One
    <3> QED  BY <3>1, <3>2
  <2>5. (Claimable(m)' <=> Claimable(m)) /\ status'[m] = status[m]
    BY <1>1 DEF Claimable
  <2>6. Owed(m)' <= Todo(m) + Owed(m) + One(InTry(m))
    <3>1. CASE Owed(m)' = 0 \/ Owed(m) = 1
      BY <2>1, <2>2, <2>4, <3>1 DEF OwedMeaning
    <3>2. CASE Owed(m)' = 1 /\ Owed(m) = 0
      <4>1. Copies(m) # 0
        BY <2>1, <2>5, <3>2 DEF OwedMeaning
      <4>2. CASE Todo(m) # 0
        BY <2>2, <2>4, <3>2, <4>2
      <4>3. CASE Todo(m) = 0
        <5>1. InTry(m)
          BY <2>2, <2>3, <4>1, <4>3
        <5>2. One(InTry(m)) = 1
          BY <5>1 DEF One
        <5> QED  BY <2>2, <3>2, <5>2
      <4> QED  BY <4>2, <4>3
    <3> QED  BY <2>1, <3>1, <3>2 DEF OwedMeaning
  <2>7. One(Claimable(m))' <= 1
    BY <2>1 DEF OwedMeaning
  <2> QED  BY <1>1, <2>1, <2>4, <2>6, <2>7, BooksEmpty
<1>4. \A v \in Workers : MarkingOK(v)'
  BY <1>1 DEF MarkingOK
<1> QED  BY <1>3, <1>4 DEF Books

\* The reset makes claimable what it owes, and a reset that fails changes
\* nothing.
LEMMA BooksStart ==
  ASSUME TypeOK, TypeOK', IdleWhenDown, Books, Start
  PROVE  Books'
<1> USE DEF table, chan, threads, process, posts, history
<1>1. /\ UNCHANGED <<attempts, tries, delivered, unheard, unrecorded, retries, overlaps,
                     retryShown, ch, batch>>
      /\ \A w \in Workers : pc'[w] = "receive"
      /\ \/ status' = [m \in Msgs |-> IF status[m] = "sending" THEN "queued" ELSE status[m]]
         \/ status' = status
  BY DEF Start, ResetStuckMessages
<1>2. NothingHeld /\ NothingHeld'
  BY <1>1 DEF Start, IdleWhenDown, NothingHeld, Busy, BusyPcs, TryPcs
<1>3. ASSUME NEW m \in Msgs  PROVE RowOK(m)'
  <2>1. NoCopies(m) /\ NoCopies(m)' /\ RowOK(m) /\ OwedMeaning(m) /\ OwedMeaning(m)'
    BY <1>2, NothingCounted, NothingCountedNext, OwedMeans, OwedMeansNext DEF Books
  <2>2. \/ status'[m] = status[m]
        \/ status[m] = "sending" /\ status'[m] = "queued"
    BY <1>1
  <2>3. Owed(m)' = Owed(m)
    BY <2>1, <2>2 DEF OwedMeaning, NoCopies, Claimable
  <2>4. One(Claimable(m))' <= 1 /\ Owed(m)' <= Todo(m) + Owed(m) + 0
    BY <2>1, <2>3 DEF OwedMeaning, NoCopies
  <2>5. unrecorded'[m] = unrecorded[m] + 0
    BY <1>1 DEF TypeOK, Counter
  <2>6. status'[m] = "failed" => status[m] = "failed"
    BY <2>2
  <2> QED  BY <1>1, <2>1, <2>4, <2>5, <2>6, BooksEmpty
<1>4. \A v \in Workers : MarkingOK(v)'
  BY <1>1 DEF MarkingOK
<1> QED  BY <1>3, <1>4 DEF Books

\* A step that changes neither the rows nor who holds what.
LEMMA BooksUnmoved ==
  ASSUME TypeOK, TypeOK', Books,
         UNCHANGED <<batch, ch, pc, msg, tally, retryShown, status, attempts, tries,
                     delivered, unheard, unrecorded, retries, overlaps>>
  PROVE  Books'
<1>1. \A m \in Msgs : Same(m)
  BY DEF Same
<1>2. \A m \in Msgs : SameCounts(m)
  BY DEF SameCounts, Todo, Sending, Taken, Failing, Places, WorkersAt
<1> QED  BY <1>1, <1>2, BooksStill

\* Every step keeps the books.
LEMMA BooksStep == TypeOK /\ TypeOK' /\ IdleWhenDown /\ Books /\ [Next]_vars => Books'
<1> SUFFICES ASSUME TypeOK, TypeOK', IdleWhenDown, Books, [Next]_vars  PROVE Books'
  OBVIOUS
<1>1. ASSUME NEW m \in Msgs, RowStep(m)  PROVE Books'
  BY <1>1, BooksRowStep
<1>2. ASSUME NEW w \in Workers, WorkerStep(w)  PROVE Books'
  BY <1>2, BooksWorker
<1>3. CASE Shutdown \/ UNCHANGED vars
  BY <1>3, BooksUnmoved DEF Shutdown, vars, table, chan, threads, process, posts, history
<1>4. CASE ProcessStep
  BY <1>3, <1>4, BooksView, BooksClaim, BooksPush, BooksDispatcherExit, BooksGone, BooksStart
  DEF ProcessStep
<1> QED  BY <1>1, <1>2, <1>3, <1>4 DEF Next

-----------------------------------------------------------------------------
(* What the books show.                                                    *)

\* Every reachable state is well typed and keeps the books.
LEMMA BooksCorrect == Spec => [](TypeOK /\ IdleWhenDown /\ Books)
  BY BooksInit, BooksStep, TypeCorrect, PTL DEF Spec

\* A message is in one place at most, and one more for each Retry post that met
\* it in hand; without such a post its row stays "sending" as long as somebody
\* holds it: for any number of workers and whatever the admin does.
THEOREM SingleHolderCorrect == Spec => [](SingleHolder /\ HeldIsSending)
<1>1. TypeOK /\ Books => SingleHolder /\ HeldIsSending
  <2> SUFFICES ASSUME TypeOK, Books, NEW m \in Msgs
               PROVE  /\ Copies(m) <= 1 + overlaps[m]
                      /\ overlaps[m] = 0 /\ Held(m) => status[m] \in {"sending", "deleted"}
    BY DEF SingleHolder, HeldIsSending
  <2>1. RowOK(m) /\ AllNumbers /\ One(Claimable(m)) \in Nat
    BY NumbersTotal, OwedMeans DEF Books, OwedMeaning
  <2>2. Copies(m) <= 1 + overlaps[m]
    BY <2>1 DEF RowOK, HoldersCounted, AllNumbers
  <2> QED  BY <2>1, <2>2 DEF RowOK, HeldRow
<1> QED  BY <1>1, BooksCorrect, PTL

\* An accepted message is handed to a sender MaxRetries times at most (once
\* when MaxRetries is 0), plus once for each Retry of the admin and for each
\* attempt whose outcome could not be written: for any number of rows and
\* workers, whatever crashes or fails, and also when a Retry meets the row in
\* hand, so that two workers attempt it and overwrite each other's count.
THEOREM SendBudgetCorrect == Spec => []SendBudget
<1>1. TypeOK /\ Books => SendBudget
  <2> SUFFICES ASSUME TypeOK, Books, NEW m \in Msgs
               PROVE  tries[m] <= Limit + retries[m] + unrecorded[m]
    BY DEF SendBudget
  <2>1. AttemptsCounted(m) /\ AllNumbers /\ Owed(m) \in Nat
    BY NumbersTotal, OwedMeans DEF Books, RowOK, OwedMeaning
  <2>2. /\ tries[m] + Todo(m) + Owed(m) <= Limit + retries[m] + unrecorded[m]
        /\ tries[m] \in Nat /\ Todo(m) \in Nat /\ retries[m] \in Nat /\ unrecorded[m] \in Nat
    BY <2>1 DEF AttemptsCounted, AllNumbers
  <2> QED  BY <2>1, <2>2, LimitPositive
<1> QED  BY <1>1, BooksCorrect, PTL

\* A message is delivered once, and once more for each Retry of the admin, each
\* answer that was lost after the delivery and each outcome that could not be
\* written: a restart delivers nothing twice that an attempt has not lost, and
\* two holders of one message deliver it for two posts.
THEOREM DeliveriesExplainedCorrect == Spec => []DeliveriesExplained
<1>1. TypeOK /\ Books => DeliveriesExplained
  <2> SUFFICES ASSUME TypeOK, Books, NEW m \in Msgs
               PROVE  delivered[m] <= 1 + retries[m] + unheard[m] + unrecorded[m]
    BY DEF DeliveriesExplained
  <2>1. DeliveriesCounted(m) /\ AllNumbers /\ Owed(m) \in Nat
    BY NumbersTotal, OwedMeans DEF Books, RowOK, OwedMeaning
  <2>2. /\ delivered[m] + Todo(m) + Sending(m) + Failing(m) + Owed(m)
             <= 1 + retries[m] + unheard[m] + unrecorded[m]
        /\ Todo(m) \in Nat /\ Sending(m) \in Nat /\ Failing(m) \in Nat /\ delivered[m] \in Nat
        /\ retries[m] \in Nat /\ unheard[m] \in Nat /\ unrecorded[m] \in Nat
    BY <2>1 DEF DeliveriesCounted, AllNumbers
  <2> QED  BY <2>1, <2>2
<1> QED  BY <1>1, BooksCorrect, PTL

-----------------------------------------------------------------------------
(* No row is stuck.                                                        *)

\* While the process runs, only a failing UPDATE lets go of a "sending" row.
LEMMA StuckStep ==
  TypeOK /\ StuckOnlyAfterDbError /\ [Next]_vars => StuckOnlyAfterDbError'
<1> SUFFICES ASSUME TypeOK, StuckOnlyAfterDbError, [Next]_vars,
                    dbErrs' = 0, up', ~ctxDone',
                    NEW m \in Msgs, status'[m] = "sending"
             PROVE  Held(m)'
  BY DEF StuckOnlyAfterDbError
<1> USE DEF table, chan, threads, process, posts, history
<1>1. ASSUME UNCHANGED <<up, ctxDone, dbErrs>>, status[m] = "sending"
      PROVE  Held(m)
  BY <1>1 DEF StuckOnlyAfterDbError
<1>2. ASSUME NEW n \in Msgs, RowStep(n)  PROVE Held(m)'
  <2>1. UNCHANGED <<up, ctxDone, dbErrs, ch, batch, pc, msg>> /\ status[m] = "sending"
    BY <1>2 DEF RowStep, Enqueue, RetryMessage, DeleteMessage, BackoffElapses, TypeOK
  <2> QED  BY <1>1, <2>1 DEF Held, Busy
<1>3. ASSUME NEW w \in Workers, WorkerStep(w)  PROVE Held(m)'
  <2>1. ~MarkError(w)
    <3> SUFFICES ASSUME MarkError(w)  PROVE FALSE
      OBVIOUS
    <3>1. dbErrs' = dbErrs + 1 /\ dbErrs \in Nat
      BY DEF MarkError, TypeOK
    <3> QED  BY <3>1
  <2>2. /\ UNCHANGED <<up, ctxDone, dbErrs>>
        /\ status[m] = "sending"
    BY <1>3, <2>1 DEF WorkerStep, Receive, DrainedExit, DropAndExit, BeginSend, Deliver,
         SendSucceeds, SendFails, MarkSent, ReadAttempts, WriteFailed, TypeOK
  <2>3. Held(m)
    BY <1>1, <2>2
  <2>4. CASE Receive(w)
    <3>1. /\ ch \in Seq(Msgs) /\ ch # <<>> /\ ch' = Tail(ch) /\ batch' = batch
          /\ pc' = [pc EXCEPT ![w] = "received"] /\ pc[w] = "receive"
          /\ msg' = [msg EXCEPT ![w] = Head(ch)]
          /\ pc \in [Workers -> Pcs] /\ msg \in [Workers -> Msgs \union {NoMsg}]
      BY <2>4 DEF Receive, TypeOK
    <3>2. Range(ch) = {Head(ch)} \union Range(ch')
      BY <3>1, HeadTailElements
    <3>3. /\ Busy(w)' /\ msg'[w] = Head(ch) /\ ~Busy(w)
          /\ \A v \in Workers : v # w /\ Busy(v) => Busy(v)' /\ msg'[v] = msg[v]
      BY <3>1 DEF Busy, BusyPcs, TryPcs
    <3> QED  BY <2>3, <3>1, <3>2, <3>3 DEF Held
  <2>5. CASE ~Receive(w)
    <3>1. ch' = ch /\ batch' = batch
      BY <1>3, <2>5 DEF WorkerStep, DrainedExit, DropAndExit, BeginSend, Deliver,
         SendSucceeds, SendFails, MarkSent, ReadAttempts, WriteFailed, MarkError
    <3>2. \A v \in Workers : v # w => pc'[v] = pc[v] /\ msg'[v] = msg[v]
      BY <1>3 DEF WorkerStep, Receive, DrainedExit, DropAndExit, BeginSend, Deliver,
         SendSucceeds, SendFails, MarkSent, ReadAttempts, WriteFailed, MarkError, Done,
         TypeOK
    <3>3. Busy(w) /\ msg[w] = m => Busy(w)' /\ msg'[w] = m
      <4>1. ASSUME Busy(w), msg[w] = m  PROVE ~MarkSent(w) /\ ~WriteFailed(w)
        <5>1. RowExists(w)
          BY <2>2, <4>1 DEF RowExists
        <5> QED  BY <4>1, <5>1 DEF MarkSent, WriteFailed, GivesUp, TypeOK
      <4>2. ASSUME Busy(w), msg[w] = m, ReadAttempts(w)
            PROVE  pc'[w] = "marking" /\ msg' = msg
        <5>1. RowExists(w)
          BY <2>2, <4>2 DEF RowExists
        <5> QED  BY <4>2, <5>1 DEF ReadAttempts, TypeOK
      <4>3. ~DropAndExit(w)
        <5> SUFFICES ASSUME DropAndExit(w)  PROVE FALSE
          OBVIOUS
        <5>1. ctxDone /\ ctxDone' = ctxDone
          BY DEF DropAndExit
        <5> QED  BY <5>1
      <4> QED  BY <1>3, <2>1, <2>5, <4>1, <4>2, <4>3
               DEF WorkerStep, DrainedExit, BeginSend, Deliver, SendSucceeds, SendFails,
                   Busy, BusyPcs, TryPcs, TypeOK
    <3> QED  BY <2>3, <3>1, <3>2, <3>3 DEF Held, Busy
  <2> QED  BY <2>4, <2>5
<1>4. ASSUME ProcessStep  PROVE Held(m)'
  <2>1. CASE Claim
    <3>1. PICK q \in Batches :
            /\ batch' = q
            /\ status' = [n \in Msgs |-> IF n \in Range(q) THEN "sending" ELSE status[n]]
      BY <2>1 DEF Claim
    <3>2. UNCHANGED <<up, ctxDone, dbErrs, ch, pc, msg>> /\ batch = <<>>
      BY <2>1 DEF Claim
    <3>3. CASE m \in Range(q)
      BY <3>1, <3>3 DEF Held
    <3>4. CASE m \notin Range(q)
      <4>1. Held(m)
        BY <1>1, <3>1, <3>2, <3>4
      <4> QED  BY <3>2, <4>1, EmptyElements DEF Held, Busy
    <3> QED  BY <3>3, <3>4
  <2>2. CASE Push
    <3>1. /\ batch \in Seq(Msgs) /\ batch # <<>> /\ ch \in Seq(Msgs)
          /\ ch' = Append(ch, Head(batch)) /\ batch' = Tail(batch)
          /\ UNCHANGED <<up, ctxDone, dbErrs, status, pc, msg>>
      BY <2>2 DEF Push, TypeOK
    <3>2. /\ Head(batch) \in Msgs /\ Range(batch) = {Head(batch)} \union Range(batch')
          /\ Range(ch') = Range(ch) \union {Head(batch)}
      BY <3>1, HeadTailElements, AppendElements
    <3>3. Held(m)
      BY <1>1, <3>1
    <3> QED  BY <3>1, <3>2, <3>3 DEF Held, Busy
  <2>3. CASE ViewQueue
    BY <1>1, <2>3 DEF ViewQueue, Held, Busy
  <2>4. CASE Start
    BY <2>4 DEF Start, ResetStuckMessages, TypeOK
  <2>5. ASSUME DispatcherExit \/ Shutdown \/ ProcessExit \/ Crash  PROVE FALSE
    <3>1. CASE DispatcherExit
      <4>1. ctxDone /\ ctxDone' = ctxDone
        BY <3>1 DEF DispatcherExit
      <4> QED  BY <4>1
    <3>2. CASE Shutdown
      BY <3>2 DEF Shutdown
    <3>3. CASE ProcessExit \/ Crash
      <4>1. up' = FALSE
        BY <3>3 DEF ProcessExit, Crash, Gone
      <4> QED  BY <4>1
    <3> QED  BY <2>5, <3>1, <3>2, <3>3
  <2> QED  BY <1>4, <2>1, <2>2, <2>3, <2>4, <2>5 DEF ProcessStep
<1>5. CASE UNCHANGED vars
  BY <1>1, <1>5 DEF vars, Held, Busy
<1> QED  BY <1>2, <1>3, <1>4, <1>5 DEF Next

\* As long as no UPDATE has failed, every "sending" row of a running process
\* is held by somebody: neither a crash nor a shutdown loses a message.
THEOREM StuckCorrect == Spec => []StuckOnlyAfterDbError
<1>1. Init => StuckOnlyAfterDbError
  BY DEF Init, StuckOnlyAfterDbError
<1> QED  BY <1>1, StuckStep, TypeCorrect, PTL DEF Spec

-----------------------------------------------------------------------------
(* The refinement: each step of the queue is one step of the lifecycle, or *)
(* none.                                                                   *)

\* What the lifecycle sees of a row.
PhaseOf(s) ==
  CASE s \in {"queued", "sending"} -> "pending"
    [] s = "deleted" -> "removed"
    [] OTHER -> s

\* A worker that is about to call a message sent has seen it taken.
TakenFirst ==
  \A w \in Workers : pc[w] \in {"delivered", "sent"} => delivered[msg[w]] > 0

Inv == TypeOK /\ IdleWhenDown /\ Books /\ TakenFirst

\* The lifecycle's view of the table, row by row.
LEMMA PhaseIsPhaseOf == Phase = [m \in Msgs |-> PhaseOf(status[m])]
  BY DEF Phase, PhaseOf

\* The phase of each status.
LEMMA PhaseValues ==
  /\ PhaseOf("none") = "none" /\ PhaseOf("queued") = "pending"
  /\ PhaseOf("sending") = "pending" /\ PhaseOf("sent") = "sent"
  /\ PhaseOf("failed") = "failed" /\ PhaseOf("deleted") = "removed"
  BY DEF PhaseOf

\* An update of one row moves one message.
LEMMA OneMove ==
  ASSUME TypeOK, NEW m \in Msgs
  PROVE  /\ status' = [status EXCEPT ![m] = "queued"] => Phase' = [Phase EXCEPT ![m] = "pending"]
         /\ status' = [status EXCEPT ![m] = "sent"] => Phase' = [Phase EXCEPT ![m] = "sent"]
         /\ status' = [status EXCEPT ![m] = "failed"] => Phase' = [Phase EXCEPT ![m] = "failed"]
         /\ status' = [status EXCEPT ![m] = "deleted"] => Phase' = [Phase EXCEPT ![m] = "removed"]
<1>1. Phase' = [n \in Msgs |-> PhaseOf(status'[n])]
  BY PhaseIsPhaseOf DEF Phase, PhaseOf
<1> QED  BY <1>1, PhaseIsPhaseOf, PhaseValues DEF TypeOK

\* Rows that change between "queued" and "sending" move nothing.
LEMMA NoMove ==
  ASSUME TypeOK,
         \A m \in Msgs : \/ status'[m] = status[m]
                         \/ /\ status[m] \in {"queued", "sending"}
                            /\ status'[m] \in {"queued", "sending"}
  PROVE  Phase' = Phase
  BY DEF Phase

\* A message somebody holds is in flight, and is doubled if it is not pending
\* and not removed.
LEMMA HeldInFlight ==
  ASSUME Inv, NEW w \in Workers, Busy(w), NEW m, m = msg[w]
  PROVE  /\ m \in Msgs
         /\ Promise!InFlight(m)
         /\ RowExists(w) => Phase[m] \in Promise!Open(m)
         /\ RowExists(w) /\ m \notin retryShown => status[m] = "sending"
<1>1. m \in Msgs /\ Held(m)
  BY DEF Inv, TypeOK, Held
<1>2. RowOK(m) /\ overlaps[m] \in Nat /\ status[m] \in Statuses
  BY <1>1 DEF Inv, Books, TypeOK, Counter
<1>3. m \in Doubled <=> overlaps[m] > 0
  BY <1>1 DEF Doubled
<1>4. status[m] # "none" /\ (overlaps[m] = 0 => status[m] \in {"sending", "deleted"})
  BY <1>1, <1>2 DEF RowOK, HeldRow
<1>5. Phase[m] = PhaseOf(status[m])
  BY <1>1, PhaseIsPhaseOf
<1>6. Promise!InFlight(m)
  BY <1>2, <1>3, <1>4, <1>5, PhaseValues DEF Promise!InFlight
<1>7. RowExists(w) => Phase[m] \in Promise!Open(m)
  <2>1. CASE overlaps[m] = 0
    BY <1>4, <1>5, <2>1, PhaseValues DEF RowExists, Promise!Open
  <2>2. CASE overlaps[m] # 0
    <3>1. m \in Doubled
      BY <1>2, <1>3, <2>2
    <3>2. RowExists(w) => status[m] \in {"queued", "sending", "sent", "failed"}
      BY <1>2, <1>4 DEF RowExists, Statuses
    <3> QED  BY <1>5, <3>1, <3>2, PhaseValues DEF Promise!Open, Promise!Settled
  <2> QED  BY <2>1, <2>2
<1>8. RowExists(w) /\ m \notin retryShown => status[m] = "sending"
  BY <1>2, <1>4 DEF RowOK, ShownUsedUp, RowExists
<1> QED  BY <1>1, <1>6, <1>7, <1>8

\* A worker in an attempt has begun one, and MarkFailed counts no more than
\* there were.
LEMMA TriedBefore ==
  ASSUME Inv, NEW w \in Workers, pc[w] \in TryPcs, NEW m, m = msg[w]
  PROVE  /\ tries[m] \in Nat /\ tries[m] > 0
         /\ pc[w] = "marking" => tries[m] >= tally[w]
<1>1. m \in Msgs /\ InTry(m)
  BY DEF Inv, TypeOK, Busy, BusyPcs, InTry
<1>2. RowOK(m) /\ MarkingOK(w) /\ tally[w] \in Nat
  BY <1>1 DEF Inv, Books, TypeOK
<1>3. /\ Trying(m) > 0 /\ Trying(m) \in Nat /\ attempts[m] \in Nat /\ tries[m] \in Nat
  BY <1>1, Counts, NumbersTotal DEF CountsMean, AllNumbers, Inv
<1>4. attempts[m] + Trying(m) <= tries[m]
  BY <1>2 DEF RowOK, AttemptsCounted
<1>5. pc[w] = "marking" => tally[w] + Trying(m) <= tries[m] + 1
  BY <1>2 DEF MarkingOK
<1> QED  BY <1>2, <1>3, <1>4, <1>5

-----------------------------------------------------------------------------
(* The invariant.                                                          *)

\* What was delivered stays so.
LEMMA DeliveredGrows == TypeOK /\ [Next]_vars => \A m \in Msgs : delivered'[m] >= delivered[m]
<1> SUFFICES ASSUME TypeOK, [Next]_vars, NEW m \in Msgs  PROVE delivered'[m] >= delivered[m]
  OBVIOUS
<1> USE DEF table, chan, threads, process, posts, history
<1>1. delivered \in [Msgs -> Nat]
  BY DEF TypeOK, Counter
<1>2. ASSUME NEW w \in Workers, Deliver(w)  PROVE delivered'[m] >= delivered[m]
  <2>1. msg[w] \in Msgs /\ delivered' = [delivered EXCEPT ![msg[w]] = @ + 1]
    BY <1>2 DEF Deliver, TypeOK, Busy, BusyPcs, TryPcs
  <2> QED  BY <1>1, <2>1
<1>3. CASE delivered' = delivered
  BY <1>1, <1>3
<1> QED
  BY <1>2, <1>3
  DEF Next, RowStep, Enqueue, RetryMessage, DeleteMessage, BackoffElapses,
      WorkerStep, Receive, DrainedExit, DropAndExit, BeginSend, SendSucceeds, SendFails,
      MarkSent, ReadAttempts, WriteFailed, MarkError,
      ProcessStep, ViewQueue, Claim, Push, DispatcherExit, Shutdown, ProcessExit, Crash, Start, vars

\* A worker reaches its UPDATE to "sent" only after the provider took the message.
LEMMA TakenStep == TypeOK /\ TypeOK' /\ TakenFirst /\ [Next]_vars => TakenFirst'
<1> SUFFICES ASSUME TypeOK, TypeOK', TakenFirst, [Next]_vars,
                    NEW v \in Workers, pc'[v] \in {"delivered", "sent"}
             PROVE  delivered'[msg'[v]] > 0
  BY DEF TakenFirst
<1> USE DEF table, chan, threads, process, posts, history
<1>1. \A m \in Msgs : /\ delivered[m] \in Nat /\ delivered'[m] \in Nat
                      /\ delivered'[m] >= delivered[m]
  BY DeliveredGrows DEF TypeOK, Counter
<1>2. ASSUME pc[v] \in {"delivered", "sent"}, msg'[v] = msg[v]  PROVE delivered'[msg'[v]] > 0
  <2>1. msg[v] \in Msgs /\ delivered[msg[v]] > 0
    BY <1>2 DEF TypeOK, Busy, BusyPcs, TryPcs, TakenFirst
  <2> QED  BY <1>1, <1>2, <2>1
<1>3. ASSUME NEW m \in Msgs, RowStep(m)  PROVE delivered'[msg'[v]] > 0
  BY <1>2, <1>3 DEF RowStep, Enqueue, RetryMessage, DeleteMessage, BackoffElapses
<1>4. ASSUME NEW w \in Workers, WorkerStep(w)  PROVE delivered'[msg'[v]] > 0
  <2>1. CASE v = w /\ Deliver(w)
    <3>1. /\ msg[w] \in Msgs /\ delivered' = [delivered EXCEPT ![msg[w]] = @ + 1] /\ msg' = msg
          /\ delivered \in [Msgs -> Nat]
      BY <2>1 DEF Deliver, TypeOK, Busy, BusyPcs, TryPcs, Counter
    <3> QED  BY <2>1, <3>1
  <2>2. CASE v = w /\ ~Deliver(w)
    <3>1. pc[v] \in {"delivered", "sent"} /\ msg'[v] = msg[v]
      BY <1>4, <2>2
      DEF WorkerStep, Receive, DrainedExit, DropAndExit, BeginSend, SendSucceeds,
          SendFails, MarkSent, ReadAttempts, WriteFailed, MarkError, Done, TypeOK
    <3> QED  BY <1>2, <3>1
  <2>3. CASE v # w
    <3>1. pc'[v] = pc[v] /\ msg'[v] = msg[v]
      BY <1>4, <2>3
      DEF WorkerStep, Receive, DrainedExit, DropAndExit, BeginSend, Deliver, SendSucceeds,
          SendFails, MarkSent, ReadAttempts, WriteFailed, MarkError, Done, TypeOK
    <3> QED  BY <1>2, <3>1
  <2> QED  BY <2>1, <2>2, <2>3
<1>5. CASE ProcessStep
  BY <1>2, <1>5 DEF ProcessStep, ViewQueue, Claim, Push, DispatcherExit, Shutdown,
                    ProcessExit, Crash, Start, Gone
<1>6. CASE UNCHANGED vars
  BY <1>2, <1>6 DEF vars
<1> QED  BY <1>3, <1>4, <1>5, <1>6 DEF Next

\* The invariant holds in every reachable state.
LEMMA InvCorrect == Spec => []Inv
<1>1. Init => TakenFirst
  BY DEF Init, TakenFirst
<1>2. TypeOK /\ IdleWhenDown /\ Books /\ TakenFirst => Inv
  BY DEF Inv
<1> QED  BY <1>1, <1>2, TakenStep, BooksCorrect, PTL DEF Spec

-----------------------------------------------------------------------------
(* The steps.                                                              *)

\* A step that touches neither a message nor its history is none of the
\* lifecycle's.
LEMMA Unseen ==
  ASSUME TypeOK, UNCHANGED <<tries, delivered, retries, overlaps>>,
         \A m \in Msgs : \/ status'[m] = status[m]
                         \/ /\ status[m] \in {"queued", "sending"}
                            /\ status'[m] \in {"queued", "sending"}
  PROVE  UNCHANGED Promise!vars
<1>1. Phase' = Phase
  BY NoMove
<1>2. Reached' = Reached /\ Doubled' = Doubled
  BY DEF Reached, Doubled
<1> QED  BY <1>1, <1>2 DEF Promise!vars

\* What webhooks, admins and the clock do to a row is a step of the lifecycle.
LEMMA RowRefines ==
  ASSUME Inv, NEW m \in Msgs, RowStep(m)
  PROVE  [Promise!Next]_Promise!vars
<1> USE PhaseValues, PhaseIsPhaseOf
    DEF table, chan, threads, process, posts, history, Promise!Next, Promise!Move
<1>1. TypeOK /\ status \in [Msgs -> Statuses] /\ retries \in [Msgs -> Nat]
      /\ overlaps \in [Msgs -> Nat]
  BY DEF Inv, TypeOK, Counter
<1>2. UNCHANGED <<tries, delivered>> /\ Reached' = Reached
  BY DEF RowStep, Enqueue, RetryMessage, DeleteMessage, BackoffElapses, Reached
<1>3. CASE Enqueue(m)
  <2>1. Phase' = [Phase EXCEPT ![m] = "pending"]
    BY <1>1, <1>3, OneMove DEF Enqueue
  <2>2. Phase[m] = "none" /\ retries' = retries /\ Doubled' = Doubled
    BY <1>3 DEF Enqueue, Doubled
  <2> QED  BY <1>2, <2>1, <2>2 DEF Promise!Accept
<1>4. CASE RetryMessage(m)
  <2>1. Phase' = [Phase EXCEPT ![m] = "pending"] /\ retries' = [retries EXCEPT ![m] = @ + 1]
    BY <1>1, <1>4, OneMove DEF RetryMessage
  <2>2. Phase[m] \in {"pending", "sent", "failed"}
    BY <1>1, <1>4 DEF RetryMessage, Statuses
  <2>3. \/ Doubled' = Doubled
        \/ Phase[m] = "pending" /\ Doubled' = Doubled \union {m}
    <3>1. CASE ~Held(m)
      BY <1>4, <3>1 DEF RetryMessage, Doubled
    <3>2. CASE Held(m)
      <4>1. overlaps' = [overlaps EXCEPT ![m] = @ + 1]
        BY <1>4, <3>2 DEF RetryMessage
      <4>2. Doubled' = Doubled \union {m}
        BY <1>1, <4>1 DEF Doubled
      <4>3. CASE overlaps[m] > 0
        BY <4>2, <4>3 DEF Doubled
      <4>4. CASE overlaps[m] = 0
        <5>1. status[m] \in {"sending", "deleted"}
          BY <3>2, <4>4 DEF Inv, Books, RowOK, HeldRow
        <5>2. status[m] = "sending"
          BY <1>4, <5>1 DEF RetryMessage
        <5>3. Phase[m] = PhaseOf(status[m])
          OBVIOUS
        <5> QED  BY <4>2, <5>2, <5>3
      <4> QED  BY <1>1, <4>3, <4>4
    <3> QED  BY <3>1, <3>2
  <2> QED  BY <1>2, <2>1, <2>2, <2>3 DEF Promise!Resubmit, Promise!Settled
<1>5. CASE DeleteMessage(m)
  <2>1. /\ Phase' = [Phase EXCEPT ![m] = "removed"] /\ retries' = retries
        /\ Doubled' = Doubled
    BY <1>1, <1>5, OneMove DEF DeleteMessage, Doubled
  <2>2. status[m] \in {"queued", "sending", "sent", "failed"}
    BY <1>1, <1>5 DEF DeleteMessage, Statuses
  <2>3. Phase[m] \in {"pending", "sent", "failed"}
    BY <2>2
  <2> QED  BY <1>2, <2>1, <2>3 DEF Promise!Remove, Promise!Settled
<1>6. CASE BackoffElapses(m)
  <2>1. UNCHANGED <<status, tries, delivered, retries, overlaps>>
    BY <1>6 DEF BackoffElapses
  <2> QED  BY <1>1, <2>1, Unseen
<1> QED  BY <1>3, <1>4, <1>5, <1>6 DEF RowStep

\* The write of a result.
LEMMA MarkRefines ==
  ASSUME Inv, NEW w \in Workers, MarkSent(w) \/ WriteFailed(w)
  PROVE  [Promise!Next]_Promise!vars
<1> USE PhaseValues DEF posts, history
<1>1. /\ Busy(w) /\ pc[w] \in TryPcs /\ TypeOK
      /\ UNCHANGED <<tries, delivered, retries, overlaps, Reached, Doubled>>
  BY DEF MarkSent, WriteFailed, Busy, BusyPcs, TryPcs, Inv, Reached, Doubled
<1>2. PICK m : m = msg[w]
  OBVIOUS
<1>3. CASE ~RowExists(w)
  <2>1. status' = status
    BY <1>3 DEF MarkSent, WriteFailed
  <2> QED  BY <1>1, <2>1, Unseen
<1>4. CASE RowExists(w)
  <2>1. /\ m \in Msgs /\ Phase[m] \in Promise!Open(m)
        /\ m \notin retryShown => status[m] = "sending"
    BY <1>1, <1>2, <1>4, HeldInFlight
  <2>2. CASE MarkSent(w)
    <3>1. Phase' = [Phase EXCEPT ![m] = "sent"]
      BY <1>1, <1>2, <1>4, <2>1, <2>2, OneMove DEF MarkSent
    <3>2. Reached[m]
      BY <1>2, <2>1, <2>2 DEF MarkSent, Inv, TakenFirst, Reached
    <3>3. Promise!ConfirmSent(m)
      BY <1>1, <2>1, <3>1, <3>2 DEF Promise!ConfirmSent, Promise!Move
    <3> QED  BY <2>1, <3>3 DEF Promise!Next
  <2>3. CASE WriteFailed(w) /\ GivesUp(w)
         /\ status' = [status EXCEPT ![msg[w]] = "failed"]
    <3>1. Phase' = [Phase EXCEPT ![m] = "failed"]
      BY <1>1, <1>2, <2>1, <2>3, OneMove
    <3>2. tries[m] >= Limit
      <4>1. tries[m] \in Nat /\ tries[m] > 0 /\ tries[m] >= tally[w]
        BY <1>1, <1>2, <2>3, TriedBefore DEF WriteFailed
      <4>2. tally[w] >= MaxRetries /\ tally[w] \in Nat /\ MaxRetries \in Nat
        BY <1>1, <2>3, RetriesAssumption DEF GivesUp, TypeOK
      <4> QED  BY <4>1, <4>2 DEF Limit
    <3>3. Promise!GiveUp(m)
      BY <1>1, <2>1, <3>1, <3>2 DEF Promise!GiveUp, Promise!Move
    <3> QED  BY <2>1, <3>3 DEF Promise!Next
  <2>4. CASE WriteFailed(w) /\ ~GivesUp(w)
         /\ status' = [status EXCEPT ![msg[w]] = "queued"]
    <3>1. m \notin retryShown
      <4>1. MarkingOK(w) /\ pc[w] = "marking" /\ tally[w] \in Nat
        BY <1>1, <2>4 DEF WriteFailed, Inv, Books, TypeOK
      <4> QED  BY <1>2, <2>4, <4>1, LimitPositive DEF MarkingOK, GivesUp
    <3>2. \A n \in Msgs : \/ status'[n] = status[n]
                          \/ /\ status[n] \in {"queued", "sending"}
                             /\ status'[n] \in {"queued", "sending"}
      BY <1>1, <1>2, <2>1, <2>4, <3>1 DEF TypeOK
    <3> QED  BY <1>1, <3>2, Unseen
  <2> QED  BY <1>4, <2>2, <2>3, <2>4 DEF WriteFailed
<1> QED  BY <1>3, <1>4

\* What a worker does is one: an attempt, its outcome, or nothing that the sender sees.
LEMMA WorkerRefines ==
  ASSUME Inv, NEW w \in Workers, WorkerStep(w)
  PROVE  [Promise!Next]_Promise!vars
<1> USE DEF table, chan, threads, process, posts, history
<1>1. TypeOK /\ tries \in [Msgs -> Nat] /\ delivered \in [Msgs -> Nat]
  BY DEF Inv, TypeOK, Counter
<1>2. PICK m : m = msg[w]
  OBVIOUS
<1>3. CASE BeginSend(w)
  <2>1. m \in Msgs /\ Promise!InFlight(m)
    BY <1>2, <1>3, HeldInFlight DEF BeginSend, Busy, BusyPcs
  <2>2. Phase' = Phase /\ Reached' = Reached /\ Doubled' = Doubled /\ retries' = retries
    BY <1>1, <1>3, NoMove DEF BeginSend, Reached, Doubled
  <2>3. Promise!Try(m)
    BY <1>2, <1>3, <2>1, <2>2 DEF BeginSend, Promise!Try
  <2> QED  BY <2>1, <2>3 DEF Promise!Next
<1>4. CASE Deliver(w)
  <2>1. m \in Msgs /\ Promise!InFlight(m)
    BY <1>2, <1>4, HeldInFlight DEF Deliver, Busy, BusyPcs, TryPcs
  <2>2. /\ Phase' = Phase /\ Doubled' = Doubled /\ UNCHANGED <<tries, retries>>
        /\ delivered' = [delivered EXCEPT ![m] = @ + 1]
    BY <1>1, <1>2, <1>4, NoMove DEF Deliver, Doubled
  <2>3. Reached' = [Reached EXCEPT ![m] = TRUE]
    <3>1. /\ delivered'[m] > 0
          /\ \A n \in Msgs : n # m => delivered'[n] = delivered[n]
      BY <1>1, <2>1, <2>2
    <3>2. \A n \in Msgs : (delivered'[n] > 0) = IF n = m THEN TRUE ELSE delivered[n] > 0
      BY <3>1
    <3> QED  BY <3>2 DEF Reached
  <2>4. tries[m] > 0
    BY <1>2, <1>4, TriedBefore DEF Deliver, TryPcs
  <2>5. Promise!HandOver(m)
    BY <2>1, <2>2, <2>3, <2>4 DEF Promise!HandOver
  <2> QED  BY <2>1, <2>5 DEF Promise!Next
<1>5. CASE MarkSent(w) \/ WriteFailed(w)
  BY <1>5, MarkRefines
<1>6. CASE UNCHANGED <<status, tries, delivered, retries, overlaps>>
  BY <1>1, <1>6, Unseen
<1> QED
  BY <1>3, <1>4, <1>5, <1>6
  DEF WorkerStep, Receive, DrainedExit, DropAndExit, SendSucceeds, SendFails,
      ReadAttempts, MarkError

\* What the process does to itself, the sender never sees.
LEMMA ProcessRefines ==
  ASSUME Inv, ProcessStep
  PROVE  UNCHANGED Promise!vars
<1> USE DEF table, chan, threads, process, posts, history
<1>1. UNCHANGED <<tries, delivered, retries, overlaps>>
  BY DEF ProcessStep, ViewQueue, Claim, Push, DispatcherExit, Shutdown, ProcessExit,
         Crash, Start
<1>2. \A m \in Msgs : \/ status'[m] = status[m]
                      \/ /\ status[m] \in {"queued", "sending"}
                         /\ status'[m] \in {"queued", "sending"}
  <2>1. CASE Claim
    <3>1. PICK q \in Batches :
            status' = [m \in Msgs |-> IF m \in Range(q) THEN "sending" ELSE status[m]]
      BY <2>1 DEF Claim
    <3> QED  BY <3>1, BatchElements
  <2>2. CASE Start
    BY <2>2 DEF Start, ResetStuckMessages
  <2>3. CASE status' = status
    BY <2>3
  <2> QED
    BY <2>1, <2>2, <2>3
    DEF ProcessStep, ViewQueue, Push, DispatcherExit, Shutdown, ProcessExit, Crash
<1> QED  BY <1>1, <1>2, Unseen DEF Inv

\* Every step of the queue is one of the lifecycle, or none.
LEMMA StepRefines == Inv /\ [Next]_vars => [Promise!Next]_Promise!vars
<1> SUFFICES ASSUME Inv, [Next]_vars  PROVE [Promise!Next]_Promise!vars
  OBVIOUS
<1>1. CASE UNCHANGED vars
  <2>1. UNCHANGED <<status, tries, delivered, retries, overlaps>> /\ TypeOK
    BY <1>1 DEF vars, table, posts, history, Inv
  <2> QED  BY <2>1, Unseen
<1> QED  BY <1>1, RowRefines, WorkerRefines, ProcessRefines DEF Next

\* The empty table is the lifecycle's.
LEMMA InitRefines == Init => Promise!Init
<1> SUFFICES ASSUME Init  PROVE Promise!Init
  OBVIOUS
<1>1. Phase = [m \in Msgs |-> "none"]
  BY PhaseIsPhaseOf, PhaseValues DEF Init
<1>2. Reached = [m \in Msgs |-> FALSE] /\ Doubled = {}
  <2>1. \A m \in Msgs : delivered[m] = 0 /\ overlaps[m] = 0
    BY DEF Init
  <2>2. \A m \in Msgs : (delivered[m] > 0) = FALSE /\ ~(overlaps[m] > 0)
    BY <2>1
  <2> QED  BY <2>2 DEF Reached, Doubled
<1> QED  BY <1>1, <1>2 DEF Init, Promise!Init

-----------------------------------------------------------------------------
\* Every behaviour of the queue, with its workers, crashes, restarts, failing
\* UPDATEs and with Retry posts in any status, is one of the lifecycle.
THEOREM RefinementCorrect == Spec => ImplementsLifecycle
  BY InvCorrect, InitRefines, StepRefines, PTL DEF Spec, ImplementsLifecycle, Promise!Spec

\* What a status of the table says is true: sent is taken, failed was tried often
\* enough.
Honest ==
  \A m \in Msgs : /\ status[m] = "sent" => Reached[m]
                  /\ status[m] = "failed" => tries[m] >= Limit

\* It follows from the lifecycle alone: what was taken stays taken, attempts are
\* never taken back, and only ConfirmSent and GiveUp settle a message.
LEMMA HonestStep == Inv /\ Honest /\ [Promise!Next]_Promise!vars => Honest'
<1> SUFFICES ASSUME Inv, Honest, [Promise!Next]_Promise!vars, NEW n \in Msgs
             PROVE  /\ status'[n] = "sent" => Reached'[n]
                    /\ status'[n] = "failed" => tries'[n] >= Limit
  BY DEF Honest
<1>1. /\ tries \in [Msgs -> Nat] /\ Reached \in [Msgs -> BOOLEAN] /\ Limit \in Nat
      /\ (Phase[n] = "sent" <=> status[n] = "sent")
      /\ (Phase[n] = "failed" <=> status[n] = "failed")
      /\ (Phase'[n] = "sent" <=> status'[n] = "sent")
      /\ (Phase'[n] = "failed" <=> status'[n] = "failed")
      /\ Phase = [m \in Msgs |-> PhaseOf(status[m])]
  <2>1. Phase = [m \in Msgs |-> PhaseOf(status[m])] /\ Phase' = [m \in Msgs |-> PhaseOf(status'[m])]
    BY DEF Phase, PhaseOf
  <2>2. \A s : (PhaseOf(s) = "sent" <=> s = "sent") /\ (PhaseOf(s) = "failed" <=> s = "failed")
    BY DEF PhaseOf
  <2>3. tries \in [Msgs -> Nat] /\ Reached \in [Msgs -> BOOLEAN] /\ Limit \in Nat
    BY LimitPositive DEF Inv, TypeOK, Counter, Reached
  <2> QED BY <2>1, <2>2, <2>3
<1>2. /\ Phase[n] = "sent" => Reached[n]
      /\ Phase[n] = "failed" => tries[n] >= Limit
  BY <1>1 DEF Honest
<1> DEFINE Good == /\ Phase'[n] = "sent" => Reached'[n]
                   /\ Phase'[n] = "failed" => tries'[n] >= Limit
<1>3. CASE UNCHANGED Promise!vars
  BY <1>1, <1>2, <1>3 DEF Promise!vars
<1>4. ASSUME NEW m \in Msgs, Promise!Try(m) \/ Promise!HandOver(m)  PROVE Good
  BY <1>1, <1>2, <1>4 DEF Promise!Try, Promise!HandOver
<1>5. ASSUME NEW m \in Msgs, Promise!ConfirmSent(m) \/ Promise!GiveUp(m)  PROVE Good
  BY <1>1, <1>2, <1>5 DEF Promise!ConfirmSent, Promise!GiveUp, Promise!Move
<1>6. ASSUME NEW m \in Msgs, Promise!Accept(m) \/ Promise!Resubmit(m) \/ Promise!Remove(m)
      PROVE  Good
  BY <1>1, <1>2, <1>6 DEF Promise!Accept, Promise!Resubmit, Promise!Remove, Promise!Move
<1> QED  BY <1>1, <1>3, <1>4, <1>5, <1>6 DEF Promise!Next

\* A message that the table calls sent was taken by the remote side, and one that it
\* calls failed was tried as often as max_retries says, whatever crashed or failed in
\* between and whatever the admin did.
THEOREM StatusHonest == Spec => []Honest
<1>1. Init => Honest
  BY DEF Init, Honest
<1> QED  BY <1>1, InvCorrect, StepRefines, HonestStep, PTL DEF Spec

-----------------------------------------------------------------------------
(* The order of the first attempts. No message overtakes an older one that *)
(* was never tried, but for one that another worker has in hand: which one *)
(* of the workers calls its sender first is the scheduler's choice.        *)

\* A row in the table that no sender has been called for.
Waits(n) == tries[n] = 0 /\ status[n] \notin {"none", "deleted"}

InHand(n) == \E v \in Workers : Busy(v) /\ msg[v] = n

Before(s, n, m) == \E i, j \in 1..Len(s) : i < j /\ s[i] = n /\ s[j] = m

\* n is further on than m on the way from the batch to the workers.
Ahead(n, m) ==
  \/ InHand(n)
  \/ Before(ch, n, m) \/ Before(batch, n, m)
  \/ n \in Range(ch) /\ m \in Range(batch)

\* What has not been tried has no history: it has not failed, it waits for no
\* time, no page shows a Retry button for it. And ids are in the order of time.
Fresh ==
  \A m \in Msgs :
    /\ tries[m] = 0 => /\ status[m] \notin {"sent", "failed"}
                       /\ ~waiting[m] /\ m \notin retryShown
    /\ created[m] <= clock

\* Whatever is older than a held message is ahead of it. Once ctx is done the
\* workers drop what they receive, and begin nothing.
Ordered ==
  up /\ ~ctxDone =>
    \A m, n \in Msgs :
      tries[m] = 0 /\ Held(m) /\ Waits(n) /\ created[n] < created[m] => Ahead(n, m)

\* A reset that fails at a start leaves rows behind that nobody has in hand.
OrderInv == Inv /\ StuckOnlyAfterDbError /\ Fresh /\ (dbErrs = 0 => Ordered)

\* What the batch and the channel do to the order of their elements.
LEMMA BeforeInRange ==
  ASSUME NEW s \in Seq(Msgs), NEW n, NEW m, Before(s, n, m)
  PROVE  n \in Range(s) /\ m \in Range(s)
  BY DEF Before, Range

\* Taking the head off keeps the order of the rest.
LEMMA BeforeTail ==
  ASSUME NEW s \in Seq(Msgs), s # <<>>, NEW n, NEW m, n # Head(s), Before(s, n, m)
  PROVE  Before(Tail(s), n, m)
<1> DEFINE t == Tail(s)
<1>1. /\ Len(s) \in Nat /\ Len(t) = Len(s) - 1 /\ Head(s) = s[1]
      /\ \A i \in 1..Len(s) - 1 : t[i] = s[i + 1]
  OBVIOUS
<1> HIDE DEF t
<1>2. PICK i, j \in 1..Len(s) : i < j /\ s[i] = n /\ s[j] = m
  BY DEF Before
<1>3. i - 1 \in 1..Len(t) /\ j - 1 \in 1..Len(t) /\ (i - 1) + 1 = i /\ (j - 1) + 1 = j
  BY <1>1, <1>2
<1>4. t[i - 1] = n /\ t[j - 1] = m /\ i - 1 < j - 1
  BY <1>1, <1>2, <1>3
<1> QED  BY <1>3, <1>4 DEF Before, t

\* What is appended comes after everything.
LEMMA BeforeAppend ==
  ASSUME NEW s \in Seq(Msgs), NEW e \in Msgs, NEW n, NEW m
  PROVE  /\ Before(s, n, m) => Before(Append(s, e), n, m)
         /\ n \in Range(s) => Before(Append(s, e), n, e)
<1> DEFINE t == Append(s, e)
<1>1. /\ Len(s) \in Nat /\ Len(t) = Len(s) + 1 /\ t[Len(s) + 1] = e
      /\ DOMAIN s = 1..Len(s)
      /\ \A i \in 1..Len(s) : t[i] = s[i]
  OBVIOUS
<1> HIDE DEF t
<1>2. ASSUME Before(s, n, m)  PROVE Before(t, n, m)
  <2>1. PICK i, j \in 1..Len(s) : i < j /\ s[i] = n /\ s[j] = m
    BY <1>2 DEF Before
  <2>2. i \in 1..Len(t) /\ j \in 1..Len(t) /\ t[i] = n /\ t[j] = m
    BY <1>1, <2>1
  <2> QED  BY <2>1, <2>2 DEF Before
<1>3. ASSUME n \in Range(s)  PROVE Before(t, n, e)
  <2>1. PICK i \in 1..Len(s) : s[i] = n
    BY <1>1, <1>3 DEF Range
  <2>2. i \in 1..Len(t) /\ Len(s) + 1 \in 1..Len(t) /\ i < Len(s) + 1 /\ t[i] = n
    BY <1>1, <2>1
  <2> QED  BY <1>1, <2>2 DEF Before
<1> QED  BY <1>2, <1>3 DEF t

\* A step that takes nothing untried away from the workers, leaves channel and
\* batch alone, and has no new row among the older ones.
LEMMA OrderedUnmoved ==
  ASSUME TypeOK, Ordered,
         up' /\ ~ctxDone' => up /\ ~ctxDone,
         UNCHANGED <<ch, batch>>,
         \A m \in Msgs : tries'[m] = 0 => tries[m] = 0,
         \A m \in Msgs : tries'[m] = 0 => (InHand(m)' <=> InHand(m)),
         \A m, n \in Msgs :
           Held(m) /\ Waits(n)' /\ created'[n] < created'[m] => Waits(n) /\ created[n] < created[m]
  PROVE  Ordered'
<1> SUFFICES ASSUME up', ~ctxDone', NEW m \in Msgs, NEW n \in Msgs,
                    tries'[m] = 0, Held(m)', Waits(n)', created'[n] < created'[m]
             PROVE  Ahead(n, m)'
  BY DEF Ordered
<1>1. Held(m)
  BY DEF Held, InHand
<1>2. Ahead(n, m)
  BY <1>1 DEF Ordered
<1>3. InHand(n)' <=> InHand(n)
  BY DEF Waits
<1> QED  BY <1>2, <1>3 DEF Ahead, Before

\* A receive puts the head of the channel in the worker's hand; whatever is
\* older was in somebody's hand already.
LEMMA OrderedReceive ==
  ASSUME TypeOK, Ordered, NEW w \in Workers, Receive(w)
  PROVE  Ordered'
<1> USE DEF table, process, posts, history
<1>1. /\ ch \in Seq(Msgs) /\ ch # <<>> /\ batch \in Seq(Msgs)
      /\ ch' = Tail(ch) /\ batch' = batch
      /\ msg'[w] = Head(ch) /\ pc[w] = "receive" /\ Busy(w)'
      /\ \A v \in Workers : v # w => (Busy(v)' <=> Busy(v)) /\ msg'[v] = msg[v]
  BY DEF Receive, TypeOK, Busy, BusyPcs, TryPcs
<1>2. Range(ch) = {Head(ch)} \union Range(ch') /\ Head(ch) \in Msgs
  BY <1>1, HeadTailElements
<1>3. \A m \in Msgs : (InHand(m)' <=> InHand(m) \/ m = Head(ch)) /\ (Held(m)' => Held(m))
  <2>1. ~Busy(w)
    BY <1>1 DEF Busy, BusyPcs, TryPcs
  <2>2. \A m \in Msgs : InHand(m)' <=> InHand(m) \/ m = Head(ch)
    BY <1>1, <2>1 DEF InHand
  <2> QED  BY <1>1, <1>2, <2>2 DEF Held, InHand
<1> SUFFICES ASSUME up', ~ctxDone', NEW m \in Msgs, NEW n \in Msgs,
                    tries'[m] = 0, Held(m)', Waits(n)', created'[n] < created'[m]
             PROVE  Ahead(n, m)'
  BY DEF Ordered
<1>4. Ahead(n, m)
  BY <1>3 DEF Receive, Ordered, Waits
<1>5. CASE n = Head(ch) \/ InHand(n)
  BY <1>3, <1>5 DEF Ahead
<1>6. CASE n # Head(ch) /\ Before(ch, n, m)
  BY <1>1, <1>6, BeforeTail DEF Ahead
<1>7. CASE Before(batch, n, m)
  BY <1>1, <1>7 DEF Ahead
<1>8. CASE n # Head(ch) /\ n \in Range(ch) /\ m \in Range(batch)
  BY <1>1, <1>2, <1>8 DEF Ahead
<1> QED  BY <1>4, <1>5, <1>6, <1>7, <1>8 DEF Ahead

\* A push moves the head of the batch behind all that is in the channel.
LEMMA OrderedPush ==
  ASSUME TypeOK, Ordered, Push
  PROVE  Ordered'
<1> USE DEF table, process, posts, history, threads
<1>1. /\ ch \in Seq(Msgs) /\ batch # <<>> /\ batch \in Seq(Msgs)
      /\ ch' = Append(ch, Head(batch)) /\ batch' = Tail(batch)
      /\ \A m \in Msgs : InHand(m)' <=> InHand(m)
  BY DEF Push, TypeOK, Busy, InHand
<1>2. /\ Range(batch) = {Head(batch)} \union Range(batch') /\ Head(batch) \in Msgs
      /\ Range(ch') = Range(ch) \union {Head(batch)}
  BY <1>1, HeadTailElements, AppendElements
<1> SUFFICES ASSUME up', ~ctxDone', NEW m \in Msgs, NEW n \in Msgs,
                    tries'[m] = 0, Held(m)', Waits(n)', created'[n] < created'[m]
             PROVE  Ahead(n, m)'
  BY DEF Ordered
<1>3. Ahead(n, m)
  <2>1. Held(m)
    BY <1>1, <1>2 DEF Held, InHand
  <2> QED  BY <2>1 DEF Push, Ordered, Waits
<1>4. CASE InHand(n)
  BY <1>1, <1>4 DEF Ahead
<1>5. CASE Before(ch, n, m)
  BY <1>1, <1>2, <1>5, BeforeAppend DEF Ahead
<1>6. CASE Before(batch, n, m)
  <2>1. CASE n = Head(batch)
    <3>1. PICK i, j \in 1..Len(batch) : i < j /\ batch[i] = n /\ batch[j] = m
      BY <1>6 DEF Before
    <3>2. batch'[j - 1] = m /\ j - 1 \in DOMAIN batch'
      BY <1>1, <3>1
    <3>3. m \in Range(batch')
      BY <3>2 DEF Range
    <3> QED  BY <1>2, <2>1, <3>3 DEF Ahead
  <2>2. CASE n # Head(batch)
    BY <1>1, <1>6, <2>2, BeforeTail DEF Ahead
  <2> QED  BY <2>1, <2>2
<1>7. CASE n \in Range(ch) /\ m \in Range(batch)
  <2>1. CASE m = Head(batch)
    BY <1>1, <1>2, <1>7, <2>1, BeforeAppend DEF Ahead
  <2>2. CASE m # Head(batch)
    BY <1>1, <1>2, <1>7, <2>2 DEF Ahead
  <2> QED  BY <2>1, <2>2
<1> QED  BY <1>3, <1>4, <1>5, <1>6, <1>7 DEF Ahead

\* A claim takes the oldest rows first, and nothing that is due is older than
\* what it takes. An older row that is not due is held: it has no retry time
\* before its first attempt.
LEMMA OrderedClaim ==
  ASSUME OrderInv, dbErrs = 0, Claim
  PROVE  Ordered'
<1> USE DEF process, posts, history, chan, threads
<1>1. PICK q \in Batches :
        /\ batch' = q
        /\ status' = [m \in Msgs |-> IF m \in Range(q) THEN "sending" ELSE status[m]]
  BY DEF Claim
<1>2. /\ batch = <<>> /\ ch' = ch /\ UNCHANGED <<tries, created, up, ctxDone, dbErrs>>
      /\ \A m \in Msgs : InHand(m)' <=> InHand(m)
  BY DEF Claim, InHand, Busy
<1>3. /\ q \in Seq(Msgs) /\ Len(q) \in Nat
      /\ Range(q) \subseteq {m \in Msgs : status[m] = "queued"}
      /\ \A i, j \in 1..Len(q) : i < j => created[q[i]] <= created[q[j]]
      /\ \A m \in Eligible \ Range(q), i \in 1..Len(q) : created[q[i]] <= created[m]
  BY <1>1, BatchElements DEF Batches
<1>4. created \in [Msgs -> Nat]
  BY DEF OrderInv, Inv, TypeOK, Counter
<1> SUFFICES ASSUME up', ~ctxDone', NEW m \in Msgs, NEW n \in Msgs,
                    tries'[m] = 0, Held(m)', Waits(n)', created'[n] < created'[m]
             PROVE  Ahead(n, m)'
  BY DEF Ordered
<1>5. Waits(n) /\ created[n] < created[m] /\ tries[m] = 0 /\ up /\ ~ctxDone /\ dbErrs = 0
  BY <1>1, <1>2, <1>3 DEF Waits, OrderInv
<1>6. CASE m \in Range(q)
  <2>1. PICK j \in 1..Len(q) : q[j] = m
    BY <1>3, <1>6 DEF Range
  <2>2. CASE n \in Range(q)
    <3>1. PICK i \in 1..Len(q) : q[i] = n
      BY <1>3, <2>2 DEF Range
    <3>2. i < j
      <4>1. ~(j < i)
        BY <1>3, <1>4, <1>5, <2>1, <3>1
      <4>2. i # j
        BY <1>4, <1>5, <2>1, <3>1
      <4> QED  BY <4>1, <4>2
    <3> QED  BY <1>1, <2>1, <3>1, <3>2 DEF Ahead, Before
  <2>3. CASE n \notin Range(q)
    <3>1. n \notin Eligible
      BY <1>3, <1>4, <1>5, <2>1, <2>3
    <3>2. status[n] = "sending"
      BY <1>5, <3>1 DEF Waits, Eligible, OrderInv, Fresh, Inv, TypeOK, Statuses
    <3>3. Held(n)
      BY <1>5, <3>2 DEF OrderInv, StuckOnlyAfterDbError
    <3>4. n \in Range(ch) \/ InHand(n)
      BY <1>2, <3>3, EmptyElements DEF Held, InHand
    <3> QED  BY <1>1, <1>2, <1>6, <3>4 DEF Ahead
  <2> QED  BY <2>2, <2>3
<1>7. CASE m \notin Range(q)
  <2>1. Held(m)
    BY <1>1, <1>2, <1>7 DEF Held, InHand
  <2>2. Ahead(n, m)
    BY <1>5, <2>1 DEF OrderInv, Ordered
  <2>3. InHand(n) \/ Before(ch, n, m)
    BY <1>2, <2>2, EmptyElements DEF Ahead, Before
  <2> QED  BY <1>2, <2>3 DEF Ahead
<1> QED  BY <1>6, <1>7

\* The other steps of a worker keep what it has in hand, but for messages that
\* have been tried.
LEMMA OrderedWorker ==
  ASSUME OrderInv, dbErrs = 0, NEW w \in Workers, WorkerStep(w)
  PROVE  Ordered'
<1> USE DEF table, chan, process, posts, history
<1>1. CASE Receive(w)
  BY <1>1, OrderedReceive DEF OrderInv, Inv
<1>2. CASE DropAndExit(w)
  BY <1>2 DEF DropAndExit, Ordered
<1>3. CASE BeginSend(w) \/ Deliver(w) \/ SendSucceeds(w) \/ SendFails(w) \/ DrainedExit(w)
           \/ (ReadAttempts(w) /\ pc'[w] = "marking")
  <2>1. /\ UNCHANGED <<ch, batch, up, ctxDone, status, created, msg>>
        /\ \A v \in Workers : Busy(v)' <=> Busy(v)
    BY <1>3 DEF BeginSend, Deliver, SendSucceeds, SendFails, DrainedExit, ReadAttempts, Done,
                OrderInv, Inv, TypeOK, Busy, BusyPcs, TryPcs
  <2>2. \A m \in Msgs : tries'[m] = 0 => tries[m] = 0
    BY <1>3 DEF BeginSend, Deliver, SendSucceeds, SendFails, DrainedExit, ReadAttempts,
                OrderInv, Inv, TypeOK, Counter
  <2>3. \A m \in Msgs : InHand(m)' <=> InHand(m)
    BY <2>1 DEF InHand
  <2> QED  BY <2>1, <2>2, <2>3, OrderedUnmoved DEF OrderInv, Inv, Waits
<1>4. CASE pc[w] \in TryPcs /\ Done(w) /\ (MarkSent(w) \/ ReadAttempts(w) \/ WriteFailed(w)
                                            \/ MarkError(w))
  <2>1. msg[w] \in Msgs /\ tries[msg[w]] # 0
    <3>1. msg[w] \in Msgs
      BY <1>4 DEF OrderInv, Inv, TypeOK, Busy, BusyPcs
    <3> QED  BY <1>4, <3>1, TriedBefore DEF OrderInv
  <2>2. /\ UNCHANGED <<ch, batch, up, ctxDone, created, tries>>
        /\ \A m \in Msgs : m # msg[w] => status'[m] = status[m]
    BY <1>4 DEF MarkSent, ReadAttempts, WriteFailed, MarkError, OrderInv, Inv, TypeOK
  <2>3. \A m \in Msgs : m # msg[w] => (InHand(m)' <=> InHand(m))
    BY <1>4 DEF Done, InHand, Busy, BusyPcs, TryPcs, OrderInv, Inv, TypeOK
  <2>4. \A n \in Msgs : Waits(n)' => Waits(n)
    BY <2>1, <2>2 DEF Waits
  <2> QED  BY <2>1, <2>2, <2>3, <2>4, OrderedUnmoved DEF OrderInv, Inv
<1> QED
  BY <1>1, <1>2, <1>3, <1>4
  DEF WorkerStep, MarkSent, ReadAttempts, WriteFailed, MarkError, TryPcs,
      OrderInv, Inv, TypeOK

\* No row that is older than one in hand begins to wait: a new one is the youngest, and
\* the other changes of a row leave its time alone.
LEMMA OrderedRow ==
  ASSUME OrderInv, dbErrs = 0, NEW x \in Msgs, RowStep(x)
  PROVE  Ordered'
<1> USE DEF chan, threads, process, posts, history
<1>1. /\ UNCHANGED <<ch, batch, up, ctxDone, tries>>
      /\ \A m \in Msgs : InHand(m)' <=> InHand(m)
  BY DEF RowStep, Enqueue, RetryMessage, DeleteMessage, BackoffElapses, InHand, Busy
<1>2. ASSUME NEW m \in Msgs, NEW n \in Msgs, Held(m), Waits(n)', created'[n] < created'[m]
      PROVE  Waits(n) /\ created[n] < created[m]
  <2>1. CASE Enqueue(x)
    <3>1. m # x
      BY <1>2, <2>1 DEF Enqueue, OrderInv, Inv, Books, RowOK, HeldRow
    <3>2. PICK t \in {clock, clock + 1} : created' = [created EXCEPT ![x] = t]
      BY <2>1 DEF Enqueue
    <3>3. /\ created \in [Msgs -> Nat] /\ clock \in Nat /\ t >= clock
          /\ created[m] <= clock /\ created'[m] = created[m]
      <4>1. created \in [Msgs -> Nat] /\ clock \in Nat
        BY DEF OrderInv, Inv, TypeOK, Counter
      <4>2. created[m] <= clock
        BY DEF OrderInv, Fresh
      <4> QED  BY <3>1, <3>2, <4>1, <4>2
    <3>4. n # x
      BY <1>2, <3>2, <3>3
    <3>5. created'[n] = created[n] /\ status'[n] = status[n]
      BY <2>1, <3>2, <3>3, <3>4 DEF Enqueue, OrderInv, Inv, TypeOK
    <3> QED  BY <1>1, <1>2, <3>3, <3>5 DEF Waits
  <2>2. CASE ~Enqueue(x)
    <3>1. /\ created' = created
          /\ \A y \in Msgs : status[y] \in {"none", "deleted"}
                               => status'[y] \in {"none", "deleted"}
      BY <2>2
      DEF RowStep, RetryMessage, DeleteMessage, BackoffElapses, OrderInv, Inv, TypeOK
    <3> QED  BY <1>1, <1>2, <3>1 DEF Waits
  <2> QED  BY <2>1, <2>2
<1> QED  BY <1>1, <1>2, OrderedUnmoved DEF OrderInv, Inv

\* Every step keeps the order.
LEMMA OrderedStep == OrderInv /\ dbErrs = 0 /\ [Next]_vars => Ordered'
<1> SUFFICES ASSUME OrderInv, dbErrs = 0, [Next]_vars  PROVE Ordered'
  OBVIOUS
<1> USE DEF table, chan, threads, process, posts, history
<1>1. CASE ProcessStep
  <2>1. CASE Claim
    BY <2>1, OrderedClaim
  <2>2. CASE Push
    BY <2>2, OrderedPush DEF OrderInv, Inv
  <2>3. CASE DispatcherExit \/ Shutdown \/ ProcessExit \/ Crash
    <3>1. ctxDone' = TRUE \/ up' = FALSE
      BY <2>3 DEF DispatcherExit, Shutdown, ProcessExit, Crash, Gone, OrderInv, Inv, TypeOK
    <3> QED  BY <3>1 DEF Ordered
  <2>4. CASE Start
    <3>1. ch' = <<>> /\ batch' = <<>>
      BY <2>4 DEF Start, OrderInv, Inv, IdleWhenDown
    <3>2. \A v \in Workers : ~Busy(v)'
      BY <2>4 DEF Start, Busy, BusyPcs, TryPcs
    <3>3. \A m \in Msgs : ~Held(m)'
      BY <3>1, <3>2, EmptyElements DEF Held
    <3> QED  BY <3>3 DEF Ordered
  <2>5. CASE ViewQueue
    BY <2>5, OrderedUnmoved DEF ViewQueue, OrderInv, Inv, InHand, Busy, Waits
  <2> QED  BY <1>1, <2>1, <2>2, <2>3, <2>4, <2>5 DEF ProcessStep
<1>2. CASE UNCHANGED vars
  BY <1>2, OrderedUnmoved DEF vars, OrderInv, Inv, InHand, Busy, Waits
<1> QED  BY <1>1, <1>2, OrderedRow, OrderedWorker DEF Next

\* A row that was never tried stays queued or in flight, and is not from the future.
LEMMA FreshStep == Inv /\ Fresh /\ [Next]_vars => Fresh'
<1> SUFFICES ASSUME Inv, Fresh, [Next]_vars, NEW m \in Msgs
             PROVE  /\ tries'[m] = 0 => /\ status'[m] \notin {"sent", "failed"}
                                        /\ ~waiting'[m] /\ m \notin retryShown'
                    /\ created'[m] <= clock'
  BY DEF Fresh
<1> USE DEF table, chan, threads, process, posts, history
<1>1. /\ status \in [Msgs -> Statuses] /\ waiting \in [Msgs -> BOOLEAN]
      /\ created \in [Msgs -> Nat] /\ clock \in Nat /\ tries \in [Msgs -> Nat]
      /\ created[m] <= clock
  BY DEF Inv, TypeOK, Counter, Fresh
<1>2. ASSUME NEW x \in Msgs, RowStep(x)
      PROVE  /\ tries'[m] = 0 => /\ status'[m] \notin {"sent", "failed"}
                                 /\ ~waiting'[m] /\ m \notin retryShown'
             /\ created'[m] <= clock'
  <2>1. CASE Enqueue(x)
    BY <1>1, <2>1 DEF Enqueue, Fresh
  <2>2. CASE RetryMessage(x) \/ DeleteMessage(x) \/ BackoffElapses(x)
    BY <1>1, <2>2 DEF RetryMessage, DeleteMessage, BackoffElapses, Fresh
  <2> QED  BY <1>2, <2>1, <2>2 DEF RowStep
<1>3. ASSUME NEW w \in Workers, WorkerStep(w)
      PROVE  /\ tries'[m] = 0 => /\ status'[m] \notin {"sent", "failed"}
                                 /\ ~waiting'[m] /\ m \notin retryShown'
             /\ created'[m] <= clock'
  <2>1. UNCHANGED <<created, clock, retryShown>> /\ (tries'[m] = 0 => tries[m] = 0)
    BY <1>1, <1>3
    DEF WorkerStep, Receive, DrainedExit, DropAndExit, BeginSend, Deliver, SendSucceeds,
        SendFails, MarkSent, ReadAttempts, WriteFailed, MarkError
  <2>2. CASE MarkSent(w) \/ WriteFailed(w)
    <3>1. msg[w] \in Msgs /\ tries[msg[w]] # 0
      <4>1. pc[w] \in TryPcs /\ Busy(w)
        BY <2>2 DEF MarkSent, WriteFailed, Busy, BusyPcs, TryPcs
      <4>2. msg[w] \in Msgs
        BY <4>1 DEF Inv, TypeOK
      <4> QED  BY <4>1, <4>2, TriedBefore
    <3>2. m # msg[w] => status'[m] = status[m] /\ waiting'[m] = waiting[m]
      BY <1>1, <2>2, <3>1 DEF MarkSent, WriteFailed
    <3> QED  BY <1>1, <2>1, <3>1, <3>2 DEF Fresh
  <2>3. CASE UNCHANGED <<status, waiting>>
    BY <1>1, <2>1, <2>3 DEF Fresh
  <2> QED
    BY <1>3, <2>2, <2>3
    DEF WorkerStep, Receive, DrainedExit, DropAndExit, BeginSend, Deliver, SendSucceeds,
        SendFails, ReadAttempts, MarkError
<1>4. CASE ProcessStep
  <2>1. UNCHANGED <<created, clock, waiting, tries>>
    BY <1>4
    DEF ProcessStep, ViewQueue, Claim, Push, DispatcherExit, Shutdown, ProcessExit, Crash, Start
  <2>2. status'[m] \in {"sent", "failed"} => status[m] = status'[m]
    BY <1>1, <1>4
    DEF ProcessStep, ViewQueue, Claim, Push, DispatcherExit, Shutdown, ProcessExit, Crash,
        Start, ResetStuckMessages
  <2>3. retryShown' \subseteq retryShown \union {x \in Msgs : status[x] = "failed"}
    BY <1>4
    DEF ProcessStep, ViewQueue, Claim, Push, DispatcherExit, Shutdown, ProcessExit, Crash, Start
  <2> QED  BY <1>1, <2>1, <2>2, <2>3 DEF Fresh
<1>5. CASE UNCHANGED vars
  BY <1>1, <1>5 DEF vars, Fresh
<1> QED  BY <1>2, <1>3, <1>4, <1>5 DEF Next

\* No step takes back that an UPDATE has failed.
LEMMA NoDbErrors ==
  ASSUME TypeOK, dbErrs' = 0, [Next]_vars
  PROVE  dbErrs = 0
<1> USE DEF TypeOK, table, chan, threads, process, posts, history
<1>1. ASSUME NEW m \in Msgs, RowStep(m)  PROVE dbErrs = 0
  BY <1>1 DEF RowStep, Enqueue, RetryMessage, DeleteMessage, BackoffElapses
<1>2. ASSUME NEW w \in Workers, WorkerStep(w)  PROVE dbErrs = 0
  BY <1>2
  DEF WorkerStep, Receive, DrainedExit, DropAndExit, BeginSend, Deliver, SendSucceeds,
      SendFails, MarkSent, ReadAttempts, WriteFailed, MarkError
<1>3. CASE ProcessStep
  BY <1>3
  DEF ProcessStep, ViewQueue, Claim, Push, DispatcherExit, Shutdown, ProcessExit, Crash,
      Start, ResetStuckMessages
<1>4. CASE UNCHANGED vars
  BY <1>4 DEF vars
<1> QED  BY <1>1, <1>2, <1>3, <1>4 DEF Next

\* There is nothing to order yet.
LEMMA OrderInit == Init => Fresh /\ Ordered
  BY DEF Init, Fresh, Ordered

\* Only BeginSend makes a first attempt; what is older is then in hand.
LEMMA FirstTry ==
  ASSUME OrderInv, dbErrs = 0, [Next]_vars, NEW m \in Msgs, NEW n \in Msgs,
         tries[m] = 0, tries'[m] = 1, Waits(n), created[n] < created[m]
  PROVE  \E v, w \in Workers : v # w /\ Busy(v) /\ msg[v] = n /\ msg[w] = m
<1> USE DEF table, chan, threads, process, posts, history
<1>1. PICK w \in Workers : BeginSend(w)
  <2>1. ASSUME NEW x \in Msgs, RowStep(x)  PROVE FALSE
    <3>1. tries' = tries
      BY <2>1 DEF RowStep, Enqueue, RetryMessage, DeleteMessage, BackoffElapses
    <3> QED  BY <3>1
  <2>2. ~ProcessStep
    BY DEF ProcessStep, ViewQueue, Claim, Push, DispatcherExit, Shutdown, ProcessExit, Crash,
           Start
  <2>3. ASSUME NEW w \in Workers, WorkerStep(w)  PROVE BeginSend(w)
    BY <2>3
    DEF WorkerStep, Receive, DrainedExit, DropAndExit, Deliver, SendSucceeds, SendFails,
        MarkSent, ReadAttempts, WriteFailed, MarkError
  <2> QED  BY <2>1, <2>2, <2>3 DEF Next, vars
<1>2. Busy(w) /\ up /\ ~ctxDone
  BY <1>1 DEF BeginSend, Busy, BusyPcs
<1>3. msg[w] = m
  BY <1>1 DEF BeginSend, OrderInv, Inv, TypeOK, Counter
<1>4. Held(m) /\ m \notin Range(ch) /\ m \notin Range(batch)
  <2>1. Held(m)
    BY <1>2, <1>3 DEF Held
  <2>2. RowOK(m) /\ overlaps[m] \in Nat
    BY DEF OrderInv, Inv, TypeOK, Counter, Books
  <2>3. overlaps[m] = 0
    BY <2>2 DEF OrderInv, Fresh, RowOK, ShownUsedUp
  <2>4. /\ Places(ch, m) \in Nat /\ (Places(ch, m) = 0 <=> m \notin Range(ch))
        /\ Places(batch, m) \in Nat /\ (Places(batch, m) = 0 <=> m \notin Range(batch))
    BY PlacesType DEF OrderInv, Inv, TypeOK
  <2>5. WorkersAt(BusyPcs, m) \in Nat /\ WorkersAt(BusyPcs, m) > 0
    BY <1>2, <1>3, WorkersAtType DEF Busy
  <2>6. Places(batch, m) + Places(ch, m) + WorkersAt(BusyPcs, m) <= 1
    <3>1. One(Claimable(m)) \in {0, 1}
      BY DEF One
    <3>2. Copies(m) + One(Claimable(m)) <= 1
      BY <2>2, <2>3 DEF RowOK, HoldersCounted
    <3> QED  BY <2>4, <2>5, <3>1, <3>2 DEF Copies
  <2> QED  BY <2>1, <2>4, <2>5, <2>6
<1>5. Ahead(n, m)
  BY <1>2, <1>4 DEF OrderInv, Ordered
<1>6. InHand(n)
  BY <1>4, <1>5, BeforeInRange DEF Ahead, OrderInv, Inv, TypeOK
<1>7. n # m
  BY DEF OrderInv, Inv, TypeOK, Counter
<1> QED  BY <1>3, <1>6, <1>7 DEF InHand

\* What the order of the first attempts rests on.
LEMMA OrderCorrect == Spec => []OrderInv
<1>1. Init => Fresh /\ Ordered /\ StuckOnlyAfterDbError
  BY OrderInit DEF Init, StuckOnlyAfterDbError
<1>2. Inv /\ StuckOnlyAfterDbError /\ Fresh /\ (dbErrs = 0 => Ordered) <=> OrderInv
  BY DEF OrderInv
<1>3. OrderInv /\ [Next]_vars => (dbErrs = 0 => Ordered)'
  <2> SUFFICES ASSUME OrderInv, [Next]_vars, dbErrs' = 0  PROVE Ordered'
    OBVIOUS
  <2>1. dbErrs = 0
    BY NoDbErrors DEF OrderInv, Inv
  <2> QED  BY <2>1, OrderedStep
<1> QED
  BY <1>1, <1>2, <1>3, FreshStep, InvCorrect, StuckCorrect, PTL DEF Spec

\* With any number of workers, a message that was never tried is overtaken by a
\* younger one only while a worker has it in hand, as long as no UPDATE has
\* failed (a start that cannot reset a row leaves it behind, and it is overtaken
\* by everybody).
THEOREM OvertakenOnlyInHand ==
  Spec => [][\A m, n \in Msgs :
               /\ dbErrs = 0
               /\ tries[m] = 0 /\ tries'[m] = 1
               /\ status[n] \notin {"none", "deleted"}
               /\ created[n] < created[m]
               => \/ tries[n] > 0
                  \/ \E v \in Workers : Busy(v) /\ msg[v] = n]_vars
<1> DEFINE Step ==
      \A m, n \in Msgs :
        /\ dbErrs = 0
        /\ tries[m] = 0 /\ tries'[m] = 1
        /\ status[n] \notin {"none", "deleted"}
        /\ created[n] < created[m]
        => \/ tries[n] > 0
           \/ \E v \in Workers : Busy(v) /\ msg[v] = n
<1>1. ASSUME OrderInv, [Next]_vars  PROVE Step
  <2> SUFFICES ASSUME NEW m \in Msgs, NEW n \in Msgs, dbErrs = 0,
                      tries[m] = 0, tries'[m] = 1,
                      status[n] \notin {"none", "deleted"}, created[n] < created[m],
                      ~(tries[n] > 0)
               PROVE  \E v \in Workers : Busy(v) /\ msg[v] = n
    OBVIOUS
  <2>1. Waits(n)
    BY <1>1 DEF Waits, OrderInv, Inv, TypeOK, Counter
  <2> QED  BY <1>1, <2>1, FirstTry
<1>2. OrderInv /\ [Next]_vars => [Step]_vars
  <2> HIDE DEF Step
  <2> QED  BY <1>1
<1> QED  BY <1>2, OrderCorrect, PTL DEF Spec

\* With one worker and no failing UPDATE, first attempts happen in the order of
\* created_at, whatever is retried, deleted, shut down or crashes.
THEOREM FirstTriesCorrect ==
  ASSUME NumWorkers = 1
  PROVE  Spec => FirstTriesInOrder
<1> DEFINE InOrder ==
      \A m, n \in Msgs :
        /\ dbErrs = 0
        /\ tries[m] = 0 /\ tries'[m] = 1
        /\ status[n] \notin {"none", "deleted"}
        /\ created[n] < created[m]
        => tries[n] > 0
<1>1. ASSUME OrderInv, [Next]_vars  PROVE InOrder
  <2> SUFFICES ASSUME NEW m \in Msgs, NEW n \in Msgs, dbErrs = 0,
                      tries[m] = 0, tries'[m] = 1,
                      status[n] \notin {"none", "deleted"}, created[n] < created[m],
                      ~(tries[n] > 0)
               PROVE  FALSE
    OBVIOUS
  <2>1. Waits(n)
    BY <1>1 DEF Waits, OrderInv, Inv, TypeOK, Counter
  <2>2. PICK v, w \in Workers : v # w
    BY <1>1, <2>1, FirstTry
  <2>3. PICK x : Workers = {x}
    BY WorkersAssumption, FS_Singleton DEF NumWorkers
  <2> QED  BY <2>2, <2>3
<1>2. OrderInv /\ [Next]_vars => [InOrder]_vars
  <2> HIDE DEF InOrder
  <2> QED  BY <1>1
<1> QED  BY <1>2, OrderCorrect, PTL DEF Spec, FirstTriesInOrder

-----------------------------------------------------------------------------
(* The way out of a shutdown, without fairness: it is never blocked, and it *)
(* gets shorter. ShutdownCompletes follows if what can go on does.          *)

\* The guards of WorkerStep(w): only a receive may have to wait.
CanGoOn(w) ==
  pc[w] \in BusyPcs \/ (pc[w] = "receive" /\ (ch # <<>> \/ closed))

\* The dispatcher closes the channel exactly when it ends.
ClosedAtTheEnd == up => (closed <=> ~dispatching)

\* The dispatcher ends only with the close, and only a start brings it back.
LEMMA ClosedStep == ClosedAtTheEnd /\ (~up => ~closed) /\ [Next]_vars
                      => ClosedAtTheEnd' /\ (~up => ~closed)'
<1> SUFFICES ASSUME ClosedAtTheEnd, ~up => ~closed, [Next]_vars
             PROVE  ClosedAtTheEnd' /\ (~up => ~closed)'
  OBVIOUS
<1> USE DEF ClosedAtTheEnd, table, chan, threads, process, posts, history
<1>1. ASSUME NEW m \in Msgs, RowStep(m)  PROVE UNCHANGED <<up, closed, dispatching>>
  BY <1>1 DEF RowStep, Enqueue, RetryMessage, DeleteMessage, BackoffElapses
<1>2. ASSUME NEW w \in Workers, WorkerStep(w)  PROVE UNCHANGED <<up, closed, dispatching>>
  BY <1>2 DEF WorkerStep, Receive, DrainedExit, DropAndExit, BeginSend, Deliver,
       SendSucceeds, SendFails, MarkSent, ReadAttempts, WriteFailed, MarkError
<1>3. ASSUME ProcessStep  PROVE ClosedAtTheEnd' /\ (~up => ~closed)'
  BY <1>3 DEF ProcessStep, ViewQueue, Claim, Push, DispatcherExit, Shutdown,
       ProcessExit, Crash, Start, Gone
<1>4. CASE UNCHANGED vars
  BY <1>4 DEF vars
<1> QED  BY <1>1, <1>2, <1>3, <1>4 DEF Next

\* During a shutdown nobody waits for somebody who will not come: the
\* dispatcher can end although the channel may be full, then every worker that
\* has not ended can go on, and when all have, the process can.
THEOREM ShutdownNeverBlocks ==
  Spec => [](up /\ ctxDone =>
               \/ dispatching
               \/ \A w \in Workers : pc[w] # "exited" => CanGoOn(w))
<1> DEFINE NobodyWaits ==
      up /\ ctxDone =>
        \/ dispatching
        \/ \A w \in Workers : pc[w] # "exited" => CanGoOn(w)
<1>1. Init => ClosedAtTheEnd /\ (~up => ~closed)
  BY DEF Init, ClosedAtTheEnd
<1>2. TypeOK /\ ClosedAtTheEnd => NobodyWaits
  BY DEF TypeOK, ClosedAtTheEnd, CanGoOn, Pcs
<1> HIDE DEF NobodyWaits
<1>3. Spec => []NobodyWaits
  BY <1>1, <1>2, ClosedStep, TypeCorrect, PTL DEF Spec
<1> QED  BY <1>3 DEF NobodyWaits

\* How far a worker is from its end, if it receives nothing more.
Left == [received |-> 6, sending |-> 5, delivered |-> 4, errored |-> 3,
         sent |-> 2, marking |-> 2, receive |-> 1, exited |-> 0]

\* Worker w is closer to its end, and the others are where they were.
Closer(w) == /\ Left[pc'[w]] < Left[pc[w]]
             /\ \A v \in Workers \ {w} : pc'[v] = pc[v]

\* What is left once the dispatcher has ended: nothing comes into the channel,
\* and a step of a worker takes a message out of it or brings the worker closer
\* to its end.
Drains ==
  up /\ ctxDone /\ ~dispatching /\ up' =>
    /\ ctxDone' /\ ~dispatching'
    /\ \/ ch' = ch /\ pc' = pc
       \/ Len(ch') < Len(ch)
       \/ ch' = ch /\ \E w \in Workers : Closer(w)
    /\ \A w \in Workers : WorkerStep(w) => ch' # ch \/ pc' # pc

\* A worker's step takes a message, or brings the worker closer to its end.
LEMMA WorkerDrains ==
  ASSUME TypeOK, NEW w \in Workers, WorkerStep(w)
  PROVE  /\ UNCHANGED <<ctxDone, dispatching>>
         /\ ctxDone => \/ Len(ch') < Len(ch)
                       \/ ch' = ch /\ Closer(w)
<1> USE DEF table, chan, threads, process, posts, history
<1>1. UNCHANGED <<ctxDone, dispatching>>
  BY DEF WorkerStep, Receive, DrainedExit, DropAndExit, BeginSend, Deliver,
     SendSucceeds, SendFails, MarkSent, ReadAttempts, WriteFailed, MarkError
<1>2. ASSUME Receive(w)  PROVE Len(ch') < Len(ch)
  <2>1. ch \in Seq(Msgs) /\ ch # <<>> /\ ch' = Tail(ch)
    BY <1>2 DEF Receive, TypeOK
  <2> QED  BY <2>1
<1>3. ASSUME ~Receive(w)  PROVE ch' = ch
  BY <1>3 DEF WorkerStep, DrainedExit, DropAndExit, BeginSend, Deliver,
     SendSucceeds, SendFails, MarkSent, ReadAttempts, WriteFailed, MarkError
<1>4. ASSUME ~Receive(w), ctxDone  PROVE Closer(w)
  <2>1. pc \in [Workers -> Pcs]
    BY DEF TypeOK
  <2>2. SUFFICES \E p \in Pcs : pc' = [pc EXCEPT ![w] = p] /\ Left[p] < Left[pc[w]]
    BY <2>1 DEF Closer
  <2>3. CASE DrainedExit(w)
    <3>1. pc[w] = "receive" /\ pc' = [pc EXCEPT ![w] = "exited"]
      BY <2>3 DEF DrainedExit
    <3> QED  BY <3>1 DEF Left, Pcs, BusyPcs, TryPcs
  <2>4. CASE DropAndExit(w)
    <3>1. pc[w] = "received" /\ pc' = [pc EXCEPT ![w] = "exited"]
      BY <2>4 DEF DropAndExit
    <3> QED  BY <3>1 DEF Left, Pcs, BusyPcs, TryPcs
  <2>5. ~BeginSend(w)
    BY <1>4 DEF BeginSend
  <2>6. CASE Deliver(w)
    <3>1. pc[w] = "sending" /\ pc' = [pc EXCEPT ![w] = "delivered"]
      BY <2>6 DEF Deliver
    <3> QED  BY <3>1 DEF Left, Pcs, BusyPcs, TryPcs
  <2>7. CASE SendSucceeds(w)
    <3>1. pc[w] = "delivered" /\ pc' = [pc EXCEPT ![w] = "sent"]
      BY <2>7 DEF SendSucceeds
    <3> QED  BY <3>1 DEF Left, Pcs, BusyPcs, TryPcs
  <2>8. CASE SendFails(w)
    <3>1. pc[w] \in {"sending", "delivered"} /\ pc' = [pc EXCEPT ![w] = "errored"]
      BY <2>8 DEF SendFails
    <3> QED  BY <3>1 DEF Left, Pcs, BusyPcs, TryPcs
  <2>9. CASE MarkSent(w) \/ WriteFailed(w) \/ MarkError(w)
    <3>1. /\ pc[w] \in {"sent", "errored", "marking"}
          /\ pc' = [pc EXCEPT ![w] = "receive"]
      BY <2>9 DEF MarkSent, WriteFailed, MarkError, Done
    <3> QED  BY <3>1 DEF Left, Pcs, BusyPcs, TryPcs
  <2>10. CASE ReadAttempts(w)
    <3>1. /\ pc[w] = "errored"
          /\ \/ pc' = [pc EXCEPT ![w] = "marking"]
             \/ pc' = [pc EXCEPT ![w] = "receive"]
      BY <2>10 DEF ReadAttempts, Done
    <3> QED  BY <3>1 DEF Left, Pcs, BusyPcs, TryPcs
  <2> QED  BY <1>4, <2>3, <2>4, <2>5, <2>6, <2>7, <2>8, <2>9, <2>10 DEF WorkerStep
<1> QED  BY <1>1, <1>2, <1>3, <1>4

\* Nobody else touches the channel or the workers before the process is gone.
LEMMA DrainStep == TypeOK /\ [Next]_vars => Drains
<1> SUFFICES ASSUME TypeOK, [Next]_vars, up, ctxDone, ~dispatching, up'
             PROVE  /\ ctxDone' /\ ~dispatching'
                    /\ \/ ch' = ch /\ pc' = pc
                       \/ Len(ch') < Len(ch)
                       \/ ch' = ch /\ \E w \in Workers : Closer(w)
                    /\ \A w \in Workers : WorkerStep(w) => ch' # ch \/ pc' # pc
  BY DEF Drains
<1> USE DEF table, chan, threads, process, posts, history
<1>1. ASSUME NEW w \in Workers, WorkerStep(w)  PROVE ch' # ch \/ pc' # pc
  <2>1. CASE Len(ch') < Len(ch)
    <3>1. Len(ch) \in Nat
      BY DEF TypeOK
    <3> QED  BY <2>1, <3>1
  <2>2. CASE Closer(w)
    <3>1. pc \in [Workers -> Pcs] /\ \A p \in Pcs : Left[p] \in Nat
      BY DEF TypeOK, Left, Pcs, BusyPcs, TryPcs
    <3> QED  BY <2>2, <3>1 DEF Closer
  <2> QED  BY <1>1, <2>1, <2>2, WorkerDrains
<1>2. ASSUME NEW m \in Msgs, RowStep(m)  PROVE UNCHANGED <<ctxDone, dispatching, ch, pc>>
  BY <1>2 DEF RowStep, Enqueue, RetryMessage, DeleteMessage, BackoffElapses
<1>3. ASSUME ProcessStep  PROVE UNCHANGED <<ctxDone, dispatching, ch, pc>>
  BY <1>3 DEF ProcessStep, ViewQueue, Claim, Push, DispatcherExit, Shutdown,
       ProcessExit, Crash, Start, Gone
<1>4. ASSUME UNCHANGED vars  PROVE UNCHANGED <<ctxDone, dispatching, ch, pc>>
  BY <1>4 DEF vars
<1>5. \/ \E w \in Workers : WorkerStep(w)
      \/ UNCHANGED <<ctxDone, dispatching, ch, pc>>
  BY <1>2, <1>3, <1>4 DEF Next
<1>6. CASE UNCHANGED <<ctxDone, dispatching, ch, pc>>
  BY <1>1, <1>6
<1>7. ASSUME NEW w \in Workers, WorkerStep(w)
      PROVE  /\ ctxDone' /\ ~dispatching'
             /\ \/ Len(ch') < Len(ch)
                \/ ch' = ch /\ \E v \in Workers : Closer(v)
  <2>1. UNCHANGED <<ctxDone, dispatching>>
    BY <1>7, WorkerDrains
  <2>2. Len(ch') < Len(ch) \/ (ch' = ch /\ Closer(w))
    BY <1>7, WorkerDrains
  <2> QED  BY <2>1, <2>2
<1> QED  BY <1>1, <1>5, <1>6, <1>7

\* Once the dispatcher has ended, a shutdown is a descent: the channel only
\* shrinks, and each step of a worker that takes nothing out of it brings the
\* worker closer to its end, from which it does not come back.
THEOREM ShutdownDrains == Spec => [][Drains]_vars
<1>1. TypeOK /\ [Next]_vars => [Drains]_vars
  BY DrainStep
<1> QED  BY <1>1, TypeCorrect, PTL DEF Spec
=============================================================================
