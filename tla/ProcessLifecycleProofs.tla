----------------------- MODULE ProcessLifecycleProofs -----------------------
(***************************************************************************)
(* Proofs about the start and the end of processes, for any finite set of  *)
(* processes, any requests, and any number of starts and kills.            *)
(***************************************************************************)
EXTENDS ProcessLifecycle, FiniteSetTheorems, TLAPS

\* Shutdown comes after Stop, and main returns because of Shutdown; a worker is
\* there as soon as main has started it.
InOrder ==
  \A p \in Procs :
    /\ worker[p] = "off" <=> main[p] \in {"off", "loading", "opened"}
    /\ sig[p] \in {"drained", "shutdown"} => worker[p] = "stopped"
    /\ main[p] \in {"returned", "closed"} => sig[p] = "shutdown"

\* What the answer to a request says, or will say, of its row. A row that is
\* held is there, and one that is not there was never delivered.
Told ==
  \A r \in Requests :
    /\ request[r] \in {"stored", "202"} => row[r] # "none"
    /\ request[r] \in {"idle", "arrived", "validated", "401", "500"} => row[r] = "none"
    /\ row[r] = "none" => delivered[r] = 0 /\ \A p \in Procs : held[p] # r

Placed == TypeOK /\ InOrder

-----------------------------------------------------------------------------
(* Places.                                                                 *)

LEMMA InitPlaced == Init => Placed /\ Told
  BY NoneAssumption, BoundsAssumption DEF Init, Placed, TypeOK, InOrder, Told

\* The end of a process takes it off every list.
LEMMA GonePlaced ==
  ASSUME Placed, NEW p \in Procs, Gone(p), UNCHANGED <<at, rows>>,
         starts' \in 0..MaxStarts, kills' \in 0..MaxKills,
         cut' \in [Requests -> Nat], stolen' \in [Requests -> Nat]
  PROVE  Placed'
<1> USE DEF Placed, rows, outcome
<1>1. /\ main' = [main EXCEPT ![p] = "off"] /\ sig' = [sig EXCEPT ![p] = "off"]
      /\ worker' = [worker EXCEPT ![p] = "off"] /\ held' = [held EXCEPT ![p] = None]
      /\ port' = IF port = p THEN None ELSE port
  BY DEF Gone
<1>2. InOrder'
  BY <1>1 DEF InOrder, TypeOK
<1>3. \A q \in Procs : port' = q <=> main'[q] = "serving"
  BY <1>1, NoneAssumption DEF TypeOK
<1>4. \A q \in Procs :
        /\ held'[q] # None <=> worker'[q] \in {"claimed", "sending", "delivered"}
        /\ sig'[q] = "off" <=> main'[q] \in {"off", "loading", "opened"}
  BY <1>1 DEF TypeOK
<1>5. request' \in [Requests -> {"idle", "arrived", "validated", "stored", "202",
                                 "401", "500", "cut"}]
  BY DEF Gone, TypeOK
<1> QED  BY <1>1, <1>2, <1>3, <1>4, <1>5 DEF TypeOK

LEMMA AbortPlaced ==
  ASSUME Placed, NEW p \in Procs, Abort(p), UNCHANGED <<at, rows, stolen>>,
         starts' \in 0..MaxStarts, kills' \in 0..MaxKills
  PROVE  Placed'
<1>1. cut' \in [Requests -> Nat]
  BY DEF Abort, Placed, TypeOK
<1> QED  BY <1>1, GonePlaced DEF Abort, Placed, TypeOK

LEMMA MainPlaced ==
  ASSUME Placed, NEW p \in Procs, Launch(p) \/ MainStep(p)
  PROVE  Placed'
<1> USE DEF Placed, hooks, rows, outcome, history
<1>1. CASE Launch(p)
  BY <1>1, BoundsAssumption, NoneAssumption DEF Launch, TypeOK, InOrder
<1>2. CASE OpenStore(p)
  BY <1>2, NoneAssumption DEF OpenStore, TypeOK, InOrder
<1>3. CASE StartWorker(p)
  <2>1. row' \in [Requests -> {"none", "queued", "sending", "sent", "failed"}]
        /\ stolen' \in [Requests -> Nat]
    BY <1>3 DEF StartWorker, TypeOK
  <2>2. /\ main[p] = "opened" /\ main' = [main EXCEPT ![p] = "started"]
        /\ sig' = [sig EXCEPT ![p] = "unarmed"] /\ worker' = [worker EXCEPT ![p] = "idle"]
        /\ UNCHANGED <<held, port, request, at, delivered, outcome, starts, kills, cut>>
    BY <1>3 DEF StartWorker
  <2> QED  BY <2>1, <2>2, NoneAssumption DEF TypeOK, InOrder
<1>4. CASE Listen(p)
  <2>1. CASE Abort(p)
    BY <1>4, <2>1, AbortPlaced DEF Listen, TypeOK
  <2>2. CASE ~Abort(p)
    BY <1>4, <2>2, NoneAssumption DEF Listen, TypeOK, InOrder
  <2> QED  BY <2>1, <2>2
<1>5. CASE CloseStore(p)
  BY <1>5, NoneAssumption DEF CloseStore, TypeOK, InOrder
<1>6. CASE Exit(p)
  BY <1>6, GonePlaced DEF Exit, TypeOK
<1> QED  BY <1>1, <1>2, <1>3, <1>4, <1>5, <1>6 DEF MainStep

LEMMA SignalPlaced ==
  ASSUME Placed, NEW p \in Procs, Signal(p) \/ Kill(p) \/ SignalStep(p)
  PROVE  Placed'
<1> USE DEF Placed, hooks, rows, outcome, history, SigGoto
<1>1. CASE Kill(p)
  BY <1>1, AbortPlaced, BoundsAssumption DEF Kill, TypeOK
<1>2. CASE Signal(p)
  <2>1. CASE Abort(p)
    BY <1>2, <2>1, AbortPlaced DEF Signal, TypeOK
  <2>2. CASE ~Abort(p)
    BY <1>2, <2>2 DEF Signal, TypeOK, InOrder
  <2> QED  BY <2>1, <2>2
<1>3. CASE Arm(p) \/ Cancel(p) \/ Stop(p)
  BY <1>3 DEF Arm, Cancel, Stop, TypeOK, InOrder
<1>4. CASE ShutdownServer(p)
  <2>1. /\ sig[p] = "drained" /\ sig' = [sig EXCEPT ![p] = "shutdown"]
        /\ UNCHANGED <<worker, held, request, at, rows, starts, kills, cut, stolen>>
    BY <1>4 DEF ShutdownServer
  <2>2. CASE main[p] = "serving"
    <3>1. port' = None /\ main' = [main EXCEPT ![p] = "returned"] /\ port = p
      BY <1>4, <2>2 DEF ShutdownServer, TypeOK
    <3> QED  BY <2>1, <2>2, <3>1, NoneAssumption DEF TypeOK, InOrder
  <2>3. CASE main[p] # "serving"
    BY <1>4, <2>1, <2>3 DEF ShutdownServer, TypeOK, InOrder
  <2> QED  BY <2>2, <2>3
<1> QED  BY <1>1, <1>2, <1>3, <1>4 DEF SignalStep

LEMMA WorkerPlaced ==
  ASSUME Placed, NEW p \in Procs, WorkerStep(p)
  PROVE  Placed'
<1> USE DEF Placed, hooks, rows, outcome, history, WorkerGoto
<1>1. CASE Claim(p)
  BY <1>1, NoneAssumption DEF Claim, TypeOK, InOrder
<1>2. CASE StopWorker(p)
  BY <1>2 DEF StopWorker, TypeOK, InOrder
<1>3. CASE BeginSend(p)
  BY <1>3 DEF BeginSend, TypeOK, InOrder
<1>4. CASE Deliver(p)
  BY <1>4 DEF Deliver, TypeOK, InOrder
<1>5. CASE Record(p)
  <2>1. /\ held[p] \in Requests
        /\ worker[p] \in {"sending", "delivered"} /\ worker' = [worker EXCEPT ![p] = "idle"]
        /\ held' = [held EXCEPT ![p] = None]
        /\ UNCHANGED <<main, sig, port, request, at, delivered, starts, kills, cut, stolen>>
    BY <1>5, NoneAssumption DEF Record, TypeOK
  <2>2. /\ row' \in [Requests -> {"none", "queued", "sending", "sent", "failed"}]
        /\ unheard' \in [Requests -> Nat] /\ unrecorded' \in [Requests -> Nat]
        /\ errors' \in Nat
    BY <1>5, <2>1 DEF Record, MarkSent, MarkFailed, MarkError, TypeOK
  <2> QED  BY <2>1, <2>2, NoneAssumption DEF TypeOK, InOrder
<1> QED  BY <1>1, <1>2, <1>3, <1>4, <1>5 DEF WorkerStep

LEMMA HookPlaced ==
  ASSUME Placed, NEW r \in Requests, Arrive(r) \/ Validate(r) \/ Insert(r) \/ Answer(r)
  PROVE  Placed'
<1> USE DEF Placed, procs, hooks, rows, outcome, history
<1>1. CASE Arrive(r)
  BY <1>1 DEF Arrive, TypeOK, InOrder
<1>2. CASE Validate(r)
  BY <1>2 DEF Validate, TypeOK, InOrder
<1>3. CASE Insert(r)
  BY <1>3 DEF Insert, TypeOK, InOrder
<1>4. CASE Answer(r)
  BY <1>4 DEF Answer, TypeOK, InOrder
<1> QED  BY <1>1, <1>2, <1>3, <1>4

LEMMA PlacedStep == Placed /\ [Next]_vars => Placed'
<1> SUFFICES ASSUME Placed, [Next]_vars  PROVE Placed'
  OBVIOUS
<1>1. CASE UNCHANGED vars
  BY <1>1 DEF vars, procs, hooks, rows, outcome, history, Placed, TypeOK, InOrder
<1> QED  BY <1>1, MainPlaced, SignalPlaced, WorkerPlaced, HookPlaced DEF Next

-----------------------------------------------------------------------------
(* Answers.                                                                *)

\* The end of a process leaves its requests without an answer.
LEMMA GoneTold ==
  ASSUME Placed, Told, NEW p \in Procs, Gone(p), UNCHANGED rows
  PROVE  Told'
  BY NoneAssumption DEF Placed, TypeOK, Told, Gone, rows, outcome

LEMMA ToldStep == Placed /\ Told /\ [Next]_vars => Told'
<1> SUFFICES ASSUME Placed, Told, [Next]_vars  PROVE Told'
  OBVIOUS
<1> USE DEF Placed, TypeOK, Told, rows, outcome, hooks, procs, history
<1>1. ASSUME NEW p \in Procs, Gone(p), UNCHANGED rows  PROVE Told'
  BY <1>1, GoneTold
<1>2. CASE UNCHANGED <<request, row, delivered, held>>
  BY <1>2
<1>3. ASSUME NEW p \in Procs, MainStep(p) \/ Launch(p)  PROVE Told'
  <2>1. CASE StartWorker(p)
    BY <2>1 DEF StartWorker, Stuck
  <2>2. CASE Listen(p)
    BY <1>1, <1>2, <2>2 DEF Listen, Abort
  <2> QED  BY <1>1, <1>2, <1>3, <2>1, <2>2
           DEF MainStep, Launch, OpenStore, CloseStore, Exit
<1>4. ASSUME NEW p \in Procs, Signal(p) \/ Kill(p) \/ SignalStep(p)  PROVE Told'
  BY <1>1, <1>2, <1>4
  DEF Signal, Kill, Abort, SignalStep, SigGoto, Arm, Cancel, Stop, ShutdownServer
<1>5. ASSUME NEW p \in Procs, WorkerStep(p)  PROVE Told'
  <2>1. CASE Claim(p)
    <3>1. PICK r \in Requests : /\ row[r] = "queued" /\ row' = [row EXCEPT ![r] = "sending"]
                                /\ held' = [held EXCEPT ![p] = r]
      BY <2>1 DEF Claim
    <3>2. UNCHANGED <<request, delivered>>
      BY <2>1 DEF Claim, WorkerGoto
    <3> QED  BY <3>1, <3>2
  <2>2. CASE StopWorker(p) \/ BeginSend(p)
    BY <2>2, NoneAssumption DEF StopWorker, BeginSend, WorkerGoto
  <2>3. CASE Deliver(p)
    BY <2>3, NoneAssumption DEF Deliver, WorkerGoto
  <2>4. CASE Record(p)
    <3>1. /\ held[p] \in Requests /\ held' = [held EXCEPT ![p] = None]
          /\ UNCHANGED <<request, delivered>>
      BY <2>4, NoneAssumption DEF Record, WorkerGoto
    <3>2. \A r \in Requests : \/ row'[r] = row[r]
                              \/ row[r] # "none" /\ row'[r] # "none"
      BY <2>4, <3>1 DEF Record, MarkSent, MarkFailed, MarkError
    <3> QED  BY <3>1, <3>2, NoneAssumption
  <2> QED  BY <1>5, <2>1, <2>2, <2>3, <2>4 DEF WorkerStep
<1>6. ASSUME NEW r \in Requests, Arrive(r) \/ Validate(r) \/ Insert(r) \/ Answer(r)
      PROVE  Told'
  <2>1. CASE Arrive(r)
    BY <2>1 DEF Arrive
  <2>2. CASE Validate(r)
    BY <2>2 DEF Validate
  <2>3. CASE Insert(r)
    BY <2>3 DEF Insert
  <2>4. CASE Answer(r)
    BY <2>4 DEF Answer
  <2> QED  BY <1>6, <2>1, <2>2, <2>3, <2>4
<1>7. CASE UNCHANGED vars
  BY <1>2, <1>7 DEF vars
<1> QED  BY <1>3, <1>4, <1>5, <1>6, <1>7 DEF Next

-----------------------------------------------------------------------------
(* Deliveries.                                                             *)

\* Processes that may still deliver a row.
Pending(r) == {p \in Procs : held[p] = r /\ worker[p] \in {"claimed", "sending"}}

Orphan(r) == row[r] = "sending" /\ \A p \in Procs : held[p] # r

\* A row that some process may claim, now or after a reset.
Owed(r) == IF row[r] = "queued" \/ Orphan(r) THEN 1 ELSE 0

Excused(r) == cut[r] + unrecorded[r] + unheard[r] + stolen[r]

Covered(r) == delivered[r] + Cardinality(Pending(r)) + Owed(r) <= 1 + Excused(r)

Tally == \A r \in Requests : Covered(r)

LEMMA PendingFinite ==
  ASSUME NEW r
  PROVE  /\ IsFiniteSet(Pending(r)) /\ Cardinality(Pending(r)) \in Nat
         /\ Owed(r) \in {0, 1}
  BY ProcsAssumption, FS_Subset, FS_CardinalityType DEF Pending, Owed

LEMMA PendingFinitePrimed ==
  ASSUME NEW r
  PROVE  /\ IsFiniteSet(Pending(r)') /\ Cardinality(Pending(r)') \in Nat
         /\ Owed(r)' \in {0, 1}
  BY ProcsAssumption, FS_Subset, FS_CardinalityType DEF Pending, Owed

\* A row whose process gives it up before the delivery is owed instead.
LEMMA GiveUp ==
  ASSUME Placed, Tally, NEW r \in Requests, NEW p \in Pending(r),
         Pending(r)' = Pending(r) \ {p},
         UNCHANGED <<delivered, unheard, unrecorded, cut, stolen>>
  PROVE  Covered(r)'
<1>1. Cardinality(Pending(r)') = Cardinality(Pending(r)) - 1
  BY PendingFinite, FS_RemoveElement
<1> QED  BY <1>1, PendingFinite, PendingFinitePrimed DEF Placed, TypeOK, Tally, Covered, Excused

\* A row with the same processes that may deliver it, and no more owed.
LEMMA Unaffected ==
  ASSUME Placed, Tally, NEW r \in Requests,
         Pending(r)' = Pending(r), Owed(r)' <= Owed(r),
         UNCHANGED <<delivered[r], unheard[r], unrecorded[r], cut[r], stolen[r]>>
  PROVE  Covered(r)'
  BY PendingFinite, PendingFinitePrimed DEF Placed, TypeOK, Tally, Covered, Excused

LEMMA ClaimTally ==
  ASSUME Placed, Tally, NEW p \in Procs, Claim(p)
  PROVE  Tally'
<1> USE DEF Placed, TypeOK, outcome
<1>1. PICK q \in Requests : /\ row[q] = "queued" /\ row' = [row EXCEPT ![q] = "sending"]
                            /\ held' = [held EXCEPT ![p] = q]
  BY DEF Claim
<1>2. /\ worker[p] = "idle" /\ worker' = [worker EXCEPT ![p] = "claimed"]
      /\ held[p] = None
      /\ UNCHANGED <<delivered, outcome, cut, stolen>>
  BY DEF Claim, WorkerGoto, history
<1>3. Covered(q)'
  <2>1. Pending(q)' = Pending(q) \union {p} /\ p \notin Pending(q)
    BY <1>1, <1>2 DEF Pending
  <2>2. Cardinality(Pending(q)') = Cardinality(Pending(q)) + 1
    BY <2>1, PendingFinite, FS_AddElement
  <2>3. Owed(q) = 1 /\ Owed(q)' = 0
    BY <1>1 DEF Owed, Orphan
  <2> QED  BY <1>2, <2>2, <2>3, PendingFinite DEF Tally, Covered, Excused
<1>4. ASSUME NEW r \in Requests \ {q}  PROVE Covered(r)'
  <2>1. Pending(r)' = Pending(r)
    BY <1>1, <1>2, NoneAssumption DEF Pending
  <2>2. Owed(r)' <= Owed(r)
    BY <1>1, <1>2, NoneAssumption DEF Owed, Orphan
  <2> QED  BY <1>2, <2>1, <2>2, Unaffected
<1> QED  BY <1>3, <1>4 DEF Tally

LEMMA DeliverTally ==
  ASSUME Placed, Tally, NEW p \in Procs, Deliver(p)
  PROVE  Tally'
<1> USE DEF Placed, TypeOK, outcome
<1>1. /\ worker[p] = "sending" /\ worker' = [worker EXCEPT ![p] = "delivered"]
      /\ delivered' = [delivered EXCEPT ![held[p]] = @ + 1]
      /\ UNCHANGED <<held, row, outcome, cut, stolen>>
      /\ held[p] \in Requests
  BY DEF Deliver, WorkerGoto, history
<1>2. \A r : Owed(r)' = Owed(r)
  BY <1>1 DEF Owed, Orphan
<1>3. Covered(held[p])'
  <2> DEFINE r == held[p]
  <2>1. Pending(r)' = Pending(r) \ {p} /\ p \in Pending(r)
    BY <1>1 DEF Pending
  <2>2. Cardinality(Pending(r)') = Cardinality(Pending(r)) - 1
    BY <2>1, PendingFinite, FS_RemoveElement
  <2>3. delivered'[r] = delivered[r] + 1
    BY <1>1
  <2> QED  BY <1>1, <1>2, <2>2, <2>3, PendingFinite DEF Tally, Covered, Excused
<1>4. ASSUME NEW r \in Requests \ {held[p]}  PROVE Covered(r)'
  <2>1. Pending(r)' = Pending(r) /\ delivered'[r] = delivered[r]
    BY <1>1 DEF Pending
  <2> QED  BY <1>1, <1>2, <2>1, Unaffected, PendingFinite
<1> QED  BY <1>1, <1>3, <1>4 DEF Tally

\* A delivery that was not recorded, or was recorded as a failure, excuses one more.
LEMMA OneMore ==
  ASSUME Placed, Tally, NEW r \in Requests, Pending(r)' = Pending(r),
         UNCHANGED <<delivered[r], cut[r], stolen[r]>>,
         \/ unheard'[r] = unheard[r] + 1 /\ unrecorded'[r] = unrecorded[r]
         \/ unrecorded'[r] = unrecorded[r] + 1 /\ unheard'[r] = unheard[r]
  PROVE  Covered(r)'
<1>1. /\ delivered[r] \in Nat /\ cut[r] \in Nat /\ stolen[r] \in Nat
      /\ unheard[r] \in Nat /\ unrecorded[r] \in Nat
  BY DEF Placed, TypeOK
<1>2. Excused(r)' = Excused(r) + 1
  BY <1>1 DEF Excused
<1>3. Excused(r) \in Nat
  BY <1>1 DEF Excused
<1> QED  BY <1>1, <1>2, <1>3, PendingFinite, PendingFinitePrimed DEF Tally, Covered

\* A worker that is done with a row it has not delivered.
LEMMA LeaveTally ==
  ASSUME Placed, Tally, NEW p \in Procs, worker[p] # "delivered",
         held' = [held EXCEPT ![p] = None],
         worker' \in {[worker EXCEPT ![p] = s] : s \in {"off", "stopped", "idle"}},
         UNCHANGED <<delivered, unheard, unrecorded, cut, stolen>>,
         \A r \in Requests : r # held[p] => row'[r] = row[r]
  PROVE  Tally'
<1> USE DEF Placed, TypeOK, outcome
<1>1. ASSUME NEW r \in Requests, r = held[p]  PROVE Covered(r)'
  <2>1. Pending(r)' = Pending(r) \ {p} /\ p \in Pending(r)
    BY <1>1, NoneAssumption DEF Pending
  <2> QED  BY <2>1, GiveUp
<1>2. ASSUME NEW r \in Requests, r # held[p]  PROVE Covered(r)'
  <2>1. Pending(r)' = Pending(r)
    BY <1>2, NoneAssumption DEF Pending
  <2>2. Owed(r)' <= Owed(r)
    BY <1>2, NoneAssumption DEF Owed, Orphan
  <2> QED  BY <2>1, <2>2, Unaffected
<1> QED  BY <1>1, <1>2 DEF Tally

LEMMA RecordTally ==
  ASSUME Placed, Tally, NEW p \in Procs, Record(p)
  PROVE  Tally'
<1> USE DEF Placed, TypeOK, outcome
<1>1. /\ worker[p] \in {"sending", "delivered"} /\ worker' = [worker EXCEPT ![p] = "idle"]
      /\ held' = [held EXCEPT ![p] = None]
      /\ UNCHANGED <<delivered, cut, stolen>>
      /\ held[p] \in Requests
  BY DEF Record, WorkerGoto, history
<1>2. MarkSent(p) \/ MarkFailed(p) \/ MarkError(p)
  BY DEF Record
<1>3. CASE worker[p] = "sending"
  <2>1. UNCHANGED <<unheard, unrecorded>>
    BY <1>2, <1>3 DEF MarkSent, MarkFailed, MarkError
  <2>2. ASSUME NEW r \in Requests, r # held[p]  PROVE row'[r] = row[r]
    BY <1>2, <2>2 DEF MarkSent, MarkFailed, MarkError
  <2> QED  BY <1>1, <1>3, <2>1, <2>2, LeaveTally
<1>4. CASE worker[p] = "delivered"
  <2>1. ASSUME NEW r \in Requests  PROVE Pending(r)' = Pending(r)
    BY <1>1, <1>4, NoneAssumption DEF Pending
  <2>2. ASSUME NEW r \in Requests, r # held[p]  PROVE Covered(r)'
    <3>1. row'[r] = row[r] /\ UNCHANGED <<unheard[r], unrecorded[r]>>
      BY <1>1, <1>2, <2>2 DEF MarkSent, MarkFailed, MarkError
    <3>2. Owed(r)' <= Owed(r)
      BY <1>1, <2>2, <3>1, NoneAssumption DEF Owed, Orphan
    <3> QED  BY <1>1, <2>1, <3>1, <3>2, Unaffected
  <2>3. ASSUME NEW r \in Requests, r = held[p]  PROVE Covered(r)'
    <3>1. CASE MarkSent(p)
      <4>1. row'[r] = "sent" /\ UNCHANGED <<unheard, unrecorded>>
        BY <1>1, <2>3, <3>1 DEF MarkSent, outcome
      <4>2. Owed(r)' = 0
        BY <4>1 DEF Owed, Orphan
      <4> QED  BY <1>1, <2>1, <4>1, <4>2, Unaffected, PendingFinite
    <3>2. CASE MarkFailed(p)
      <4>1. unheard'[r] = unheard[r] + 1 /\ unrecorded' = unrecorded
        BY <1>1, <1>4, <2>3, <3>2 DEF MarkFailed
      <4> QED  BY <1>1, <2>1, <4>1, OneMore
    <3>3. CASE MarkError(p)
      <4>1. unrecorded'[r] = unrecorded[r] + 1 /\ unheard' = unheard
        BY <1>1, <1>4, <2>3, <3>3 DEF MarkError
      <4> QED  BY <1>1, <2>1, <4>1, OneMore
    <3> QED  BY <1>2, <3>1, <3>2, <3>3
  <2> QED  BY <2>2, <2>3 DEF Tally
<1> QED  BY <1>1, <1>3, <1>4

LEMMA AbortTally ==
  ASSUME Placed, Tally, NEW p \in Procs, Abort(p), UNCHANGED <<rows, stolen>>
  PROVE  Tally'
<1> USE DEF Placed, TypeOK, rows, outcome
<1>1. /\ held' = [held EXCEPT ![p] = None] /\ worker' = [worker EXCEPT ![p] = "off"]
      /\ cut' = [r \in Requests |->
           IF worker[p] = "delivered" /\ held[p] = r THEN cut[r] + 1 ELSE cut[r]]
  BY DEF Abort, Gone
<1>2. CASE worker[p] # "delivered"
  <2>1. cut' = cut
    BY <1>1, <1>2
  <2> QED  BY <1>1, <1>2, <2>1, LeaveTally
<1>3. CASE worker[p] = "delivered"
  <2>1. ASSUME NEW r \in Requests  PROVE Covered(r)'
    <3>1. Pending(r)' = Pending(r)
      BY <1>1, <1>3, NoneAssumption DEF Pending
    <3>2. CASE r = held[p]
      <4>1. cut'[r] = cut[r] + 1
        BY <1>1, <1>3, <3>2
      <4> QED  BY <3>1, <4>1, PendingFinite, PendingFinitePrimed DEF Tally, Covered, Excused
    <3>3. CASE r # held[p]
      <4>1. Owed(r)' <= Owed(r) /\ cut'[r] = cut[r]
        BY <1>1, <3>3, NoneAssumption DEF Owed, Orphan
      <4> QED  BY <3>1, <4>1, Unaffected
    <3> QED  BY <3>2, <3>3
  <2> QED  BY <2>1 DEF Tally
<1> QED  BY <1>2, <1>3

\* A start takes a row from another process, or finds one that nobody holds.
LEMMA StartTally ==
  ASSUME Placed, Tally, NEW p \in Procs, StartWorker(p)
  PROVE  Tally'
<1> USE DEF Placed, TypeOK, outcome
<1>1. /\ worker' = [worker EXCEPT ![p] = "idle"]
      /\ UNCHANGED <<held, delivered, outcome, cut>>
      /\ held[p] = None
  BY DEF StartWorker, InOrder
<1>2. ASSUME NEW r \in Requests  PROVE Covered(r)'
  <2>1. Pending(r)' = Pending(r)
    BY <1>1, NoneAssumption DEF Pending
  <2>2. CASE row[r] = "sending" /\ row'[r] = "queued" /\ HeldByOther(r, p)
    <3>1. stolen'[r] = stolen[r] + 1
      BY <2>2 DEF StartWorker, Stuck
    <3> QED  BY <1>1, <2>1, <3>1, PendingFinite, PendingFinitePrimed DEF Tally, Covered, Excused
  <2>3. CASE row[r] = "sending" /\ row'[r] = "queued" /\ ~HeldByOther(r, p)
    <3>1. stolen'[r] = stolen[r]
      BY <2>3 DEF StartWorker
    <3>2. Orphan(r)
      BY <1>1, <2>3, NoneAssumption DEF Orphan, HeldByOther
    <3>3. Owed(r) = 1
      BY <3>2 DEF Owed
    <3> QED  BY <1>1, <2>1, <3>1, <3>3, Unaffected, PendingFinitePrimed
  <2>4. CASE row'[r] = row[r]
    <3>1. stolen'[r] = stolen[r]
      BY <2>4 DEF StartWorker, Stuck
    <3>2. Owed(r)' = Owed(r)
      BY <1>1, <2>4 DEF Owed, Orphan
    <3> QED  BY <1>1, <2>1, <3>1, <3>2, Unaffected, PendingFinite
  <2>5. \/ row'[r] = row[r]
        \/ row[r] = "sending" /\ row'[r] = "queued"
    BY DEF StartWorker, Stuck
  <2> QED  BY <2>2, <2>3, <2>4, <2>5
<1> QED  BY <1>2 DEF Tally

\* A request whose row is new.
LEMMA InsertTally ==
  ASSUME Placed, Told, Tally, NEW q \in Requests, Insert(q)
  PROVE  Tally'
<1> USE DEF Placed, TypeOK, outcome
<1>1. UNCHANGED <<worker, held, delivered, outcome, cut, stolen>>
  BY DEF Insert, procs, history
<1>2. ASSUME NEW r  PROVE Pending(r)' = Pending(r)
  BY <1>1 DEF Pending
<1>3. ASSUME NEW r \in Requests, row'[r] = row[r]  PROVE Covered(r)'
  <2>1. Owed(r)' = Owed(r)
    BY <1>1, <1>3 DEF Owed, Orphan
  <2> QED  BY <1>1, <1>2, <2>1, Unaffected, PendingFinite
<1>4. ASSUME row'[q] # row[q]  PROVE Covered(q)'
  <2>1. delivered[q] = 0 /\ \A p \in Procs : held[p] # q
    BY DEF Insert, Told
  <2>2. Pending(q)' = {}
    BY <1>1, <2>1 DEF Pending
  <2>3. Cardinality(Pending(q)') = 0
    BY <2>2, FS_EmptySet
  <2> QED  BY <1>1, <2>1, <2>3, PendingFinitePrimed DEF Covered, Excused
<1>5. \A r \in Requests \ {q} : row'[r] = row[r]
  BY DEF Insert
<1> QED  BY <1>3, <1>4, <1>5 DEF Tally

\* Workers stay where they are, or go on from a claim to its send.
Sending ==
  \A p \in Procs :
    \/ worker'[p] = worker[p]
    \/ worker[p] = "claimed" /\ worker'[p] = "sending"

LEMMA SameTally ==
  Placed /\ Tally /\ Sending /\ held' = held /\ rows' = rows /\ cut' = cut /\ stolen' = stolen => Tally'
<1> SUFFICES ASSUME Placed, Tally, Sending,
                    UNCHANGED <<held, rows, cut, stolen>>
             PROVE  Tally'
  OBVIOUS
<1> USE DEF rows, outcome
<1>1. ASSUME NEW r \in Requests  PROVE Covered(r)'
  <2>1. Owed(r)' = Owed(r)
    BY DEF Owed, Orphan
  <2>2. Pending(r)' = Pending(r)
    BY DEF Pending, Sending
  <2> QED  BY <2>1, <2>2, Unaffected, PendingFinite
<1> QED  BY <1>1 DEF Tally

LEMMA TallyStep == Placed /\ Told /\ Tally /\ [Next]_vars => Tally'
<1> SUFFICES ASSUME Placed, Told, Tally, [Next]_vars  PROVE Tally'
  OBVIOUS
<1> USE DEF rows, outcome, history, hooks, procs
<1>1. CASE UNCHANGED <<worker, held, rows, cut, stolen>>
  <2>1. Sending
    BY <1>1 DEF Sending
  <2> QED  BY <1>1, <2>1, SameTally
<1>2. ASSUME NEW p \in Procs, Launch(p) \/ MainStep(p)  PROVE Tally'
  <2>1. CASE StartWorker(p)
    BY <2>1, StartTally
  <2>2. CASE Listen(p)
    BY <1>1, <2>2, AbortTally DEF Listen
  <2>3. CASE Exit(p)
    <3>1. worker[p] = "stopped"
      BY <2>3 DEF Exit, Placed, InOrder
    <3> QED  BY <2>3, <3>1, LeaveTally DEF Exit, Gone
  <2> QED  BY <1>1, <1>2, <2>1, <2>2, <2>3 DEF MainStep, Launch, OpenStore, CloseStore
<1>3. ASSUME NEW p \in Procs, Signal(p) \/ Kill(p) \/ SignalStep(p)  PROVE Tally'
  BY <1>1, <1>3, AbortTally
  DEF Signal, Kill, SignalStep, SigGoto, Arm, Cancel, Stop, ShutdownServer
<1>4. ASSUME NEW p \in Procs, WorkerStep(p)  PROVE Tally'
  <2>1. CASE BeginSend(p)
    <3>1. /\ worker[p] = "claimed" /\ worker' = [worker EXCEPT ![p] = "sending"]
          /\ UNCHANGED <<held, rows, cut, stolen>>
      BY <2>1 DEF BeginSend, WorkerGoto
    <3>2. Sending
      BY <3>1 DEF Placed, TypeOK, Sending
    <3> QED  BY <3>1, <3>2, SameTally
  <2>2. CASE StopWorker(p)
    BY <2>2, LeaveTally DEF StopWorker, WorkerGoto
  <2> QED  BY <1>4, <2>1, <2>2, ClaimTally, DeliverTally, RecordTally DEF WorkerStep
<1>5. ASSUME NEW r \in Requests, Arrive(r) \/ Validate(r) \/ Insert(r) \/ Answer(r)
      PROVE  Tally'
  BY <1>1, <1>5, InsertTally DEF Arrive, Validate, Answer
<1>6. CASE UNCHANGED vars
  BY <1>1, <1>6 DEF vars
<1> QED  BY <1>2, <1>3, <1>4, <1>5, <1>6 DEF Next

LEMMA InitTally == Init => Tally
<1> SUFFICES ASSUME Init, NEW r \in Requests  PROVE Covered(r)
  BY DEF Tally
<1>1. Pending(r) = {} /\ Owed(r) = 0 /\ delivered[r] = 0 /\ Excused(r) = 0
  BY NoneAssumption DEF Init, Pending, Owed, Orphan, Excused
<1> QED  BY <1>1, FS_EmptySet DEF Covered

-----------------------------------------------------------------------------
(* The theorems.                                                           *)

LEMMA Invariant == Spec => [](Placed /\ Told /\ Tally)
  BY InitPlaced, InitTally, PlacedStep, ToldStep, TallyStep, PTL DEF Spec

\* The types, and that the places of a process's goroutines fit together.
THEOREM TypeCorrect == Spec => []TypeOK
<1>1. Placed => TypeOK
  BY DEF Placed
<1> QED  BY <1>1, Invariant, PTL

\* A process that ends at a signal has recorded its last delivery when it
\* closes the database.
THEOREM DrainedCorrect == Spec => []DrainedBeforeClose
<1>1. Placed => DrainedBeforeClose
  BY DEF Placed, InOrder, DrainedBeforeClose, StoreClosed
<1> QED  BY <1>1, Invariant, PTL

\* Among any number of processes, only one that has not come to Listen works
\* beside the one that serves.
THEOREM ServesAloneCorrect == Spec => []ServesAlone
<1>1. Placed => ServesAlone
  <2> SUFFICES ASSUME Placed, NEW p \in Procs, NEW q \in Procs, p # q, main[q] = "serving"
               PROVE  worker[p] \in {"off", "stopped"} \/ main[p] = "started"
    BY DEF ServesAlone
  <2>1. main[p] # "serving"
    BY DEF Placed, TypeOK
  <2> QED  BY <2>1 DEF Placed, TypeOK, InOrder
<1> QED  BY <1>1, Invariant, PTL

\* However many processes start, end and are killed, and whatever sends and
\* UPDATEs fail: a message is delivered once, and each delivery more has a cause
\* of its own among those that DeliveredOnce counts.
THEOREM DeliveredOnceCorrect == Spec => []DeliveredOnce
<1>1. Placed /\ Tally => DeliveredOnce
  BY PendingFinite DEF Placed, TypeOK, Tally, Covered, Excused, DeliveredOnce
<1> QED  BY <1>1, Invariant, PTL

\* 202 is a row in the table, and an error is none, also when the handler runs
\* on in a process that has closed its database.
THEOREM HonestAnswersCorrect == Spec => []HonestAnswers
<1>1. Told => HonestAnswers
  BY DEF Told, HonestAnswers
<1> QED  BY <1>1, Invariant, PTL
=============================================================================
