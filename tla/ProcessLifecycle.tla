-------------------------- MODULE ProcessLifecycle --------------------------
(***************************************************************************)
(* main: the order in which a process starts, takes a signal and ends, and *)
(* the requests and deliveries it is in the middle of. Two processes may   *)
(* run at a time, on one database and one port: a supervisor or an         *)
(* operator starts one before the other has ended.                         *)
(*                                                                         *)
(* One worker stands for the dispatcher and its workers, which are the     *)
(* subject of DeliveryQueue; how many attempts a row has left is not       *)
(* counted. Each row belongs to the request that stores it.                *)
(***************************************************************************)
EXTENDS Naturals, FiniteSets

CONSTANTS
  Procs,        \* processes that may be up at the same time
  Requests,     \* webhook requests with a valid token and body
  None,         \* nobody, no request
  MaxStarts,    \* bound: starts of processes
  MaxKills,     \* bound: SIGKILLs, or crashes
  MaxErrors     \* bound: failing UPDATEs and lost answers

ASSUME NoneAssumption == None \notin Procs \union Requests
ASSUME ProcsAssumption == IsFiniteSet(Procs)
ASSUME BoundsAssumption == MaxStarts \in Nat /\ MaxKills \in Nat /\ MaxErrors \in Nat

VARIABLES
  \* of each process
  main,         \* the place of the goroutine that runs main
  sig,          \* the place of the goroutine that waits for a signal
  worker, held, \* the place of the worker, and the row it claimed
  \* the host
  port,         \* the process that listens
  \* of each request
  request, at,  \* its place, and the process that handles it
  row,          \* its row
  delivered,    \* messages the remote side took for it
  \* history
  starts, kills,
  \* history, of each row
  cut,          \* deliveries whose process ended before recording them
  stolen,       \* resets while another process held it
  unheard,      \* deliveries after which Send returned an error
  unrecorded,   \* deliveries whose UPDATE failed
  errors        \* history, for the bound

procs   == <<main, sig, worker, held, port>>
hooks   == <<request, at>>
outcome == <<unheard, unrecorded, errors>>
rows    == <<row, delivered, outcome>>
history == <<starts, kills, cut, stolen>>
vars    == <<procs, hooks, rows, history>>

Init ==
  /\ main = [p \in Procs |-> "off"]
  /\ sig = [p \in Procs |-> "off"]
  /\ worker = [p \in Procs |-> "off"]
  /\ held = [p \in Procs |-> None]
  /\ port = None
  /\ request = [r \in Requests |-> "idle"]
  /\ at = [r \in Requests |-> None]
  /\ row = [r \in Requests |-> "none"]
  /\ delivered = [r \in Requests |-> 0]
  /\ starts = 0 /\ kills = 0
  /\ cut = [r \in Requests |-> 0]
  /\ stolen = [r \in Requests |-> 0]
  /\ unheard = [r \in Requests |-> 0]
  /\ unrecorded = [r \in Requests |-> 0]
  /\ errors = 0

ctxDone(p) == sig[p] \in {"cancelled", "drained", "shutdown"}

StoreClosed(p) == main[p] = "closed"

-----------------------------------------------------------------------------
(* The end of a process.                                                   *)

\* mutant: the listening socket outlives its process
GoneListening(p) ==
  /\ main' = [main EXCEPT ![p] = "off"]
  /\ sig' = [sig EXCEPT ![p] = "off"]
  /\ worker' = [worker EXCEPT ![p] = "off"]
  /\ held' = [held EXCEPT ![p] = None]
  /\ request' = [r \in Requests |->
       IF at[r] = p /\ request[r] \in {"arrived", "validated", "stored"}
       THEN "cut" ELSE request[r]]
  /\ UNCHANGED port

\* Whatever its goroutines are doing; handlers have not answered.
Gone(p) ==
  /\ main' = [main EXCEPT ![p] = "off"]
  /\ sig' = [sig EXCEPT ![p] = "off"]
  /\ worker' = [worker EXCEPT ![p] = "off"]
  /\ held' = [held EXCEPT ![p] = None]
  /\ port' = IF port = p THEN None ELSE port
  /\ request' = [r \in Requests |->
       IF at[r] = p /\ request[r] \in {"arrived", "validated", "stored"}
       THEN "cut" ELSE request[r]]

\* The process ends without waiting for anything.
Abort(p) ==
  /\ Gone(p)
  /\ cut' = [r \in Requests |->
       IF worker[p] = "delivered" /\ held[p] = r THEN cut[r] + 1 ELSE cut[r]]

Kill(p) ==
  /\ main[p] # "off"
  /\ kills < MaxKills
  /\ kills' = kills + 1
  /\ Abort(p)
  /\ UNCHANGED <<at, rows, starts, stolen>>

-----------------------------------------------------------------------------
(* The goroutine of main.                                                  *)

Launch(p) ==
  /\ main[p] = "off"
  /\ starts < MaxStarts
  /\ starts' = starts + 1
  /\ main' = [main EXCEPT ![p] = "loading"]
  /\ UNCHANGED <<sig, worker, held, port, hooks, rows, kills, cut, stolen>>

\* config.Load and store.New; an error of either is fatal.
OpenStore(p) ==
  /\ main[p] = "loading"
  /\ \E place \in {"opened", "off"} : main' = [main EXCEPT ![p] = place]
  /\ UNCHANGED <<sig, worker, held, port, hooks, rows, history>>

\* mutant: the UPDATE has a wider WHERE clause
StuckOrSent == {r \in Requests : row[r] \in {"sending", "sent"}}

Stuck == {r \in Requests : row[r] = "sending"}

HeldByOther(r, p) == \E q \in Procs \ {p} : held[q] = r

\* Worker.Start, and the goroutine for the signals. An error of
\* ResetStuckMessages is only logged.
StartWorker(p) ==
  /\ main[p] = "opened"
  /\ main' = [main EXCEPT ![p] = "started"]
  /\ sig' = [sig EXCEPT ![p] = "unarmed"]
  /\ worker' = [worker EXCEPT ![p] = "idle"]
  /\ \/ UNCHANGED <<row, stolen>>
     \/ /\ row' = [r \in Requests |-> IF r \in Stuck THEN "queued" ELSE row[r]]
        /\ stolen' = [r \in Requests |->
                        IF r \in Stuck /\ HeldByOther(r, p) THEN stolen[r] + 1 ELSE stolen[r]]
  /\ UNCHANGED <<held, port, hooks, delivered, outcome, starts, kills, cut>>

\* ListenAndServe begins: not after a Shutdown, and not if the port is taken,
\* which is fatal. log.Fatalf runs no deferred call.
Listen(p) ==
  /\ main[p] = "started"
  /\ \/ /\ sig[p] = "shutdown"
        /\ main' = [main EXCEPT ![p] = "returned"]
        /\ UNCHANGED <<sig, worker, held, port, request, cut>>
     \/ /\ sig[p] # "shutdown" /\ port = None
        /\ main' = [main EXCEPT ![p] = "serving"]
        /\ port' = p
        /\ UNCHANGED <<sig, worker, held, request, cut>>
     \/ /\ sig[p] # "shutdown" /\ port # None
        /\ Abort(p)
  /\ UNCHANGED <<at, rows, starts, kills, stolen>>

\* main returns, and its deferred calls run: cancel, then st.Close.
CloseStore(p) ==
  /\ main[p] = "returned"
  /\ main' = [main EXCEPT ![p] = "closed"]
  /\ UNCHANGED <<sig, worker, held, port, hooks, rows, history>>

Exit(p) ==
  /\ main[p] = "closed"
  /\ Gone(p)
  /\ UNCHANGED <<at, rows, history>>

-----------------------------------------------------------------------------
(* The goroutine that waits for a signal.                                  *)

SigGoto(p, place) ==
  /\ sig' = [sig EXCEPT ![p] = place]
  /\ UNCHANGED <<worker, held, hooks, rows, history>>

Arm(p) ==
  /\ sig[p] = "unarmed"
  /\ SigGoto(p, "armed")
  /\ UNCHANGED <<main, port>>

\* SIGTERM or SIGINT. Before Notify it ends the process; a second one stays in
\* the channel, and nobody reads it.
Signal(p) ==
  \/ /\ main[p] # "off" /\ sig[p] \in {"off", "unarmed"}
     /\ Abort(p)
     /\ UNCHANGED <<at, rows, starts, kills, stolen>>
  \/ sig[p] = "armed" /\ SigGoto(p, "signalled") /\ UNCHANGED <<main, port>>

\* mutant: Stop before cancel
CancelAfterStop(p) ==
  /\ sig[p] = "signalled"
  /\ worker[p] = "stopped"
  /\ SigGoto(p, "cancelled")
  /\ UNCHANGED <<main, port>>

Cancel(p) ==
  /\ sig[p] = "signalled"
  /\ SigGoto(p, "cancelled")
  /\ UNCHANGED <<main, port>>

\* mutant: Shutdown without Stop
StopWithoutWait(p) ==
  /\ sig[p] = "cancelled"
  /\ SigGoto(p, "drained")
  /\ UNCHANGED <<main, port>>

\* wg.Wait returns. The server has been serving all the while.
Stop(p) ==
  /\ sig[p] = "cancelled"
  /\ worker[p] = "stopped"
  /\ SigGoto(p, "drained")
  /\ UNCHANGED <<main, port>>

\* server.Shutdown closes the listener, and ListenAndServe returns at once.
\* Shutdown itself waits for the handlers, but nobody waits for Shutdown.
ShutdownServer(p) ==
  /\ sig[p] = "drained"
  /\ SigGoto(p, "shutdown")
  /\ IF main[p] = "serving"
     THEN port' = None /\ main' = [main EXCEPT ![p] = "returned"]
     ELSE UNCHANGED <<port, main>>

-----------------------------------------------------------------------------
(* The worker.                                                             *)

WorkerGoto(p, place) ==
  /\ worker' = [worker EXCEPT ![p] = place]
  /\ UNCHANGED <<main, sig, port, hooks, history>>

\* The dispatcher's select may take a tick although the context is done.
Claim(p) ==
  /\ worker[p] = "idle"
  /\ \E r \in Requests :
       /\ row[r] = "queued"
       /\ row' = [row EXCEPT ![r] = "sending"]
       /\ held' = [held EXCEPT ![p] = r]
  /\ WorkerGoto(p, "claimed")
  /\ UNCHANGED <<delivered, outcome>>

\* Both see the context done; a row that is claimed stays in "sending".
StopWorker(p) ==
  /\ worker[p] \in {"idle", "claimed"}
  /\ ctxDone(p)
  /\ held' = [held EXCEPT ![p] = None]
  /\ WorkerGoto(p, "stopped")
  /\ UNCHANGED rows

BeginSend(p) ==
  /\ worker[p] = "claimed"
  /\ ~ctxDone(p)
  /\ WorkerGoto(p, "sending")
  /\ UNCHANGED <<held, rows>>

Deliver(p) ==
  /\ worker[p] = "sending"
  /\ delivered' = [delivered EXCEPT ![held[p]] = @ + 1]
  /\ WorkerGoto(p, "delivered")
  /\ UNCHANGED <<held, row, outcome>>

\* Send returned nil. The UPDATE is by id, whatever the row says.
MarkSent(p) ==
  /\ worker[p] = "delivered"
  /\ row' = [row EXCEPT ![held[p]] = "sent"]
  /\ UNCHANGED outcome

\* Send returned an error: before the remote side had the message, or after it
\* (the answer was lost, QUIT failed). The row is tried again or given up.
MarkFailed(p) ==
  /\ \E s \in {"queued", "failed"} : row' = [row EXCEPT ![held[p]] = s]
  /\ \/ worker[p] = "sending" /\ UNCHANGED <<unheard, errors>>
     \/ /\ worker[p] = "delivered"
        /\ errors < MaxErrors
        /\ unheard' = [unheard EXCEPT ![held[p]] = @ + 1]
        /\ errors' = errors + 1
  /\ UNCHANGED unrecorded

\* Either may fail, and does once the database is closed. The error is only
\* logged, and the row stays as it is.
MarkError(p) ==
  /\ StoreClosed(p) \/ errors < MaxErrors
  /\ errors' = errors + 1
  /\ unrecorded' = IF worker[p] = "delivered"
                   THEN [unrecorded EXCEPT ![held[p]] = @ + 1] ELSE unrecorded
  /\ UNCHANGED <<row, unheard>>

Record(p) ==
  /\ worker[p] \in {"sending", "delivered"}
  /\ \/ ~StoreClosed(p) /\ (MarkSent(p) \/ MarkFailed(p))
     \/ MarkError(p)
  /\ held' = [held EXCEPT ![p] = None]
  /\ WorkerGoto(p, "idle")
  /\ UNCHANGED delivered

-----------------------------------------------------------------------------
(* A webhook handler: two statements and the answer.                       *)

Arrive(r) ==
  /\ request[r] = "idle"
  /\ port # None
  /\ request' = [request EXCEPT ![r] = "arrived"]
  /\ at' = [at EXCEPT ![r] = port]
  /\ UNCHANGED <<procs, rows, history>>

\* ValidateToken; any error is answered with 401.
Validate(r) ==
  /\ request[r] = "arrived"
  /\ request' = [request EXCEPT ![r] = IF StoreClosed(at[r]) THEN "401" ELSE "validated"]
  /\ UNCHANGED <<procs, at, rows, history>>

\* mutant: the error of EnqueueMessage is dropped
InsertUnchecked(r) ==
  /\ request[r] = "validated"
  /\ request' = [request EXCEPT ![r] = "stored"]
  /\ row' = IF StoreClosed(at[r]) THEN row ELSE [row EXCEPT ![r] = "queued"]
  /\ UNCHANGED <<procs, at, delivered, outcome, history>>

\* EnqueueMessage; an error is answered with 500.
Insert(r) ==
  /\ request[r] = "validated"
  /\ IF StoreClosed(at[r])
     THEN request' = [request EXCEPT ![r] = "500"] /\ UNCHANGED row
     ELSE /\ request' = [request EXCEPT ![r] = "stored"]
          /\ row' = [row EXCEPT ![r] = "queued"]
  /\ UNCHANGED <<procs, at, delivered, outcome, history>>

Answer(r) ==
  /\ request[r] = "stored"
  /\ request' = [request EXCEPT ![r] = "202"]
  /\ UNCHANGED <<procs, at, rows, history>>

-----------------------------------------------------------------------------
MainStep(p) ==
  OpenStore(p) \/ StartWorker(p) \/ Listen(p) \/ CloseStore(p) \/ Exit(p)

SignalStep(p) == Arm(p) \/ Cancel(p) \/ Stop(p) \/ ShutdownServer(p)

WorkerStep(p) ==
  Claim(p) \/ StopWorker(p) \/ BeginSend(p) \/ Deliver(p) \/ Record(p)

Next ==
  \/ \E p \in Procs : \/ Launch(p) \/ Signal(p) \/ Kill(p)
                      \/ MainStep(p) \/ SignalStep(p) \/ WorkerStep(p)
  \/ \E r \in Requests : Arrive(r) \/ Validate(r) \/ Insert(r) \/ Answer(r)

Spec == Init /\ [][Next]_vars

\* The Go scheduler runs every goroutine that can run, and a send returns.
Fairness ==
  \A p \in Procs :
    WF_vars(MainStep(p)) /\ WF_vars(SignalStep(p)) /\ WF_vars(WorkerStep(p))

FairSpec == Spec /\ Fairness

-----------------------------------------------------------------------------
(* Properties.                                                             *)

\* Every variable has its type; the process that has the port serves, and the
\* goroutines of a process are there when it has started them.
TypeOK ==
  /\ main \in [Procs -> {"off", "loading", "opened", "started", "serving",
                         "returned", "closed"}]
  /\ sig \in [Procs -> {"off", "unarmed", "armed", "signalled", "cancelled",
                        "drained", "shutdown"}]
  /\ worker \in [Procs -> {"off", "idle", "claimed", "sending", "delivered", "stopped"}]
  /\ held \in [Procs -> Requests \union {None}]
  /\ \A p \in Procs :
       /\ held[p] # None <=> worker[p] \in {"claimed", "sending", "delivered"}
       /\ sig[p] = "off" <=> main[p] \in {"off", "loading", "opened"}
       /\ port = p <=> main[p] = "serving"
  /\ port \in Procs \union {None}
  /\ request \in [Requests -> {"idle", "arrived", "validated", "stored", "202",
                               "401", "500", "cut"}]
  /\ at \in [Requests -> Procs \union {None}]
  /\ row \in [Requests -> {"none", "queued", "sending", "sent", "failed"}]
  /\ delivered \in [Requests -> Nat]
  /\ starts \in 0..MaxStarts /\ kills \in 0..MaxKills
  /\ cut \in [Requests -> Nat] /\ stolen \in [Requests -> Nat]
  /\ unheard \in [Requests -> Nat] /\ unrecorded \in [Requests -> Nat]
  /\ errors \in Nat

\* A process that ends at a signal closes the database only when the outcome
\* of its last delivery is in it: main returns because of Shutdown, which comes
\* after Stop.
DrainedBeforeClose == \A p \in Procs : StoreClosed(p) => worker[p] = "stopped"

\* A process that serves has the queue to itself: its predecessor held the
\* port until its worker had stopped. (A process that has not come to Listen
\* is the exception: its worker runs before it knows that the port is taken.)
ServesAlone ==
  \A p, q \in Procs :
    p # q /\ main[q] = "serving" => worker[p] \in {"off", "stopped"} \/ main[p] = "started"

\* The remote side gets a message once, through signals, restarts and two
\* processes at a time. Each delivery more has a cause of its own: a process
\* that ended between a delivery and its record, a record that failed, a
\* delivery after which Send returned an error, or a start that reset the row
\* of a process that was still sending it.
DeliveredOnce ==
  \A r \in Requests :
    delivered[r] <= 1 + cut[r] + unrecorded[r] + unheard[r] + stolen[r]

\* What an answer says is true, also while the process ends under the handler:
\* 202 is a row in the table, and an error is none, so that a client who
\* repeats the request does not send its message twice. (Without an answer
\* both are possible.)
HonestAnswers ==
  \A r \in Requests :
    /\ request[r] = "202" => row[r] # "none"
    /\ request[r] \in {"401", "500"} => row[r] = "none"

\* A process that takes a signal ends, in whatever place its goroutines are:
\* also before ListenAndServe, and with a message in the middle of a send.
SignalEndsProcess == \A p \in Procs : sig[p] = "signalled" ~> main[p] = "off"
=============================================================================
