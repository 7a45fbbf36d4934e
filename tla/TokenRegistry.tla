--------------------------- MODULE TokenRegistry ---------------------------
(***************************************************************************)
(* API tokens: their creation, enabling, disabling and deleting, the       *)
(* webhook requests that validate one and store a message under it, and    *)
(* the pool of SQLite connections on which these statements run. The page  *)
(* that shows a new token is in AdminSessions.                             *)
(*                                                                         *)
(* "PRAGMA foreign_keys" is a property of a connection. store.New executes *)
(* it once, so one connection of the pool enforces the schema's            *)
(* "ON DELETE SET NULL" and every connection opened later does not.        *)
(***************************************************************************)
EXTENDS Naturals, FiniteSets

CONSTANTS
  Tokens,         \* rows that may ever be inserted into tokens
  Requests,       \* webhook requests; each may insert one message
  NoToken,        \* NULL
  Conns,          \* MaxOpenConns connections; the code has 4
  MaxIdleConns,   \* database/sql closes idle connections beyond this (2)
  MaxOverlap,     \* connections that other statements may hold meanwhile
  MaxRestarts     \* bound: restarts explored

ASSUME ConnsAssumption == IsFiniteSet(Conns) /\ Conns # {}
ASSUME NoTokenAssumption == NoToken \notin Tokens
ASSUME OverlapAssumption == MaxOverlap < Cardinality(Conns)
ASSUME BoundAssumption == MaxRestarts \in Nat

VARIABLES
  \* tables
  token,          \* of each token: "none", "active", "disabled", "deleted"
  msgToken,       \* token_id of the message of each request
  \* webhook handlers
  request, bearer,
  \* the connection pool
  conn,           \* of each connection: "closed", "idle" or "busy"
  enforces,       \* of each connection: foreign_keys is ON
  second,         \* history: a second connection has been opened
  restarts

hooks == <<request, bearer>>
pool  == <<conn, enforces, second>>
vars  == <<token, msgToken, hooks, pool, restarts>>

-----------------------------------------------------------------------------
(* The pool.                                                               *)

\* mutant: the pragma is not executed
FreshPoolUnenforced(first) ==
  [conn     |-> [c \in Conns |-> IF c = first THEN "idle" ELSE "closed"],
   enforces |-> [c \in Conns |-> FALSE]]

\* store.New runs its pragmas and the migration one after the other, so all
\* of them on the one connection that is open.
FreshPool(first) ==
  [conn     |-> [c \in Conns |-> IF c = first THEN "idle" ELSE "closed"],
   enforces |-> [c \in Conns |-> c = first]]

\* A statement runs on an idle connection, or on a new one if all are busy.
Obtainable ==
  LET idle == {c \in Conns : conn[c] = "idle"} IN
  IF idle # {} THEN idle ELSE {c \in Conns : conn[c] = "closed"}

\* The statement on c is over before this step is: c goes back to the pool.
RunOn(c) ==
  /\ c \in Obtainable
  /\ conn' = [conn EXCEPT ![c] = "idle"]
  /\ second' = (second \/ conn[c] = "closed")
  /\ UNCHANGED enforces

\* A transaction or a list of some other goroutine keeps a connection busy.
Occupy ==
  /\ Cardinality({c \in Conns : conn[c] = "busy"}) < MaxOverlap
  /\ \E c \in Obtainable : /\ conn' = [conn EXCEPT ![c] = "busy"]
                           /\ second' = (second \/ conn[c] = "closed")
  /\ UNCHANGED <<token, msgToken, hooks, enforces, restarts>>

Release ==
  /\ \E c \in Conns :
       /\ conn[c] = "busy"
       /\ IF Cardinality({d \in Conns : conn[d] = "idle"}) < MaxIdleConns
          THEN /\ conn' = [conn EXCEPT ![c] = "idle"]
               /\ UNCHANGED enforces
          ELSE /\ conn' = [conn EXCEPT ![c] = "closed"]
               /\ enforces' = [enforces EXCEPT ![c] = FALSE]
  /\ UNCHANGED <<token, msgToken, hooks, second, restarts>>

-----------------------------------------------------------------------------
Init ==
  /\ token = [t \in Tokens |-> "none"]
  /\ msgToken = [r \in Requests |-> NoToken]
  /\ request = [r \in Requests |-> "idle"]
  /\ bearer \in [Requests -> Tokens]
  /\ \E first \in Conns : /\ conn = FreshPool(first).conn
                          /\ enforces = FreshPool(first).enforces
  /\ second = FALSE
  /\ restarts = 0

-----------------------------------------------------------------------------
(* The admin's requests.                                                   *)

CreateToken(t) ==
  /\ token[t] = "none"
  /\ token' = [token EXCEPT ![t] = "active"]
  /\ \E c \in Conns : RunOn(c)
  /\ UNCHANGED <<msgToken, hooks, restarts>>

ToggleToken(t) ==
  /\ token[t] \in {"active", "disabled"}
  /\ token' = [token EXCEPT ![t] = IF @ = "active" THEN "disabled" ELSE "active"]
  /\ \E c \in Conns : RunOn(c)
  /\ UNCHANGED <<msgToken, hooks, restarts>>

\* ON DELETE SET NULL, where the connection enforces it.
DeleteToken(t) ==
  /\ token[t] \in {"active", "disabled"}
  /\ token' = [token EXCEPT ![t] = "deleted"]
  /\ \E c \in Conns :
       /\ RunOn(c)
       /\ msgToken' = [r \in Requests |->
                         IF enforces[c] /\ msgToken[r] = t THEN NoToken ELSE msgToken[r]]
  /\ UNCHANGED <<hooks, restarts>>

-----------------------------------------------------------------------------
(* POST /api/v?/mail, /whatsapp, /telegram.                                *)

Validate(r) ==
  /\ request[r] = "idle"
  /\ request' = [request EXCEPT ![r] =
                   IF token[bearer[r]] = "active" THEN "found" ELSE "rejected"]
  /\ \E c \in Conns : RunOn(c)
  /\ UNCHANGED <<token, msgToken, bearer, restarts>>

\* ValidateToken updates last_used_at in a statement of its own, and drops its
\* error; the token may be gone by now.
Touch(r) ==
  /\ request[r] = "found"
  /\ request' = [request EXCEPT ![r] = "validated"]
  /\ \E c \in Conns : RunOn(c)
  /\ UNCHANGED <<token, msgToken, bearer, restarts>>

\* mutant: the row is in the table and the request is told of an error
EnqueueMessageLate(r) ==
  /\ request[r] = "validated"
  /\ \E c \in Conns :
       /\ RunOn(c)
       /\ request' = [request EXCEPT ![r] =
                        IF enforces[c] /\ token[bearer[r]] = "deleted"
                        THEN "error" ELSE "accepted"]
       /\ msgToken' = [msgToken EXCEPT ![r] = bearer[r]]
  /\ UNCHANGED <<token, bearer, restarts>>

\* The INSERT of the three handlers (handler.go:95, 127 and 159), and what its
\* error or its success is answered with. An enforcing connection refuses the
\* row of a token deleted meanwhile.
EnqueueMessage(r) ==
  /\ request[r] = "validated"
  /\ \E c \in Conns :
       /\ RunOn(c)
       /\ IF enforces[c] /\ token[bearer[r]] = "deleted"
          THEN /\ request' = [request EXCEPT ![r] = "error"]
               /\ UNCHANGED msgToken
          ELSE /\ request' = [request EXCEPT ![r] = "accepted"]
               /\ msgToken' = [msgToken EXCEPT ![r] = bearer[r]]
  /\ UNCHANGED <<token, bearer, restarts>>

-----------------------------------------------------------------------------
\* The process ends and starts again: handlers and the pool are gone; the
\* requests under way get no answer.
Restart ==
  /\ restarts < MaxRestarts
  /\ restarts' = restarts + 1
  /\ \E first \in Conns : /\ conn' = FreshPool(first).conn
                          /\ enforces' = FreshPool(first).enforces
  /\ request' = [r \in Requests |-> IF request[r] \in {"found", "validated"}
                                     THEN "aborted" ELSE request[r]]
  /\ UNCHANGED <<token, msgToken, bearer, second>>

Next ==
  \/ \E t \in Tokens :
       CreateToken(t) \/ ToggleToken(t) \/ DeleteToken(t)
  \/ \E r \in Requests : Validate(r) \/ Touch(r) \/ EnqueueMessage(r)
  \/ Occupy \/ Release \/ Restart

Spec == Init /\ [][Next]_vars

-----------------------------------------------------------------------------
(* Properties.                                                             *)

\* Every variable has its type; only an open connection enforces anything, and
\* the messages are those of the requests that were told so.
TypeOK ==
  /\ token \in [Tokens -> {"none", "active", "disabled", "deleted"}]
  /\ msgToken \in [Requests -> Tokens \union {NoToken}]
  /\ request \in [Requests -> {"idle", "found", "validated", "rejected", "accepted", "error", "aborted"}]
  /\ bearer \in [Requests -> Tokens]
  /\ conn \in [Conns -> {"closed", "idle", "busy"}]
  /\ enforces \in [Conns -> BOOLEAN]
  /\ \A c \in Conns : enforces[c] => conn[c] # "closed"
  /\ \A r \in Requests : msgToken[r] # NoToken => request[r] = "accepted"
  /\ second \in BOOLEAN
  /\ restarts \in 0..MaxRestarts

\* No message refers to a token that does not exist: not after the token is
\* deleted, and not when it is deleted between the validation of a request
\* and the insertion of its message. The schema says so ("ON DELETE SET
\* NULL"); the code breaks it on all connections but the first.
NoDanglingToken ==
  \A r \in Requests : msgToken[r] # NoToken => token[msgToken[r]] # "deleted"

\* As long as statements never overlapped, every one of them, the deletion in
\* the middle of a request included, ran where the foreign key is enforced.
IntactUntilOverlap == ~second => NoDanglingToken
=============================================================================
