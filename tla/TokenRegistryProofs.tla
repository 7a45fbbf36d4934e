------------------------ MODULE TokenRegistryProofs ------------------------
(***************************************************************************)
(* Proofs about TokenRegistry, for any number of tokens, requests and      *)
(* connections. As long as every statement found the connection of         *)
(* store.New idle, the connections that are open enforce the foreign key.  *)
(***************************************************************************)
EXTENDS TokenRegistry, TLAPS

Enforced == ~second => \A c \in Conns : conn[c] # "closed" => enforces[c]

Inv == TypeOK /\ Enforced /\ IntactUntilOverlap

\* A statement that neither deletes a token nor stores a message.
LEMMA Harmless ==
  ASSUME TypeOK, Enforced, NEW c \in Conns, RunOn(c)
  PROVE  /\ conn' \in [Conns -> {"closed", "idle", "busy"}]
         /\ enforces' \in [Conns -> BOOLEAN]
         /\ \A d \in Conns : enforces'[d] => conn'[d] # "closed"
         /\ second' \in BOOLEAN /\ (second => second')
         /\ ~second' => enforces[c]
         /\ Enforced'
<1> USE DEF TypeOK, Enforced
<1>1. /\ conn' = [conn EXCEPT ![c] = "idle"] /\ enforces' = enforces
      /\ second' = (second \/ conn[c] = "closed")
  BY DEF RunOn
<1> QED  BY <1>1

LEMMA FreshTyped ==
  ASSUME NEW first \in Conns
  PROVE  /\ FreshPool(first).conn \in [Conns -> {"closed", "idle", "busy"}]
         /\ FreshPool(first).enforces \in [Conns -> BOOLEAN]
         /\ \A c \in Conns : FreshPool(first).enforces[c] <=> FreshPool(first).conn[c] # "closed"
  BY DEF FreshPool

LEMMA InitInv == Init => Inv
<1> SUFFICES ASSUME Init  PROVE Inv
  OBVIOUS
<1>1. /\ conn \in [Conns -> {"closed", "idle", "busy"}]
      /\ enforces \in [Conns -> BOOLEAN]
      /\ \A c \in Conns : enforces[c] <=> conn[c] # "closed"
  BY FreshTyped DEF Init
<1>2. token \in [Tokens -> {"none"}] /\ msgToken \in [Requests -> {NoToken}]
      /\ request \in [Requests -> {"idle"}] /\ bearer \in [Requests -> Tokens]
      /\ second = FALSE /\ restarts \in 0..MaxRestarts
  BY BoundAssumption DEF Init
<1> QED  BY <1>1, <1>2 DEF Inv, TypeOK, Enforced, IntactUntilOverlap, NoDanglingToken

LEMMA TokenStep ==
  ASSUME Inv, NEW t \in Tokens, CreateToken(t) \/ ToggleToken(t) \/ DeleteToken(t)
  PROVE  Inv'
<1> USE NoTokenAssumption DEF Inv, TypeOK, hooks
<1>1. PICK c \in Conns :
        /\ RunOn(c)
        /\ \/ (CreateToken(t) \/ ToggleToken(t)) /\ msgToken' = msgToken
           \/ /\ DeleteToken(t)
              /\ msgToken' = [r \in Requests |->
                   IF enforces[c] /\ msgToken[r] = t THEN NoToken ELSE msgToken[r]]
  BY DEF CreateToken, ToggleToken, DeleteToken
<1>2. /\ UNCHANGED <<hooks, restarts>>
      /\ token' \in [Tokens -> {"none", "active", "disabled", "deleted"}]
      /\ \A u \in Tokens : token'[u] = "deleted" => token[u] = "deleted" \/ (u = t /\ DeleteToken(t))
  BY DEF CreateToken, ToggleToken, DeleteToken
<1>3. msgToken' \in [Requests -> Tokens \union {NoToken}]
      /\ \A r \in Requests : msgToken'[r] # NoToken => msgToken'[r] = msgToken[r]
  BY <1>1
<1>4. TypeOK' /\ Enforced'
  BY <1>1, <1>2, <1>3, Harmless
<1>5. ASSUME ~second', NEW r \in Requests, msgToken'[r] # NoToken
      PROVE  token'[msgToken'[r]] # "deleted"
  <2>1. ~second /\ enforces[c]
    BY <1>1, <1>5, Harmless
  <2>2. msgToken[r] \in Tokens /\ msgToken'[r] = msgToken[r] /\ token[msgToken[r]] # "deleted"
    BY <1>3, <1>5, <2>1 DEF IntactUntilOverlap, NoDanglingToken
  <2>3. DeleteToken(t) => msgToken[r] # t
    BY <1>1, <1>5, <2>1 DEF CreateToken, ToggleToken, DeleteToken
  <2> QED  BY <1>2, <2>2, <2>3
<1> QED  BY <1>4, <1>5 DEF IntactUntilOverlap, NoDanglingToken

LEMMA RequestStep ==
  ASSUME Inv, NEW r \in Requests, Validate(r) \/ Touch(r) \/ EnqueueMessage(r)
  PROVE  Inv'
<1> USE NoTokenAssumption DEF Inv, TypeOK
<1>1. PICK c \in Conns :
        /\ RunOn(c)
        /\ \/ msgToken' = msgToken
           \/ /\ ~(enforces[c] /\ token[bearer[r]] = "deleted")
              /\ msgToken' = [msgToken EXCEPT ![r] = bearer[r]]
              /\ request' = [request EXCEPT ![r] = "accepted"]
  BY DEF Validate, Touch, EnqueueMessage
<1>2. /\ UNCHANGED <<token, bearer, restarts>>
      /\ request' \in [Requests -> {"idle", "found", "validated", "rejected",
                                    "accepted", "error", "aborted"}]
      /\ \A q \in Requests : request[q] = "accepted" => request'[q] = "accepted"
  BY DEF Validate, Touch, EnqueueMessage
<1>3. msgToken' \in [Requests -> Tokens \union {NoToken}]
      /\ \A q \in Requests : msgToken'[q] # NoToken => request'[q] = "accepted"
  BY <1>1, <1>2
<1>4. TypeOK' /\ Enforced'
  BY <1>1, <1>2, <1>3, Harmless
<1>5. ASSUME ~second', NEW q \in Requests, msgToken'[q] # NoToken
      PROVE  token'[msgToken'[q]] # "deleted"
  <2>1. ~second /\ enforces[c]
    BY <1>1, <1>5, Harmless
  <2>2. CASE msgToken'[q] = msgToken[q]
    BY <1>2, <1>5, <2>1, <2>2 DEF IntactUntilOverlap, NoDanglingToken
  <2>3. CASE msgToken'[q] # msgToken[q]
    BY <1>1, <1>2, <2>1, <2>3
  <2> QED  BY <2>2, <2>3
<1> QED  BY <1>4, <1>5 DEF IntactUntilOverlap, NoDanglingToken

LEMMA PoolStep == ASSUME Inv, Occupy \/ Release \/ Restart PROVE Inv'
<1> USE DEF Inv, TypeOK, hooks
<1>1. CASE Occupy
  <2>1. PICK c \in Conns : /\ conn' = [conn EXCEPT ![c] = "busy"]
                           /\ second' = (second \/ conn[c] = "closed")
    BY <1>1 DEF Occupy, Obtainable
  <2>2. UNCHANGED <<token, msgToken, hooks, enforces, restarts>>
    BY <1>1 DEF Occupy
  <2> QED
    BY <2>1, <2>2 DEF Enforced, IntactUntilOverlap, NoDanglingToken
<1>2. CASE Release
  <2>1. PICK c \in Conns :
          \/ conn[c] = "busy" /\ conn' = [conn EXCEPT ![c] = "idle"] /\ enforces' = enforces
          \/ /\ conn' = [conn EXCEPT ![c] = "closed"]
             /\ enforces' = [enforces EXCEPT ![c] = FALSE]
    BY <1>2 DEF Release
  <2>2. UNCHANGED <<token, msgToken, hooks, second, restarts>>
    BY <1>2 DEF Release
  <2> QED
    BY <2>1, <2>2 DEF Enforced, IntactUntilOverlap, NoDanglingToken
<1>3. CASE Restart
  <2>1. /\ conn' \in [Conns -> {"closed", "idle", "busy"}]
        /\ enforces' \in [Conns -> BOOLEAN]
        /\ \A c \in Conns : enforces'[c] <=> conn'[c] # "closed"
    BY <1>3, FreshTyped DEF Restart
  <2>2. /\ UNCHANGED <<token, msgToken, bearer, second>>
        /\ restarts' \in 0..MaxRestarts
    BY <1>3, BoundAssumption DEF Restart
  <2>3. request' \in [Requests -> {"idle", "found", "validated", "rejected",
                                   "accepted", "error", "aborted"}]
        /\ \A r \in Requests : request[r] = "accepted" => request'[r] = "accepted"
    BY <1>3 DEF Restart
  <2> QED
    BY <2>1, <2>2, <2>3 DEF Enforced, IntactUntilOverlap, NoDanglingToken
<1> QED  BY <1>1, <1>2, <1>3

LEMMA InvStep == Inv /\ [Next]_vars => Inv'
<1> SUFFICES ASSUME Inv, [Next]_vars  PROVE Inv'
  OBVIOUS
<1>1. CASE UNCHANGED vars
  BY <1>1 DEF vars, hooks, pool, Inv, TypeOK, Enforced, IntactUntilOverlap, NoDanglingToken
<1> QED  BY <1>1, TokenStep, RequestStep, PoolStep DEF Next

LEMMA Invariant == Spec => []Inv
  BY InitInv, InvStep, PTL DEF Spec

-----------------------------------------------------------------------------
(* The theorems.                                                           *)

\* Every variable keeps its type, only open connections enforce anything, and
\* only requests that were accepted have a message.
THEOREM TypeCorrect == Spec => []TypeOK
<1>1. Inv => TypeOK  BY DEF Inv
<1> QED  BY <1>1, Invariant, PTL

\* No message refers to a deleted token as long as statements never
\* overlapped: for any number of requests, deletions and restarts.
THEOREM IntactCorrect == Spec => []IntactUntilOverlap
<1>1. Inv => IntactUntilOverlap  BY DEF Inv
<1> QED  BY <1>1, Invariant, PTL
=============================================================================
