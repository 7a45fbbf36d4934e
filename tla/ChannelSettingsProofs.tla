----------------------- MODULE ChannelSettingsProofs -----------------------
(***************************************************************************)
(* Proofs about ChannelSettings, for every set of keys, requests and       *)
(* workers. As long as requests come one at a time, a save has written a   *)
(* prefix of its form, what a request read is what the table says, and the *)
(* senders are those of the table when nobody is at work.                  *)
(***************************************************************************)
EXTENDS ChannelSettings, TLAPS

\* The place of a save agrees with the key it writes next.
InOrder ==
  \A r \in Saves : pc[r] \in {"idle", "save"} => next[r] \in 1..Len(KeyOrder)

\* A worker that has chosen the API has a copy that can use it.
Ready == \A w \in Workers : job[w] = "api" => Configured(copy[w])

Base == TypeOK /\ InOrder /\ Ready /\ SendsConfigured

LEMMA KeyFacts ==
  /\ Len(KeyOrder) \in Nat /\ 1 <= Len(KeyOrder)
  /\ \A i \in 1..Len(KeyOrder) : KeyOrder[i] \in Keys
  /\ \A k \in Keys : \E i \in 1..Len(KeyOrder) : KeyOrder[i] = k
  BY KeysAssumption DEF Keys, ToSet

LEMMA PartTyped == ASSUME NEW config \in Configs PROVE PartOf(config) \subseteq Configs
  BY EmptyAssumption DEF PartOf, Configs

LEMMA InitBase == Init => Base
<1> SUFFICES ASSUME Init  PROVE Base
  OBVIOUS
<1>1. Unset \in Configs
  BY EmptyAssumption DEF Unset, Configs
<1>2. TypeOK
  <2>1. next \in [Saves -> 1..Len(KeyOrder) + 1] /\ pc \in [Requests -> {"idle"}]
    BY KeyFacts DEF Init
  <2>2. /\ built \in [Requests -> Configs] /\ copy \in [Workers -> Configs]
        /\ job \in [Workers -> {"idle"}] /\ sentWith \in [Workers -> {{}}]
    BY <1>1 DEF Init
  <2>3. dbErrors \in 0..MaxDbErrors /\ restarts \in 0..MaxRestarts
    BY BoundsAssumption DEF Init
  <2> QED  BY <2>1, <2>2, <2>3 DEF Init, TypeOK
<1> QED
  BY <1>2, KeyFacts DEF Init, Base, InOrder, Ready, SendsConfigured

LEMMA BaseStep == Base /\ [Next]_vars => Base'
<1> SUFFICES ASSUME Base, [Next]_vars  PROVE Base'
  OBVIOUS
<1> USE KeyFacts DEF Base, TypeOK, InOrder, Ready, SendsConfigured,
                     requests, workers, counters, history
<1>1. ASSUME NEW r \in Requests, Begin(r)  PROVE Base'
  BY <1>1 DEF Begin, Requests
<1>2. ASSUME NEW r \in Requests, ReadSettings(r)  PROVE Base'
  <2>1. \/ built' = [built EXCEPT ![r] = settings]
        \/ \E part \in Configs : built' = [built EXCEPT ![r] = part]
    BY <1>2, PartTyped DEF ReadSettings
  <2>2. built' \in [Requests -> Configs]
    BY <2>1
  <2>3. dbErrors' \in 0..MaxDbErrors
    BY <1>2, BoundsAssumption DEF ReadSettings
  <2> QED  BY <1>2, <2>2, <2>3 DEF ReadSettings
<1>3. ASSUME NEW r \in Requests, SwapSenders(r)  PROVE Base'
  BY <1>3 DEF SwapSenders, UpdateSenders
<1>4. ASSUME NEW r \in Saves, SaveKey(r)  PROVE Base'
  <2>1. r \in Requests /\ next[r] \in 1..Len(KeyOrder)
    BY <1>4 DEF SaveKey, Requests
  <2>2. form[r] \in Configs /\ KeyOrder[next[r]] \in Keys
    BY <2>1
  <2>3. settings' \in Configs
    BY <1>4, <2>2 DEF SaveKey, Setting, Configs
  <2>4. /\ next' = [next EXCEPT ![r] = next[r] + 1]
        /\ pc' = [pc EXCEPT ![r] = IF next[r] = Len(KeyOrder) THEN "read" ELSE "save"]
        /\ UNCHANGED <<senders, form, built, workers, webUp, history>>
    BY <1>4 DEF SaveKey
  <2>5. next' \in [Saves -> 1..Len(KeyOrder) + 1] /\ InOrder'
    BY <2>1, <2>4 DEF Requests
  <2>6. pc' \in [Requests -> {"idle", "save", "read", "swap", "done", "failed"}]
    BY <2>4
  <2> QED  BY <2>3, <2>4, <2>5, <2>6
<1>5. ASSUME NEW r \in Saves, SaveFails(r)  PROVE Base'
  <2>1. dbErrors' \in 0..MaxDbErrors
    BY <1>5, BoundsAssumption DEF SaveFails
  <2>2. r \in Requests
    BY DEF Requests
  <2> QED  BY <1>5, <2>1, <2>2 DEF SaveFails
<1>6. ASSUME NEW w \in Workers, Choose(w)  PROVE Base'
  BY <1>6 DEF Choose
<1>7. ASSUME NEW w \in Workers, Send(w)  PROVE Base'
  <2>1. job[w] = "api" => Configured(copy[w]) /\ {copy[w]} \in SUBSET Configs
    OBVIOUS
  <2>2. sentWith' \in [Workers -> SUBSET Configs]
    BY <1>7, <2>1 DEF Send, SenderOf
  <2>3. \A v \in Workers : \A config \in sentWith'[v] : Configured(config)
    BY <1>7, <2>1 DEF Send, SenderOf
  <2> QED  BY <1>7, <2>2, <2>3 DEF Send
<1>8. CASE WebClientFlaps
  BY <1>8 DEF WebClientFlaps
<1>9. CASE Restart
  <2>1. senders' \in Configs /\ dbErrors' \in 0..MaxDbErrors
    BY <1>9, PartTyped, BoundsAssumption DEF Restart
  <2>2. restarts' \in 0..MaxRestarts
    BY <1>9, BoundsAssumption DEF Restart
  <2> QED  BY <1>9, <2>1, <2>2 DEF Restart, InProgress, Requests
<1>10. CASE UNCHANGED vars
  BY <1>10 DEF vars
<1> QED
  BY <1>1, <1>2, <1>3, <1>4, <1>5, <1>6, <1>7, <1>8, <1>9, <1>10 DEF Next

-----------------------------------------------------------------------------
(* Requests that come one at a time.                                       *)

Single == \A r, s \in InProgress : r = s

\* A save has written the keys before the one it writes next.
Written ==
  \A r \in Saves :
    /\ pc[r] = "save" => \A i \in 1..next[r] - 1 :
                           settings[KeyOrder[i]] = form[r][KeyOrder[i]]
    /\ pc[r] = "read" => settings = form[r]
    /\ pc[r] = "idle" => next[r] = 1

\* Nothing has failed, and the senders follow the table.
Fresh ==
  (\A r \in Requests : pc[r] # "failed") =>
    /\ InProgress = {} => senders = settings
    /\ \A r \in Requests : pc[r] = "swap" => built[r] = settings

\* A save that has not begun is at its first key, in company or not.
AtFirst == \A r \in Saves : pc[r] = "idle" => next[r] = 1

OneByOne ==
  /\ AtFirst
  /\ alone => Single /\ Written
  /\ alone /\ dbErrors = 0 => Fresh

LEMMA InitOneByOne == Init => OneByOne
  BY DEF Init, OneByOne, AtFirst, Single, Written, Fresh, InProgress, Requests

LEMMA LastKey ==
  ASSUME Base, AtFirst, alone, Single, Written, NEW r \in Saves, SaveKey(r)
  PROVE  Written'
<1> USE KeyFacts DEF Base, TypeOK, InOrder
<1>1. r \in Requests /\ next[r] \in 1..Len(KeyOrder) /\ pc[r] = "save"
  BY DEF SaveKey, Requests
<1>2. \A i \in 1..next[r] : settings'[KeyOrder[i]] = form[r][KeyOrder[i]]
  <2>1. settings' = [settings EXCEPT ![KeyOrder[next[r]]] = form[r][KeyOrder[next[r]]]]
    BY DEF SaveKey, Setting
  <2>2. \A i \in 1..next[r] : i \in 1..next[r] - 1 \/ i = next[r]
    BY <1>1
  <2>3. \A i \in 1..next[r] - 1 : settings[KeyOrder[i]] = form[r][KeyOrder[i]]
    BY <1>1 DEF Written
  <2>4. DOMAIN settings = Keys /\ \A i \in 1..next[r] : KeyOrder[i] \in Keys
    BY <1>1 DEF Configs
  <2> QED  BY <2>1, <2>2, <2>3, <2>4
<1>3. CASE next[r] = Len(KeyOrder)
  <2>1. settings' \in Configs /\ form[r] \in Configs
    BY BaseStep DEF SaveKey, Setting, Configs
  <2>2. \A k \in Keys : settings'[k] = form[r][k]
    BY <1>2, <1>3
  <2>3. settings' = form[r]
    BY <2>1, <2>2 DEF Configs
  <2>4. \A s \in Saves \ {r} : pc'[s] \notin {"save", "read"} /\ next'[s] = next[s]
                               /\ pc'[s] = pc[s]
    BY <1>1 DEF SaveKey, Single, InProgress, Requests
  <2>5. pc'[r] = "read" /\ form' = form
    BY <1>1, <1>3 DEF SaveKey
  <2> QED  BY <2>3, <2>4, <2>5 DEF Written
<1>4. CASE next[r] # Len(KeyOrder)
  <2>1. \A s \in Saves \ {r} : pc'[s] \notin {"save", "read"} /\ next'[s] = next[s]
                               /\ pc'[s] = pc[s]
    BY <1>1 DEF SaveKey, Single, InProgress, Requests
  <2>2. pc'[r] = "save" /\ next'[r] = next[r] + 1 /\ form' = form
    BY <1>1, <1>4 DEF SaveKey
  <2>3. next'[r] - 1 = next[r]
    BY <1>1, <2>2
  <2> QED  BY <1>2, <2>1, <2>2, <2>3 DEF Written
<1> QED  BY <1>3, <1>4

LEMMA OneByOneStep == Base /\ OneByOne /\ [Next]_vars => OneByOne'
<1> SUFFICES ASSUME Base, OneByOne, [Next]_vars  PROVE OneByOne'
  OBVIOUS
<1> USE DEF Base, TypeOK, OneByOne, requests, workers, counters, history
<1>1. ASSUME NEW r \in Requests, Begin(r)  PROVE OneByOne'
  <2>1. AtFirst'
    BY <1>1 DEF Begin, AtFirst, Requests
  <2>2. ASSUME alone'  PROVE Single' /\ Written'
    <3>1. alone /\ InProgress = {}
      BY <1>1, <2>2 DEF Begin
    <3>2. InProgress' \subseteq {r}
      BY <1>1, <3>1 DEF Begin, InProgress
    <3>3. \A s \in Saves : pc'[s] = "save" => s = r /\ next'[s] = 1
      BY <1>1, <3>1 DEF Begin, InProgress, AtFirst, Requests
    <3>4. \A s \in Saves : pc'[s] # "read"
      BY <1>1, <3>1, RequestsAssumption DEF Begin, InProgress, Requests
    <3>5. \A s \in Saves : pc'[s] = "idle" => next'[s] = 1
      BY <2>1 DEF AtFirst
    <3> QED  BY <3>2, <3>3, <3>4, <3>5 DEF Single, Written
  <2>3. ASSUME alone', dbErrors' = 0  PROVE Fresh'
    <3>1. r \in InProgress' /\ \A q \in Requests : pc'[q] # "swap" \/ pc[q] = "swap"
      BY <1>1 DEF Begin, InProgress
    <3>2. InProgress = {}
      BY <1>1, <2>3 DEF Begin
    <3>3. \A q \in Requests : pc'[q] # "swap"
      BY <3>1, <3>2 DEF InProgress
    <3> QED  BY <3>1, <3>3 DEF Fresh
  <2> QED  BY <2>1, <2>2, <2>3
<1>2. ASSUME NEW r \in Requests, ReadSettings(r)  PROVE OneByOne'
  <2>1. AtFirst'
    BY <1>2 DEF ReadSettings, AtFirst, Requests
  <2>2. ASSUME alone'  PROVE Single' /\ Written'
    BY <1>2, <2>2 DEF ReadSettings, Single, Written, InProgress, Requests
  <2>3. ASSUME alone', dbErrors' = 0  PROVE Fresh'
    <3>1. built' = [built EXCEPT ![r] = settings] /\ alone /\ dbErrors = 0
      BY <1>2, <2>3 DEF ReadSettings
    <3>2. r \in InProgress' /\ settings' = settings
      BY <1>2 DEF ReadSettings, InProgress
    <3>3. \A q \in Requests \ {r} : pc'[q] # "swap"
      BY <1>2, <3>1 DEF ReadSettings, Single, InProgress
    <3>4. built'[r] = settings
      BY <3>1
    <3> QED  BY <3>2, <3>3, <3>4 DEF Fresh
  <2> QED  BY <2>1, <2>2, <2>3
<1>3. ASSUME NEW r \in Requests, SwapSenders(r)  PROVE OneByOne'
  <2>1. AtFirst'
    BY <1>3 DEF SwapSenders, AtFirst, Requests
  <2>2. ASSUME alone'  PROVE Single' /\ Written'
    BY <1>3, <2>2 DEF SwapSenders, Single, Written, InProgress, Requests
  <2>3. ASSUME alone', dbErrors' = 0, \A q \in Requests : pc'[q] # "failed"
        PROVE  senders' = settings' /\ \A q \in Requests : pc'[q] # "swap"
    <3>1. \A q \in Requests : pc[q] # "failed"
      BY <1>3, <2>3 DEF SwapSenders
    <3>2. built[r] = settings
      BY <1>3, <2>3, <3>1 DEF SwapSenders, Fresh
    <3>3. \A q \in Requests \ {r} : pc'[q] # "swap"
      BY <1>3, <2>3 DEF SwapSenders, Single, InProgress
    <3> QED  BY <1>3, <3>2, <3>3 DEF SwapSenders, UpdateSenders
  <2> QED  BY <2>1, <2>2, <2>3 DEF Fresh
<1>4. ASSUME NEW r \in Saves, SaveKey(r)  PROVE OneByOne'
  <2>1. AtFirst'
    BY <1>4 DEF SaveKey, AtFirst, Requests
  <2>2. ASSUME alone'  PROVE Single' /\ Written'
    <3>1. alone
      BY <1>4, <2>2 DEF SaveKey
    <3>2. Single'
      BY <1>4, <3>1 DEF SaveKey, Single, InProgress, Requests
    <3> QED  BY <1>4, <3>1, <3>2, LastKey
  <2>3. ASSUME alone', dbErrors' = 0  PROVE Fresh'
    <3>1. r \in InProgress'
      BY <1>4 DEF SaveKey, InProgress, Requests
    <3>2. \A q \in Requests : pc'[q] # "swap"
      BY <1>4, <2>3 DEF SaveKey, Single, InProgress, Requests
    <3> QED  BY <3>1, <3>2 DEF Fresh
  <2> QED  BY <2>1, <2>2, <2>3
<1>5. ASSUME NEW r \in Saves, SaveFails(r)  PROVE OneByOne'
  <2>1. dbErrors' # 0
    BY <1>5 DEF SaveFails
  <2> QED  BY <1>5, <2>1 DEF SaveFails, AtFirst, Single, Written, InProgress, Requests
<1>6. ASSUME UNCHANGED <<settings, senders, requests, alone, dbErrors>>  PROVE OneByOne'
  BY <1>6 DEF AtFirst, Single, Written, Fresh, InProgress
<1>7. ASSUME NEW w \in Workers, Choose(w) \/ Send(w)  PROVE OneByOne'
  BY <1>6, <1>7 DEF Choose, Send
<1>8. CASE WebClientFlaps
  BY <1>6, <1>8 DEF WebClientFlaps
<1>9. CASE Restart
  <2>1. /\ \A r \in Requests : pc'[r] = IF r \in InProgress THEN "failed" ELSE pc[r]
        /\ UNCHANGED <<settings, form, next, built, alone>>
    BY <1>9 DEF Restart
  <2>2. InProgress' = {}
    BY <2>1 DEF InProgress
  <2>3. AtFirst' /\ Single' /\ Written'
    BY <2>1, <2>2 DEF AtFirst, Single, Written, InProgress, Requests
  <2>4. ASSUME dbErrors' = 0  PROVE Fresh'
    <3>1. senders' = settings'
      BY <1>9, <2>4 DEF Restart
    <3> QED  BY <2>2, <3>1 DEF Fresh, InProgress
  <2> QED  BY <2>3, <2>4
<1>10. CASE UNCHANGED vars
  BY <1>6, <1>10 DEF vars
<1> QED  BY <1>1, <1>2, <1>3, <1>4, <1>5, <1>7, <1>8, <1>9, <1>10 DEF Next

-----------------------------------------------------------------------------
(* The theorems.                                                           *)

LEMMA Invariant == Spec => [](Base /\ OneByOne)
  BY InitBase, BaseStep, InitOneByOne, OneByOneStep, PTL DEF Spec

\* Every variable keeps its type, for all requests to save the channel
\* settings and all reloads and sends between them.
THEOREM TypeCorrect == Spec => []TypeOK
<1>1. Base => TypeOK  BY DEF Base
<1> QED  BY <1>1, Invariant, PTL

\* No attempt goes through a sender that lacks a setting, however the choice
\* of a worker, its send and a swap of the senders interleave.
THEOREM SendsConfiguredCorrect == Spec => []SendsConfigured
<1>1. Base => SendsConfigured  BY DEF Base
<1> QED  BY <1>1, Invariant, PTL

\* When the requests come one at a time and no statement fails, the worker
\* sends with what the table says as soon as all of them are answered.
THEOREM AppliedCorrect == Spec => []AppliedWhenAlone
<1>1. OneByOne => AppliedWhenAlone
  BY DEF OneByOne, AppliedWhenAlone, SavedAndApplied, Fresh
<1> QED  BY <1>1, Invariant, PTL

\* The senders are rebuilt from a table that holds the whole form of the save,
\* when requests come one at a time.
THEOREM WholeFormCorrect == Spec => WholeForm
<1>1. Base /\ OneByOne =>
        \A r \in Saves :
          alone /\ pc[r] = "read" /\ pc'[r] = "swap" => settings = form[r]
  BY DEF OneByOne, Written
<1> QED  BY <1>1, Invariant, PTL DEF WholeForm
=============================================================================
