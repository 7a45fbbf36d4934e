-------------------------- MODULE ChannelSettings --------------------------
(***************************************************************************)
(* The channel settings: handleSaveChannels writes one row per key, then   *)
(* buildSenders reads all rows and UpdateSenders swaps the senders of the  *)
(* worker, while workers send. Linking and unlinking WhatsApp Web also     *)
(* rebuild the senders. No lock spans these statements.                    *)
(*                                                                         *)
(* The keys are those one channel needs: it is configured when none of     *)
(* them is empty (BusinessSender.Configured).                              *)
(***************************************************************************)
EXTENDS Naturals, Sequences, SequencesExt

CONSTANTS
  KeyOrder,       \* sequence: the keys in the order in which they are saved
  Values,         \* their values
  Empty,          \* "", also what a missing row means to buildSenders
  Saves,          \* requests POST /settings/channels
  Reloads,        \* requests that only rebuild the senders
  Workers,        \* worker goroutines
  MaxDbErrors,    \* bound: failing statements explored
  MaxRestarts     \* bound: restarts explored

Keys == ToSet(KeyOrder)

ASSUME KeysAssumption == KeyOrder \in Seq(Keys) /\ IsInjective(KeyOrder) /\ KeyOrder # <<>>
ASSUME EmptyAssumption == Empty \in Values
ASSUME RequestsAssumption == Saves \intersect Reloads = {}
ASSUME BoundsAssumption == MaxDbErrors \in Nat /\ MaxRestarts \in Nat

Configs  == [Keys -> Values]
Requests == Saves \union Reloads
Unset    == [k \in Keys |-> Empty]

VARIABLES
  settings,   \* the table
  senders,    \* Worker.senders: the settings they were built from
  form,       \* of each save: the values submitted
  pc,         \* of each request: "idle", "save", "read", "swap", "done", "failed"
  next,       \* of each save: index of the key it writes next
  built,      \* of each request: what buildSenders read
  job,        \* of each worker: "idle", or the sender it has chosen
  copy,       \* of each worker: its copy of the senders
  sentWith,   \* of each worker: {the settings of its last API call}, or {}
  webUp,      \* WhatsApp Web is connected
  alone,      \* history: no two requests have been in progress together
  dbErrors, restarts

requests == <<form, pc, next, built>>
workers  == <<job, copy, sentWith>>
counters == <<dbErrors, restarts>>
history  == <<alone, counters>>
vars     == <<settings, senders, requests, workers, webUp, history>>

Configured(config) == \A k \in Keys : config[k] # Empty

Init ==
  /\ settings \in Configs
  /\ senders = settings
  /\ form \in [Saves -> Configs]
  /\ pc = [r \in Requests |-> "idle"]
  /\ next = [r \in Saves |-> 1]
  /\ built = [r \in Requests |-> Unset]
  /\ job = [w \in Workers |-> "idle"]
  /\ copy = [w \in Workers |-> Unset]
  /\ sentWith = [w \in Workers |-> {}]
  /\ webUp = FALSE
  /\ alone = TRUE
  /\ dbErrors = 0
  /\ restarts = 0

InProgress == {r \in Requests : pc[r] \in {"save", "read", "swap"}}

-----------------------------------------------------------------------------
(* The requests.                                                           *)

Begin(r) ==
  /\ pc[r] = "idle"
  /\ alone' = (alone /\ InProgress = {})
  /\ pc' = [pc EXCEPT ![r] = IF r \in Saves THEN "save" ELSE "read"]
  /\ UNCHANGED <<settings, senders, form, next, built, workers, webUp, counters>>

\* mutant: empty fields of the form are skipped
SettingSkipsEmpty(key, value) ==
  IF value = Empty THEN settings ELSE [settings EXCEPT ![key] = value]

\* SetSetting upserts the row, whatever the value.
Setting(key, value) == [settings EXCEPT ![key] = value]

SaveKey(r) ==
  LET key == KeyOrder[next[r]] IN
  /\ pc[r] = "save"
  /\ settings' = Setting(key, form[r][key])
  /\ next' = [next EXCEPT ![r] = @ + 1]
  /\ pc' = [pc EXCEPT ![r] = IF next[r] = Len(KeyOrder) THEN "read" ELSE "save"]
  /\ UNCHANGED <<senders, form, built, workers, webUp, history>>

\* The keys before this one stay saved, and the senders are not rebuilt.
SaveFails(r) ==
  /\ pc[r] = "save"
  /\ dbErrors < MaxDbErrors
  /\ dbErrors' = dbErrors + 1
  /\ pc' = [pc EXCEPT ![r] = "failed"]
  /\ UNCHANGED <<settings, senders, form, next, built, workers, webUp, alone, restarts>>

\* mutant: the rows that were not read are missing from the map
PartOfSparse(config) == {[k \in read |-> config[k]] : read \in SUBSET Keys}

\* buildSenders drops the error of GetAllSettings and uses the rows it got.
PartOf(config) == {[k \in Keys |-> IF k \in read THEN config[k] ELSE Empty] :
                     read \in SUBSET Keys}

ReadSettings(r) ==
  /\ pc[r] = "read"
  /\ pc' = [pc EXCEPT ![r] = "swap"]
  /\ \/ /\ built' = [built EXCEPT ![r] = settings]
        /\ UNCHANGED dbErrors
     \/ /\ dbErrors < MaxDbErrors
        /\ dbErrors' = dbErrors + 1
        /\ \E part \in PartOf(settings) : built' = [built EXCEPT ![r] = part]
  /\ UNCHANGED <<settings, senders, form, next, workers, webUp, alone, restarts>>

\* mutant: the senders are built and not installed
UpdateSendersForgotten(config) == UNCHANGED senders

UpdateSenders(config) == senders' = config

SwapSenders(r) ==
  /\ pc[r] = "swap"
  /\ UpdateSenders(built[r])
  /\ pc' = [pc EXCEPT ![r] = "done"]
  /\ UNCHANGED <<settings, form, next, built, workers, webUp, history>>

-----------------------------------------------------------------------------
(* sendByChannel: a copy of the senders under the lock, then the choice.   *)

Choose(w) ==
  /\ job[w] = "idle"
  /\ copy' = [copy EXCEPT ![w] = senders]
  /\ job' = [job EXCEPT ![w] = IF webUp THEN "web"
                               ELSE IF Configured(senders) THEN "api" ELSE "idle"]
  /\ UNCHANGED <<settings, senders, requests, sentWith, webUp, history>>

\* mutant: the field of the worker is read again for the call of Send
SenderReread(w) == senders

SenderOf(w) == copy[w]

\* WebClient.Send tests the connection again; if it is gone the attempt fails,
\* and there is no second choice.
Send(w) ==
  /\ job[w] # "idle"
  /\ job' = [job EXCEPT ![w] = "idle"]
  /\ sentWith' = [sentWith EXCEPT ![w] =
                    IF job[w] = "api" THEN {SenderOf(w)} ELSE {}]
  /\ UNCHANGED <<settings, senders, requests, copy, webUp, history>>

WebClientFlaps ==
  /\ webUp' = ~webUp
  /\ UNCHANGED <<settings, senders, requests, workers, history>>

-----------------------------------------------------------------------------
\* main builds the senders from the table before the worker starts. Requests
\* under way are cut off.
Restart ==
  /\ restarts < MaxRestarts
  /\ restarts' = restarts + 1
  /\ \/ senders' = settings /\ UNCHANGED dbErrors
     \/ /\ dbErrors < MaxDbErrors
        /\ dbErrors' = dbErrors + 1
        /\ senders' \in PartOf(settings)
  /\ pc' = [r \in Requests |-> IF r \in InProgress THEN "failed" ELSE pc[r]]
  /\ job' = [w \in Workers |-> "idle"]
  /\ UNCHANGED <<settings, form, next, built, copy, sentWith, webUp, alone>>

Next ==
  \/ \E r \in Requests : Begin(r) \/ ReadSettings(r) \/ SwapSenders(r)
  \/ \E r \in Saves : SaveKey(r) \/ SaveFails(r)
  \/ \E w \in Workers : Choose(w) \/ Send(w)
  \/ WebClientFlaps \/ Restart

Spec == Init /\ [][Next]_vars

-----------------------------------------------------------------------------
(* Properties.                                                             *)

\* Every variable has its type.
TypeOK ==
  /\ settings \in Configs
  /\ senders \in Configs
  /\ form \in [Saves -> Configs]
  /\ pc \in [Requests -> {"idle", "save", "read", "swap", "done", "failed"}]
  /\ next \in [Saves -> 1..Len(KeyOrder) + 1]
  /\ built \in [Requests -> Configs]
  /\ job \in [Workers -> {"idle", "web", "api"}]
  /\ copy \in [Workers -> Configs]
  /\ sentWith \in [Workers -> SUBSET Configs]
  /\ webUp \in BOOLEAN /\ alone \in BOOLEAN
  /\ dbErrors \in 0..MaxDbErrors
  /\ restarts \in 0..MaxRestarts

\* No attempt goes through a sender that lacks a setting: the Configured of
\* the choice and the Send that follows see the same senders, whatever is
\* swapped in between and however partial the table was when it was read. In
\* Go the sender would be a nil pointer.
SendsConfigured ==
  \A w \in Workers : \A config \in sentWith[w] : Configured(config)

\* "Channel settings saved and applied", and WithOnSettingsSaved rebuilds
\* "without restarting": when every request has answered and none reported an
\* error, the worker sends with what the table says. Two requests that overlap
\* may break it.
SavedAndApplied ==
  InProgress = {} /\ (\A r \in Requests : pc[r] # "failed") => senders = settings

\* It holds when requests come one at a time and no statement fails.
AppliedWhenAlone == alone /\ dbErrors = 0 => SavedAndApplied

\* When the senders are rebuilt after a save, the table holds the submitted
\* form and nothing else, also after an earlier save that failed or that a
\* restart cut off half-way, if requests come one at a time. The keys of two
\* saves at a time mix.
WholeForm ==
  [][\A r \in Saves :
       alone /\ pc[r] = "read" /\ pc'[r] = "swap" => settings = form[r]]_vars
=============================================================================
