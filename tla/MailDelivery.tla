---------------------------- MODULE MailDelivery ----------------------------
(***************************************************************************)
(* A mail and its attempts (SMTPDialog) under a configuration (MailConfig) *)
(* that the admin edits and an operator changes in between: each attempt   *)
(* uses the sender that is installed when it begins.                       *)
(*                                                                         *)
(* A save is one step here; how the statements of a save and the swap of   *)
(* the senders interleave with others is the subject of ChannelSettings.   *)
(***************************************************************************)
EXTENDS SMTPDialog, MailConfig

CONSTANTS
  Files,         \* the layers a configuration file may be
  Envs,          \* the layers the environment may be
  Tables,        \* the settings the database may hold at first
  Edits,         \* what the admin may type: functions from some keys to texts
  MaxSaves,      \* bound: saves explored
  MaxRestarts    \* bound: restarts explored

\* yaml.Unmarshal refuses a file whose switch is not a Boolean.
ASSUME FilesAssumption ==
  \A f \in Files : "tls" \in DOMAIN f => f["tls"] \in BOOLEAN
\* The two options of the form's select; what the table holds was saved by one.
ASSUME SwitchAssumption ==
  \A t \in Tables \union Edits : "tls" \in DOMAIN t => t["tls"] \in {"true", "false"}
ASSUME BoundsAssumption == MaxTo \in Nat /\ MaxAttempts \in Nat

VARIABLES
  file, env,     \* the layers the process was started with
  settings,      \* the table
  page,          \* {the form in the admin's browser, as it was rendered}, or {}
  sender,        \* the configuration of the installed SMTPSender
  saves, restarts

layers   == <<file, env>>
mailVars == <<layers, settings, page, sender, saves, restarts>>
allVars  == <<vars, mailVars>>

config == Load(file, env)

MailInit ==
  /\ Init
  /\ file \in Files /\ env \in Envs
  /\ validate(config)
  /\ settings \in Tables
  /\ page = {}
  /\ sender = buildSenders(config, settings)
  /\ saves = 0 /\ restarts = 0

-----------------------------------------------------------------------------
\* What connect and buildAuth make of the sender's configuration.
Dialled(s) == [implicitTLS |-> s["port"] = 465,
               tls         |-> s["tls"],
               auth        |-> s["auth"] \in Mechanisms]

Attempt ==
  /\ \/ Send(Dialled(sender))
     \/ DialogStep
  /\ UNCHANGED <<layers, settings, page, sender, saves, restarts>>

OpenSettings ==
  /\ saves < MaxSaves
  /\ page' = {Rendered(config, settings)}
  /\ UNCHANGED <<vars, layers, settings, sender, saves, restarts>>

\* The whole form is written, whether or not its page is old by now.
SaveChannels(edit) ==
  /\ saves < MaxSaves
  /\ saves' = saves + 1
  /\ \E form \in page :
       settings' = [k \in Keys |-> IF k \in DOMAIN edit THEN edit[k] ELSE form[k]]
  /\ sender' = buildSenders(config, settings')
  /\ UNCHANGED <<vars, layers, page, restarts>>

\* The process is started again, with another file or environment or with the
\* same ones; one that does not validate does not start. The dialogue is cut.
Restart ==
  /\ restarts < MaxRestarts
  /\ restarts' = restarts + 1
  /\ file' \in Files /\ env' \in Envs
  /\ validate(config')
  /\ sender' = buildSenders(config', settings)
  /\ IF pc = "idle" THEN UNCHANGED <<pc, result, open, secure>> ELSE Return("error")
  /\ UNCHANGED <<to, cfg, rcpt, server, attempts, exposed, settings, page, saves>>

MailNext ==
  Attempt \/ OpenSettings \/ (\E edit \in Edits : SaveChannels(edit)) \/ Restart

MailSpec == MailInit /\ [][MailNext]_allVars

-----------------------------------------------------------------------------
(* Properties.                                                             *)

\* What a layer of texts says of a key: {its value}, or {} if it is not usable.
Opinion(layer, k) ==
  IF ~Has(layer, k) THEN {}
  ELSE CASE k = "port" -> {Atoi[layer[k]] : t \in {layer[k]} \intersect DOMAIN Atoi}
         [] k = "tls"  -> {layer[k] \in {"true", "1"}}
         [] OTHER      -> {layer[k]}

\* The README's order of the layers, "later overrides earlier": the sender
\* uses, for each key, the value of the last layer that has a usable one. A
\* malformed port or an emptied field never hides what an earlier layer says,
\* through all saves of fresh or stale pages and all restarts.
LaterOverridesEarlier ==
  \A k \in Keys :
    LET inFile == IF k \in DOMAIN file THEN {file[k]} ELSE {}
        said == <<{Default[k]}, inFile, Opinion(env, k), Opinion(settings, k)>>
    IN \E last \in 1..4 : /\ said[last] = {sender[k]}
                          /\ \A later \in last+1..4 : said[later] = {}

\* Saving a page just opened, with nothing typed, changes nothing that the
\* sender uses, with two exceptions that the form itself makes: TLS that the
\* file or the environment switched on is off afterwards, and a method that is
\* not spelled as in the list ("PLAIN") becomes "none".
UntouchedFormKeeps ==
  [][saves' = saves + 1 /\ settings' = Rendered(config, settings) =>
       \A k \in Keys :
         \/ sender'[k] = sender[k]
         \/ k = "tls" /\ config["tls"] /\ k \notin DOMAIN settings
         \/ k = "auth" /\ sender[k] \notin AuthOptions]_allVars
=============================================================================
