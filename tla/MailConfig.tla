----------------------------- MODULE MailConfig -----------------------------
(***************************************************************************)
(* Where the mail sender's configuration comes from: the built-in          *)
(* defaults, the YAML file, the environment, and the settings table that   *)
(* the admin's form fills; and what that form shows.                       *)
(*                                                                         *)
(* One key of each kind stands for all of its kind: "from" and "password"  *)
(* for the texts, "auth" for the text with a list of choices, "port" for   *)
(* the numbers and "tls" for the switches. A layer is a function from the  *)
(* keys it has to what it says: typed in the file, a text in the           *)
(* environment and in the table.                                           *)
(***************************************************************************)
EXTENDS TLC

Keys == {"port", "tls", "auth", "from", "password"}

Default ==
  [port |-> 25, tls |-> FALSE, auth |-> "none", from |-> "noreply", password |-> ""]

Atoi == "25" :> 25 @@ "465" :> 465 @@ "587" :> 587

Has(layer, k) == k \in DOMAIN layer /\ layer[k] # ""

\* A text that strconv.Atoi refuses leaves the number as it is.
Number(config, layer, k) ==
  IF Has(layer, k) /\ layer[k] \in DOMAIN Atoi THEN Atoi[layer[k]] ELSE config[k]

Text(config, layer, k) == IF Has(layer, k) THEN layer[k] ELSE config[k]

\* mutant: an unset variable switches TLS off
EnvSwitchUnguarded(config, env) ==
  "tls" \in DOMAIN env /\ env["tls"] \in {"true", "1"}

EnvSwitch(config, env) ==
  IF Has(env, "tls") THEN env["tls"] \in {"true", "1"} ELSE config["tls"]

applyEnvOverrides(config, env) ==
  [k \in Keys |-> CASE k = "port" -> Number(config, env, k)
                    [] k = "tls"  -> EnvSwitch(config, env)
                    [] OTHER      -> Text(config, env, k)]

\* yaml.Unmarshal fills in the defaults what the file has, "" included.
Unmarshal(file) == [k \in Keys |-> IF k \in DOMAIN file THEN file[k] ELSE Default[k]]

Load(file, env) == applyEnvOverrides(Unmarshal(file), env)

\* The checks of the port, the workers and max_retries are about keys that no
\* layer here has.
validate(config) == config["from"] # ""

\* mutant: an empty text in the table counts
SettingUnguarded(config, settings, k) ==
  IF k \in DOMAIN settings THEN settings[k] ELSE config[k]

Setting(config, settings, k) == Text(config, settings, k)

\* The rows of the table over the loaded configuration. A row for the switch
\* counts whatever it says.
buildSenders(config, settings) ==
  [k \in Keys |->
     CASE k = "port" -> Number(config, settings, k)
       [] k = "tls"  -> IF k \in DOMAIN settings THEN settings[k] = "true" ELSE config[k]
       [] OTHER      -> Setting(config, settings, k)]

\* The mechanisms of buildAuth, which ignores case.
Mechanisms == {"plain", "PLAIN", "login", "crammd5"}

-----------------------------------------------------------------------------
(* The settings page.                                                      *)

settingVal(settings, k, fallback) == IF Has(settings, k) THEN settings[k] ELSE fallback

AuthOptions == {"none", "plain", "login", "crammd5"}

\* A select without a selected option submits its first one.
Choice(method) == IF method \in AuthOptions THEN method ELSE "none"

\* What the form holds when it is opened: the table, and for some of the keys
\* the configuration where the table has nothing.
Rendered(config, settings) ==
  [port     |-> settingVal(settings, "port", ""),
   tls      |-> IF settingVal(settings, "tls", "") = "true" THEN "true" ELSE "false",
   auth     |-> Choice(settingVal(settings, "auth", config["auth"])),
   from     |-> settingVal(settings, "from", config["from"]),
   password |-> settingVal(settings, "password", "")]
=============================================================================
