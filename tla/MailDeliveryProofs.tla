------------------------- MODULE MailDeliveryProofs -------------------------
(***************************************************************************)
(* Proofs about the mail sender, for all addresses, messages, files,       *)
(* environments and settings.                                              *)
(***************************************************************************)
EXTENDS MailDelivery, TLAPS

-----------------------------------------------------------------------------
(* The configuration.                                                      *)

\* Over what the sender was built from, saving the form as it was rendered
\* builds the same sender, but for the two keys of UntouchedFormKeeps.
LEMMA UntouchedForm ==
  ASSUME NEW c, NEW s, NEW k \in Keys, c["tls"] \in BOOLEAN
  PROVE  \/ buildSenders(c, Rendered(c, s))[k] = buildSenders(c, s)[k]
         \/ k = "tls" /\ c["tls"] /\ k \notin DOMAIN s
         \/ k = "auth" /\ buildSenders(c, s)[k] \notin AuthOptions
<1> DEFINE form == Rendered(c, s)
<1> SUFFICES \/ buildSenders(c, form)[k] = buildSenders(c, s)[k]
             \/ k = "tls" /\ c["tls"] /\ k \notin DOMAIN s
             \/ k = "auth" /\ buildSenders(c, s)[k] \notin AuthOptions
  OBVIOUS
<1>1. /\ DOMAIN form = {"port", "tls", "auth", "from", "password"}
      /\ form["port"] = settingVal(s, "port", "")
      /\ form["tls"] = (IF settingVal(s, "tls", "") = "true" THEN "true" ELSE "false")
      /\ form["auth"] = Choice(settingVal(s, "auth", c["auth"]))
      /\ form["from"] = settingVal(s, "from", c["from"])
      /\ form["password"] = settingVal(s, "password", "")
  BY DEF Rendered
<1> HIDE DEF form
<1>2. ASSUME NEW t
      PROVE  /\ buildSenders(c, t)["port"] = Number(c, t, "port")
             /\ buildSenders(c, t)["tls"] =
                  (IF "tls" \in DOMAIN t THEN t["tls"] = "true" ELSE c["tls"])
             /\ \A x \in {"auth", "from", "password"} :
                  buildSenders(c, t)[x] = Text(c, t, x)
  BY DEF buildSenders, Keys, Setting
<1>3. CASE k = "port"
  BY <1>1, <1>2, <1>3 DEF Number, Has, settingVal
<1>4. CASE k = "tls"
  BY <1>1, <1>2, <1>4 DEF Has, settingVal
<1>5. CASE k = "auth"
  BY <1>1, <1>2, <1>5 DEF Text, Has, settingVal, Choice, AuthOptions
<1>6. CASE k = "from"
  BY <1>1, <1>2, <1>6 DEF Text, Has, settingVal
<1>7. CASE k = "password"
  BY <1>1, <1>2, <1>7 DEF Text, Has, settingVal
<1> QED  BY <1>3, <1>4, <1>5, <1>6, <1>7 DEF Keys

\* The loaded configuration has a Boolean for TLS: in the file it is typed, and
\* the environment's text is compared.
LEMMA ConfigTyped == ASSUME file \in Files  PROVE config["tls"] \in BOOLEAN
<1>1. Unmarshal(file)["tls"] \in BOOLEAN
  BY FilesAssumption DEF Unmarshal, Default, Keys
<1>2. ASSUME NEW c, NEW e
      PROVE  applyEnvOverrides(c, e)["tls"] = EnvSwitch(c, e)
  BY DEF applyEnvOverrides, Keys
<1>3. config["tls"] = EnvSwitch(Unmarshal(file), env)
  BY <1>2 DEF config, Load
<1>4. ASSUME NEW c, NEW e, c["tls"] \in BOOLEAN
      PROVE  EnvSwitch(c, e) \in BOOLEAN
  <2>1. CASE Has(e, "tls")
    <3>1. EnvSwitch(c, e) = (e["tls"] \in {"true", "1"})
      BY <2>1 DEF EnvSwitch
    <3> QED  BY <3>1
  <2>2. CASE ~Has(e, "tls")
    BY <1>4, <2>2 DEF EnvSwitch
  <2> QED  BY <2>1, <2>2
<1> QED  BY <1>1, <1>3, <1>4

\* What the sender says of a key is what the last layer with an opinion of it
\* says: the three merges, one over the other, look for it from the end.
LEMMA LastOpinion ==
  ASSUME NEW f, NEW e, NEW s, NEW k \in Keys,
         "tls" \in DOMAIN s => s["tls"] \in {"true", "false"}
  PROVE  {buildSenders(Load(f, e), s)[k]} =
           IF Opinion(s, k) # {} THEN Opinion(s, k)
           ELSE IF Opinion(e, k) # {} THEN Opinion(e, k)
           ELSE IF k \in DOMAIN f THEN {f[k]} ELSE {Default[k]}
<1> DEFINE c == Load(f, e)
           u == Unmarshal(f)
<1> SUFFICES {buildSenders(c, s)[k]} =
               IF Opinion(s, k) # {} THEN Opinion(s, k)
               ELSE IF Opinion(e, k) # {} THEN Opinion(e, k)
               ELSE IF k \in DOMAIN f THEN {f[k]} ELSE {Default[k]}
  OBVIOUS
<1>1. /\ u[k] = IF k \in DOMAIN f THEN f[k] ELSE Default[k]
      /\ c = applyEnvOverrides(u, e)
  BY DEF Unmarshal, Load
<1> HIDE DEF c, u
<1>2. CASE k = "port"
  <2>1. c[k] = Number(u, e, k) /\ buildSenders(c, s)[k] = Number(c, s, k)
    BY <1>1, <1>2 DEF applyEnvOverrides, buildSenders, Keys
  <2>2. ASSUME NEW b, NEW layer
        PROVE  {Number(b, layer, k)} =
                 IF Opinion(layer, k) # {} THEN Opinion(layer, k) ELSE {b[k]}
    <3>1. CASE Has(layer, k) /\ layer[k] \in DOMAIN Atoi
      <4>1. {layer[k]} \intersect DOMAIN Atoi = {layer[k]}
        BY <3>1
      <4>2. Opinion(layer, k) = {Atoi[layer[k]]}
        BY <1>2, <3>1, <4>1 DEF Opinion
      <4> QED  BY <3>1, <4>2 DEF Number
    <3>2. CASE ~(Has(layer, k) /\ layer[k] \in DOMAIN Atoi)
      BY <1>2, <3>2 DEF Number, Opinion
    <3> QED  BY <3>1, <3>2
  <2> QED  BY <1>1, <2>1, <2>2
<1>3. CASE k = "tls"
  <2>1. /\ c[k] = EnvSwitch(u, e)
        /\ buildSenders(c, s)[k] = IF k \in DOMAIN s THEN s[k] = "true" ELSE c[k]
    BY <1>1, <1>3 DEF applyEnvOverrides, buildSenders, Keys
  <2>2. {EnvSwitch(u, e)} = IF Opinion(e, k) # {} THEN Opinion(e, k) ELSE {u[k]}
    BY <1>3 DEF EnvSwitch, Opinion
  <2>3. Opinion(s, k) = IF k \in DOMAIN s THEN {s[k] = "true"} ELSE {}
    <3>1. CASE k \in DOMAIN s
      <4>1. Has(s, k) /\ Opinion(s, k) = {s[k] \in {"true", "1"}}
        BY <1>3, <3>1 DEF Has, Opinion
      <4>2. CASE s[k] = "true"
        BY <3>1, <4>1, <4>2
      <4>3. CASE s[k] = "false"
        BY <3>1, <4>1, <4>3
      <4> QED  BY <1>3, <3>1, <4>2, <4>3
    <3>2. CASE k \notin DOMAIN s
      BY <3>2 DEF Opinion, Has
    <3> QED  BY <3>1, <3>2
  <2> QED  BY <1>1, <2>1, <2>2, <2>3
<1>4. CASE k \in {"auth", "from", "password"}
  <2>1. c[k] = Text(u, e, k) /\ buildSenders(c, s)[k] = Text(c, s, k)
    BY <1>1, <1>4 DEF applyEnvOverrides, buildSenders, Setting, Keys
  <2>2. ASSUME NEW b, NEW layer
        PROVE  {Text(b, layer, k)} =
                 IF Opinion(layer, k) # {} THEN Opinion(layer, k) ELSE {b[k]}
    BY <1>4 DEF Text, Opinion
  <2> QED  BY <1>1, <2>1, <2>2
<1> QED  BY <1>2, <1>3, <1>4 DEF Keys

\* The settings that a sender dials with are settings.
LEMMA DialledTyped ==
  ASSUME file \in Files, sender = buildSenders(config, settings)
  PROVE  Dialled(sender) \in SMTPConfigs
<1>1. sender["tls"] \in BOOLEAN
  <2>1. sender["tls"] =
          IF "tls" \in DOMAIN settings THEN settings["tls"] = "true" ELSE config["tls"]
    BY DEF buildSenders, Keys
  <2> QED  BY <2>1, ConfigTyped
<1> QED  BY <1>1 DEF Dialled, SMTPConfigs

-----------------------------------------------------------------------------
(* The dialogue.                                                           *)

Preamble == {"dial", "starttls", "auth", "mail"}
DataPhase == {"data", "write", "close", "quit"}

\* The recipients accepted so far are those before rcpt, so that all of them are
\* in the envelope when the data begins; the copies of an attempt are made at
\* its Close; and what is configured to be encrypted is so before Auth.
Dialog ==
  /\ copies \in [Addresses -> Nat]
  /\ envelope = {to[i] : i \in 1..rcpt - 1}
  /\ pc # "idle" => to # <<>>
  /\ pc \in Preamble => rcpt = 1
  /\ pc = "rcpt" => rcpt \in 1..Len(to)
  /\ pc \in DataPhase => rcpt = Len(to) + 1
  /\ pc \notin {"idle", "quit"} => \A a \in Addresses : copies[a] < attempts
  /\ pc = "quit" => \A a \in Recipients : copies[a] > 0
  /\ pc = "auth" => (cfg.tls \/ cfg.implicitTLS => secure)

IInv == TypeOK /\ Dialog /\ AllOrNone /\ EncryptedFirst

\* When the data begins, the envelope has every recipient.
LEMMA Complete ==
  ASSUME TypeOK, Dialog, pc \in DataPhase
  PROVE  envelope = Recipients
<1>1. to \in Seq(Addresses) /\ DOMAIN to = 1..Len(to) /\ Len(to) \in Nat
  BY DEF TypeOK
<1>2. rcpt - 1 = Len(to)
  BY <1>1 DEF Dialog
<1> QED  BY <1>1, <1>2 DEF Dialog, Recipients, ToSet

\* The end of an attempt, by Return, leaves the rest of the dialogue alone.
LEMMA ReturnStep ==
  ASSUME IInv, NEW outcome \in {"ok", "error"}, Return(outcome),
         UNCHANGED <<message, rcpt, server, attempts>>,
         exposed' \in BOOLEAN, EncryptedFirst',
         outcome = "ok" => pc = "quit"
  PROVE  IInv'
<1> USE DEF message, server
<1>1. TypeOK'
  BY DEF IInv, TypeOK, Return, Recipients, ToSet, Commands
<1>2. Dialog'
  BY DEF IInv, Dialog, Return, Recipients, ToSet, Preamble, DataPhase
<1>3. AllOrNone'
  BY DEF IInv, AllOrNone, Dialog, Return, Recipients, ToSet
<1> QED  BY <1>1, <1>2, <1>3 DEF IInv

\* An attempt starts from nothing.
LEMMA SendStep ==
  ASSUME IInv, NEW c \in SMTPConfigs, Send(c)
  PROVE  IInv'
<1> USE DEF Return, Goto
<1>1. TypeOK'
  <2>1. /\ copies' = copies /\ attempts' = attempts + 1
        /\ attempts \in Nat /\ attempts' \in 0..MaxAttempts
    BY BoundsAssumption DEF IInv, TypeOK, Send
  <2>2. \A a \in Addresses : copies'[a] <= attempts'
    BY <2>1 DEF IInv, TypeOK, Dialog
  <2>3. /\ to' = to /\ rcpt' = 1 /\ envelope' = {} /\ cfg' = c /\ exposed' = FALSE
        /\ Recipients' = Recipients /\ to \in Seq(Addresses)
    BY DEF IInv, TypeOK, Send, Recipients, ToSet
  <2>4. /\ pc' \in Commands \union {"idle"} /\ result' \in {"none", "ok", "error"}
        /\ open' = (pc' \notin {"idle", "dial"}) /\ secure' \in BOOLEAN
    <3>1. CASE to = <<>>
      BY <3>1 DEF IInv, TypeOK, Send
    <3>2. CASE to # <<>>
      BY <3>2 DEF IInv, TypeOK, Send, Commands
    <3> QED  BY <3>1, <3>2
  <2>5. rcpt' \in 1..Len(to') + 1
    BY <2>3
  <2> QED  BY <2>1, <2>2, <2>3, <2>4, <2>5, Zenon DEF TypeOK
<1>2. Dialog'
  BY DEF IInv, TypeOK, Send, Recipients, ToSet, Dialog, Preamble, DataPhase
<1>3. AllOrNone'
  BY DEF IInv, AllOrNone, Send, Recipients, ToSet
<1>4. EncryptedFirst'
  BY DEF Send, EncryptedFirst
<1> QED  BY <1>1, <1>2, <1>3, <1>4 DEF IInv


\* The steps that neither end the attempt nor touch the server.
LEMMA DialStep == ASSUME IInv, Dial  PROVE IInv'
<1>1. CASE Return("error")
  BY <1>1, ReturnStep DEF IInv, TypeOK, Dial, EncryptedFirst, message
<1>2. CASE ~Return("error")
  <2>1. /\ pc = "dial" /\ open' = TRUE /\ secure' = cfg.implicitTLS /\ pc' = AfterDial
        /\ UNCHANGED <<to, cfg, rcpt, envelope, copies, attempts, exposed, result>>
    BY <1>2 DEF Dial, message, server
  <2>2. cfg.implicitTLS \in BOOLEAN /\ cfg.tls \in BOOLEAN
    BY DEF IInv, TypeOK, SMTPConfigs
  <2>3. /\ pc' \in {"starttls", "auth", "mail"}
        /\ pc' = "auth" => (cfg.tls \/ cfg.implicitTLS => cfg.implicitTLS)
    BY <2>1, <2>2 DEF AfterDial, AfterConnect
  <2>4. TypeOK'
    BY <2>1, <2>2, <2>3 DEF IInv, TypeOK, Recipients, ToSet, Commands
  <2>5. Dialog'
    BY <2>1, <2>2, <2>3 DEF IInv, Dialog, Recipients, ToSet, Preamble, DataPhase
  <2> QED  BY <2>1, <2>4, <2>5 DEF IInv, AllOrNone, EncryptedFirst, Recipients, ToSet
<1> QED  BY <1>1, <1>2

\* After STARTTLS the dialogue is encrypted, or the attempt ends.
LEMMA StartTLSStep == ASSUME IInv, StartTLS  PROVE IInv'
<1>1. CASE Return("error")
  BY <1>1, ReturnStep DEF IInv, TypeOK, StartTLS, EncryptedFirst, message
<1>2. CASE ~Return("error")
  <2>1. /\ pc = "starttls" /\ secure' = TRUE /\ pc' \in {"auth", "mail"}
        /\ UNCHANGED <<to, cfg, rcpt, envelope, copies, attempts, exposed, open, result>>
    BY <1>2 DEF StartTLS, message, server, AfterConnect
  <2>2. TypeOK'
    BY <2>1 DEF IInv, TypeOK, Recipients, ToSet, Commands
  <2>3. Dialog'
    BY <2>1 DEF IInv, Dialog, Recipients, ToSet, Preamble, DataPhase
  <2> QED  BY <2>1, <2>2, <2>3 DEF IInv, AllOrNone, EncryptedFirst, Recipients, ToSet
<1> QED  BY <1>1, <1>2

\* The login exposes nothing that was not to be sent.
LEMMA AuthStep == ASSUME IInv, Auth  PROVE IInv'
<1>1. exposed' \in BOOLEAN /\ EncryptedFirst'
  BY DEF IInv, TypeOK, Dialog, Auth, EncryptedFirst, message
<1>2. CASE Return("error")
  BY <1>1, <1>2, ReturnStep DEF Auth
<1>3. CASE Goto("mail")
  <2>1. /\ pc = "auth" /\ pc' = "mail"
        /\ UNCHANGED <<to, cfg, rcpt, envelope, copies, attempts, open, secure, result>>
    BY <1>3 DEF Auth, Goto, message, server
  <2>2. TypeOK'
    BY <1>1, <2>1 DEF IInv, TypeOK, Recipients, ToSet, Commands
  <2>3. Dialog'
    BY <2>1 DEF IInv, Dialog, Recipients, ToSet, Preamble, DataPhase
  <2> QED  BY <1>1, <2>1, <2>2, <2>3 DEF IInv, AllOrNone, Recipients, ToSet
<1> QED  BY <1>2, <1>3 DEF Auth

\* MAIL and DATA move the dialogue on or end it.
LEMMA CommandStep == ASSUME IInv, Command  PROVE IInv'
<1>1. CASE Return("error")
  BY <1>1, ReturnStep DEF IInv, TypeOK, Command, EncryptedFirst, message
<1>2. CASE Goto(Following[pc])
  <2>1. /\ \/ pc = "mail" /\ pc' = "rcpt"
           \/ pc = "data" /\ pc' = "write"
           \/ pc = "write" /\ pc' = "close"
        /\ UNCHANGED <<to, cfg, rcpt, envelope, copies, attempts, exposed, open, secure,
                       result>>
    BY <1>2 DEF Command, Goto, Following, message, server
  <2>2. TypeOK'
    BY <2>1 DEF IInv, TypeOK, Recipients, ToSet, Commands
  <2>3. to # <<>> /\ to \in Seq(Addresses) => 1 \in 1..Len(to)
    OBVIOUS
  <2>4. Dialog'
    BY <2>1, <2>3 DEF IInv, TypeOK, Dialog, Recipients, ToSet, Preamble, DataPhase
  <2> QED  BY <2>1, <2>2, <2>4 DEF IInv, AllOrNone, EncryptedFirst, Recipients, ToSet
<1> QED  BY <1>1, <1>2 DEF Command

\* A recipient joins the envelope, or the attempt ends.
LEMMA RcptStep == ASSUME IInv, Rcpt  PROVE IInv'
<1>1. CASE RefuseRecipient /\ UNCHANGED envelope
  BY <1>1, ReturnStep
  DEF IInv, TypeOK, Rcpt, RefuseRecipient, EncryptedFirst, message, server
<1>2. CASE ~(RefuseRecipient /\ UNCHANGED envelope)
  <2>1. /\ pc = "rcpt" /\ pc' = AfterRcpt
        /\ envelope' = envelope \union {to[rcpt]} /\ rcpt' = rcpt + 1
        /\ UNCHANGED <<to, cfg, copies, attempts, exposed, open, secure, result>>
    BY <1>2 DEF Rcpt, Goto, message
  <2>2. /\ to \in Seq(Addresses) /\ Len(to) \in Nat /\ DOMAIN to = 1..Len(to)
        /\ rcpt \in 1..Len(to) /\ Recipients' = Recipients
    BY <2>1 DEF IInv, TypeOK, Dialog, Recipients, ToSet
  <2>3. \/ pc' = "data" /\ rcpt' = Len(to) + 1
        \/ pc' = "rcpt" /\ rcpt' \in 1..Len(to)
    <3>1. CASE rcpt = Len(to)
      BY <2>1, <3>1 DEF AfterRcpt
    <3>2. CASE rcpt # Len(to)
      <4>1. \A n \in Nat : \A i \in 1..n : i # n => i + 1 \in 1..n
        OBVIOUS
      <4>2. rcpt + 1 \in 1..Len(to)
        BY <2>2, <3>2, <4>1, Zenon
      <4> QED  BY <2>1, <3>2, <4>2 DEF AfterRcpt
    <3> QED  BY <3>1, <3>2
  <2>4. envelope' = {to[i] : i \in 1..rcpt' - 1}
    <3>1. 1..rcpt' - 1 = (1..rcpt - 1) \union {rcpt}
      BY <2>1, <2>2
    <3>2. envelope = {to[i] : i \in 1..rcpt - 1}
      BY DEF IInv, Dialog
    <3> QED  BY <2>1, <3>1, <3>2
  <2>5. TypeOK'
    <3>1. envelope' \subseteq Recipients'
      BY <2>1, <2>2 DEF IInv, TypeOK, Recipients, ToSet
    <3> QED  BY <2>1, <2>2, <2>3, <3>1 DEF IInv, TypeOK, Commands
  <2>6. Dialog'
    BY <2>1, <2>2, <2>3, <2>4 DEF IInv, Dialog, Preamble, DataPhase
  <2> QED  BY <2>1, <2>2, <2>5, <2>6 DEF IInv, AllOrNone, EncryptedFirst
<1> QED  BY <1>1, <1>2


\* The server takes the message for the whole envelope, and the answer arrives
\* or not.
LEMMA CloseStep == ASSUME IInv, Close  PROVE IInv'
<1>1. CASE Return("error") /\ UNCHANGED copies
  BY <1>1, ReturnStep DEF IInv, TypeOK, Close, EncryptedFirst, message, server
<1>2. CASE ~(Return("error") /\ UNCHANGED copies)
  <2>1. /\ pc = "close"
        /\ copies' = [a \in Addresses |-> IF a \in envelope THEN copies[a] + 1 ELSE copies[a]]
        /\ Goto("quit") \/ Return("error")
        /\ UNCHANGED <<to, cfg, rcpt, envelope, attempts, exposed>>
        /\ Recipients' = Recipients
    BY <1>2 DEF Close, message, Recipients, ToSet
  <2>2. envelope = Recipients
    BY <2>1, Complete DEF IInv, DataPhase
  <2>3. /\ copies \in [Addresses -> Nat] /\ copies' \in [Addresses -> Nat]
        /\ \A a \in Addresses : copies[a] < attempts
        /\ attempts \in Nat
    BY <2>1 DEF IInv, TypeOK, Dialog
  <2>4. Recipients \subseteq Addresses
    BY DEF IInv, TypeOK, Recipients, ToSet
  <2>5. \A a \in Recipients : copies'[a] = copies[a] + 1
    BY <2>1, <2>2, <2>3, <2>4
  <2>6. \A a \in Addresses : copies'[a] <= attempts'
    BY <2>1, <2>3
  <2>7. \A a \in Recipients : copies'[a] > 0
    BY <2>3, <2>4, <2>5
  <2>8. TypeOK'
    BY <2>1, <2>6 DEF IInv, TypeOK, Goto, Return, Commands
  <2>9. Dialog'
    BY <2>1, <2>3, <2>7 DEF IInv, Dialog, Goto, Return, Preamble, DataPhase
  <2>10. AllOrNone'
    BY <2>1, <2>5, <2>7 DEF IInv, AllOrNone
  <2> QED  BY <2>1, <2>8, <2>9, <2>10 DEF IInv, EncryptedFirst
<1> QED  BY <1>1, <1>2

\* Whatever QUIT answers, the result stands.
LEMMA QuitStep == ASSUME IInv, Quit  PROVE IInv'
  BY ReturnStep DEF IInv, TypeOK, Quit, EncryptedFirst, message

\* Every step of the dialogue preserves its invariant.
LEMMA DialogStepStep == ASSUME IInv, DialogStep  PROVE IInv'
  BY DialStep, StartTLSStep, AuthStep, CommandStep, RcptStep, CloseStep, QuitStep
  DEF DialogStep

\* And so does no step.
LEMMA Stutter == ASSUME IInv, UNCHANGED vars  PROVE IInv'
  BY DEF IInv, TypeOK, Dialog, AllOrNone, EncryptedFirst, Recipients, ToSet, vars, message,
         server, Preamble, DataPhase

-----------------------------------------------------------------------------
(* The composition.                                                        *)

\* What is installed has been built from the layers and the table.
Installed == file \in Files /\ saves \in Nat /\ sender = buildSenders(config, settings)

\* A switch is always written as one of the two options.
Switches ==
  /\ "tls" \in DOMAIN settings => settings["tls"] \in {"true", "false"}
  /\ \A form \in page : "tls" \in DOMAIN form /\ form["tls"] \in {"true", "false"}

\* The tables of the beginning have the switch as the page offers it.
LEMMA SwitchesInit == MailInit => Switches
  BY SwitchAssumption DEF MailInit, Switches

\* The page renders the switch as one of its options, and saves only those.
LEMMA SwitchesStep == Switches /\ [MailNext]_allVars => Switches'
<1> SUFFICES ASSUME Switches, [MailNext]_allVars  PROVE Switches'
  OBVIOUS
<1>1. CASE OpenSettings
  <2> DEFINE form == Rendered(config, settings)
  <2>1. "tls" \in DOMAIN form /\ form["tls"] \in {"true", "false"}
    BY DEF Rendered
  <2> HIDE DEF form
  <2>2. page' = {form} /\ settings' = settings
    BY <1>1 DEF OpenSettings, form
  <2> QED  BY <2>1, <2>2 DEF Switches
<1>2. ASSUME NEW edit \in Edits, SaveChannels(edit)  PROVE Switches'
  <2>1. PICK form \in page :
          settings' = [k \in Keys |-> IF k \in DOMAIN edit THEN edit[k] ELSE form[k]]
    BY <1>2 DEF SaveChannels
  <2>2. settings'["tls"] = IF "tls" \in DOMAIN edit THEN edit["tls"] ELSE form["tls"]
    BY <2>1 DEF Keys
  <2>3. settings'["tls"] \in {"true", "false"}
    BY <2>2, SwitchAssumption DEF Switches
  <2>4. page' = page
    BY <1>2 DEF SaveChannels
  <2> QED  BY <2>3, <2>4 DEF Switches
<1>3. CASE UNCHANGED <<settings, page>>
  BY <1>3 DEF Switches
<1> QED
  BY <1>1, <1>2, <1>3 DEF MailNext, Attempt, Restart, allVars, mailVars

\* Initially no attempt is on, and the sender is the one of the settings.
LEMMA InitCorrect == MailInit => IInv /\ Installed
<1> SUFFICES ASSUME MailInit  PROVE IInv /\ Installed
  OBVIOUS
<1>1. to \in Seq(Addresses)
  <2>1. PICK n \in 0..MaxTo : to \in [1..n -> Addresses]
    BY DEF MailInit, Init, SeqOf
  <2> QED  BY <2>1, BoundsAssumption
<1>2. TypeOK
  <2>1. 1 \in 1..Len(to) + 1 /\ 0 \in 0..MaxAttempts
    BY <1>1, BoundsAssumption
  <2>2. \A a \in Addresses : copies[a] <= attempts
    BY DEF MailInit, Init
  <2> QED  BY <1>1, <2>1, <2>2 DEF MailInit, Init, TypeOK, Commands
<1>3. Dialog /\ AllOrNone /\ EncryptedFirst
  BY <1>1 DEF MailInit, Init, Dialog, AllOrNone, EncryptedFirst, Recipients, ToSet,
              Preamble, DataPhase
<1> QED  BY <1>2, <1>3 DEF IInv, Installed, MailInit

\* The installed sender is always one that was built from the settings.
LEMMA InstalledStep == Installed /\ [MailNext]_allVars => Installed'
  BY DEF Installed, MailNext, Attempt, OpenSettings, SaveChannels, Restart, allVars, mailVars,
         layers, config

\* Every step of the program preserves the dialogue's invariant.
LEMMA Step == IInv /\ Installed /\ [MailNext]_allVars => IInv'
<1> SUFFICES ASSUME IInv, Installed, [MailNext]_allVars  PROVE IInv'
  OBVIOUS
<1>1. CASE Attempt
  BY <1>1, SendStep, DialledTyped, DialogStepStep DEF Attempt, Installed
<1>2. CASE Restart
  <2>1. CASE pc = "idle"
    BY <1>2, <2>1, Stutter DEF Restart, vars, message
  <2>2. CASE pc # "idle"
    BY <1>2, <2>2, ReturnStep DEF Restart, IInv, TypeOK, EncryptedFirst, message
  <2> QED  BY <2>1, <2>2
<1>3. CASE UNCHANGED vars
  BY <1>3, Stutter
<1> QED  BY <1>1, <1>2, <1>3 DEF MailNext, OpenSettings, SaveChannels, allVars

\* The types of the dialogue's variables, and no connection is left open, also
\* when a restart cuts the dialogue.
THEOREM TypeCorrect == MailSpec => []TypeOK
<1>1. IInv => TypeOK
  BY DEF IInv
<1> QED  BY <1>1, InitCorrect, InstalledStep, Step, PTL DEF MailSpec

\* All recipients have equally many copies, at least one if the message is
\* marked as sent, whatever the server refuses in whatever attempt, and however
\* the sender is changed between attempts.
THEOREM AllOrNoneCorrect == MailSpec => []AllOrNone
<1>1. IInv => AllOrNone
  BY DEF IInv
<1> QED  BY <1>1, InitCorrect, InstalledStep, Step, PTL DEF MailSpec

\* Credentials never cross a connection that the configuration of the attempt
\* wants encrypted and that is not.
THEOREM EncryptedFirstCorrect == MailSpec => []EncryptedFirst
<1>1. IInv => EncryptedFirst
  BY DEF IInv
<1> QED  BY <1>1, InitCorrect, InstalledStep, Step, PTL DEF MailSpec

\* The sender uses for each key the last usable value among defaults, file,
\* environment and table, for all their contents and after any series of saves
\* and restarts.
THEOREM LaterOverridesCorrect == MailSpec => []LaterOverridesEarlier
<1>1. ASSUME Installed, Switches  PROVE LaterOverridesEarlier
  <2> SUFFICES ASSUME NEW k \in Keys
               PROVE  LET inFile == IF k \in DOMAIN file THEN {file[k]} ELSE {}
                          said == <<{Default[k]}, inFile, Opinion(env, k),
                                    Opinion(settings, k)>>
                      IN \E last \in 1..4 : /\ said[last] = {sender[k]}
                                            /\ \A later \in last+1..4 : said[later] = {}
    BY DEF LaterOverridesEarlier
  <2> DEFINE inFile == IF k \in DOMAIN file THEN {file[k]} ELSE {}
             said == <<{Default[k]}, inFile, Opinion(env, k), Opinion(settings, k)>>
  <2>1. {sender[k]} = IF said[4] # {} THEN said[4]
                      ELSE IF said[3] # {} THEN said[3]
                      ELSE IF said[2] # {} THEN said[2] ELSE said[1]
    BY <1>1, LastOpinion DEF Installed, Switches, config
  <2> HIDE DEF said
  <2>2. \E last \in 1..4 : /\ said[last] = {sender[k]}
                           /\ \A later \in last+1..4 : said[later] = {}
    <3>1. CASE said[4] # {}
      BY <2>1, <3>1
    <3>2. CASE said[4] = {} /\ said[3] # {}
      BY <2>1, <3>2
    <3>3. CASE said[4] = {} /\ said[3] = {} /\ said[2] # {}
      BY <2>1, <3>3
    <3>4. CASE said[4] = {} /\ said[3] = {} /\ said[2] = {}
      BY <2>1, <3>4
    <3> QED  BY <3>1, <3>2, <3>3, <3>4
  <2> QED  BY <2>2 DEF said
<1> QED
  BY <1>1, InitCorrect, InstalledStep, SwitchesInit, SwitchesStep, PTL DEF MailSpec

\* For every file, environment and table: saving the untouched form changes
\* the sender in the two ways only that UntouchedFormKeeps names.
THEOREM UntouchedFormCorrect == MailSpec => UntouchedFormKeeps
<1> DEFINE Keeps ==
      saves' = saves + 1 /\ settings' = Rendered(config, settings) =>
        \A k \in Keys :
          \/ sender'[k] = sender[k]
          \/ k = "tls" /\ config["tls"] /\ k \notin DOMAIN settings
          \/ k = "auth" /\ sender[k] \notin AuthOptions
<1>1. ASSUME Installed, MailNext  PROVE Keeps
  <2>1. CASE \E edit \in Edits : SaveChannels(edit)
    <3>1. sender' = buildSenders(config, settings')
      BY <2>1 DEF SaveChannels, layers, config
    <3> QED  BY <1>1, <3>1, ConfigTyped, UntouchedForm DEF Installed
  <2>2. CASE saves' = saves
    BY <1>1, <2>2 DEF Installed
  <2> QED  BY <1>1, <2>1, <2>2 DEF MailNext, Attempt, OpenSettings, Restart
<1>2. Installed /\ [MailNext]_allVars => [Keeps]_allVars
  <2> HIDE DEF Keeps
  <2> QED  BY <1>1
<1> QED  BY <1>2, InitCorrect, InstalledStep, PTL DEF MailSpec, UntouchedFormKeeps
=============================================================================
