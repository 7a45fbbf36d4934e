----------------------------- MODULE SMTPDialog -----------------------------
(***************************************************************************)
(* SMTPSender.Send: one dialogue with the mail server for each attempt of  *)
(* the queue to deliver a message, from the dial to QUIT. Every command    *)
(* may be refused, or its answer lost, and ends the attempt with an error. *)
(*                                                                         *)
(* The server is not part of this code: it takes the message for all the   *)
(* recipients it accepted in this dialogue when the data ends.             *)
(***************************************************************************)
EXTENDS Naturals, Sequences, SequencesExt

CONSTANTS
  Addresses,    \* mail addresses
  MaxTo,        \* bound: addresses in the message's "to"
  MaxAttempts   \* bound: calls of Send for the message

\* What connect and buildAuth look at in an SMTPConfig
SMTPConfigs == [implicitTLS : BOOLEAN, \* Port is 465
                tls : BOOLEAN,         \* TLS
                auth : BOOLEAN]        \* buildAuth returns a mechanism

VARIABLES
  to,           \* parseRecipients(msg.To): in order, possibly with doubles
  cfg,          \* the sender's configuration in this attempt
  \* the attempt
  pc,           \* the command that comes next, or "idle"
  rcpt,         \* index of the next recipient
  open, secure, \* the connection: not closed, encrypted
  \* the server
  envelope,     \* recipients accepted in this dialogue
  copies,       \* of each address: messages the server took for it
  \* history
  attempts, result,
  exposed       \* credentials went over an unencrypted connection in this attempt

server   == <<envelope, copies>>
message  == <<to, cfg>>
vars     == <<message, pc, rcpt, open, secure, server, attempts, result, exposed>>

Recipients == ToSet(to)

Commands == {"dial", "starttls", "auth", "mail", "rcpt", "data", "write", "close", "quit"}

Init ==
  /\ to \in SeqOf(Addresses, MaxTo)
  /\ cfg \in SMTPConfigs
  /\ pc = "idle" /\ rcpt = 1
  /\ open = FALSE /\ secure = FALSE
  /\ envelope = {}
  /\ copies = [a \in Addresses |-> 0]
  /\ attempts = 0 /\ result = "none"
  /\ exposed = FALSE

-----------------------------------------------------------------------------
\* mutant: the deferred client.Close is missing
ReturnLeaving(outcome) ==
  /\ pc' = "idle"
  /\ result' = outcome
  /\ UNCHANGED <<open, secure>>

\* Send returns; client.Close is deferred, and a failing STARTTLS closes too.
Return(outcome) ==
  /\ pc' = "idle"
  /\ result' = outcome
  /\ open' = FALSE
  /\ secure' = FALSE

Goto(command) == pc' = command /\ UNCHANGED <<open, secure, result>>

\* The queue calls Send until it succeeds, each time of the sender it has then;
\* without a recipient Send fails at once.
Send(config) ==
  /\ pc = "idle"
  /\ result # "ok"
  /\ attempts < MaxAttempts
  /\ attempts' = attempts + 1
  /\ IF to = <<>> THEN Return("error") ELSE Goto("dial")
  /\ cfg' = config
  /\ rcpt' = 1
  /\ envelope' = {}
  /\ exposed' = FALSE
  /\ UNCHANGED <<to, copies>>

AfterConnect == IF cfg.auth THEN "auth" ELSE "mail"

\* mutant: TLS is taken for the implicit kind only
AfterDialPlain == AfterConnect

AfterDial == IF cfg.tls /\ ~cfg.implicitTLS THEN "starttls" ELSE AfterConnect

Dial ==
  /\ pc = "dial"
  /\ \/ Return("error")
     \/ /\ open' = TRUE /\ secure' = cfg.implicitTLS
        /\ pc' = AfterDial
        /\ UNCHANGED result
  /\ UNCHANGED <<message, rcpt, server, attempts, exposed>>

StartTLS ==
  /\ pc = "starttls"
  /\ \/ Return("error")
     \/ secure' = TRUE /\ pc' = AfterConnect /\ UNCHANGED <<open, result>>
  /\ UNCHANGED <<message, rcpt, server, attempts, exposed>>

Auth ==
  /\ pc = "auth"
  /\ exposed' = (exposed \/ ~secure)
  /\ Return("error") \/ Goto("mail")
  /\ UNCHANGED <<message, rcpt, server, attempts>>

\* MAIL, DATA and the text itself.
Following == [mail |-> "rcpt", data |-> "write", write |-> "close"]

Command ==
  /\ pc \in DOMAIN Following
  /\ Return("error") \/ Goto(Following[pc])
  /\ UNCHANGED <<message, rcpt, server, attempts, exposed>>

AfterRcpt == IF rcpt = Len(to) THEN "data" ELSE "rcpt"

\* mutant: a refused recipient is skipped
SkipRecipient == rcpt' = rcpt + 1 /\ Goto(AfterRcpt)

RefuseRecipient == Return("error") /\ UNCHANGED rcpt

Rcpt ==
  /\ pc = "rcpt"
  /\ \/ RefuseRecipient /\ UNCHANGED envelope
     \/ /\ envelope' = envelope \union {to[rcpt]}
        /\ rcpt' = rcpt + 1
        /\ Goto(AfterRcpt)
  /\ UNCHANGED <<message, copies, attempts, exposed>>

\* The data ends, the server takes the message, and the answer arrives or not.
Close ==
  /\ pc = "close"
  /\ \/ Return("error") /\ UNCHANGED copies
     \/ /\ copies' = [a \in Addresses |->
                        IF a \in envelope THEN copies[a] + 1 ELSE copies[a]]
        /\ Goto("quit") \/ Return("error")
  /\ UNCHANGED <<message, rcpt, envelope, attempts, exposed>>

\* An error of QUIT is an error of Send, although the message is delivered.
Quit ==
  /\ pc = "quit"
  /\ Return("ok") \/ Return("error")
  /\ UNCHANGED <<message, rcpt, server, attempts, exposed>>

DialogStep ==
  Dial \/ StartTLS \/ Auth \/ Command \/ Rcpt \/ Close \/ Quit

Next == (\E config \in SMTPConfigs : Send(config)) \/ DialogStep

Spec == Init /\ [][Next]_vars

-----------------------------------------------------------------------------
(* Properties.                                                             *)

\* Every variable has its type, and no attempt leaves a connection open.
TypeOK ==
  /\ to \in Seq(Addresses)
  /\ cfg \in SMTPConfigs
  /\ pc \in Commands \union {"idle"}
  /\ rcpt \in 1..Len(to) + 1
  /\ open = (pc \notin {"idle", "dial"})
  /\ secure \in BOOLEAN /\ exposed \in BOOLEAN
  /\ envelope \subseteq Recipients
  /\ \A a \in Addresses : copies[a] <= attempts
  /\ attempts \in 0..MaxAttempts
  /\ result \in {"none", "ok", "error"}

\* All recipients of a message get the same number of copies, over all
\* attempts, and what the queue marks as sent has reached them: one refused
\* address keeps the message from all the others, and a repetition after a
\* late error repeats it for all. (The converse of the second part fails: an
\* error of QUIT or a lost answer is a delivered message that the queue sends
\* again.)
AllOrNone ==
  \A a, b \in Recipients :
    copies[a] = copies[b] /\ (result = "ok" => copies[a] > 0)

\* With TLS or port 465 configured nothing is authenticated in the clear,
\* whatever the server refuses: connect gives up if STARTTLS fails.
EncryptedFirst == cfg.tls \/ cfg.implicitTLS => ~exposed
=============================================================================
