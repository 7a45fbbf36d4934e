------------------------------- MODULE MCMail -------------------------------
(* Instances of MailDelivery for TLC.                                      *)
EXTENDS MailDelivery

\* No file; a file like config.example.yaml; one that leaves "from" empty; and
\* one with an implicit-TLS port and a method that the form does not list.
MCFiles ==
  {<<>>,
   "port" :> 587 @@ "tls" :> TRUE @@ "auth" :> "plain",
   "from" :> "" @@ "password" :> "infile",
   "port" :> 465 @@ "auth" :> "PLAIN"}

\* Nothing set; everything set; and values that do not count.
MCEnvs ==
  {<<>>,
   "port" :> "25" @@ "tls" :> "1" @@ "from" :> "inenv" @@ "password" :> "inenv",
   "port" :> "x" @@ "tls" :> "" @@ "auth" :> "login" @@ "from" :> ""}

\* A new database, and one in which the admin saved a form before.
MCTables ==
  {<<>>,
   "port" :> "587" @@ "tls" :> "true" @@ "auth" :> "plain" @@ "from" :> "saved"
     @@ "password" :> "saved"}

\* The form as it is, or with one or two fields changed.
MCEdits ==
  {<<>>, "port" :> "465", "port" :> "x", "tls" :> "true", "tls" :> "false",
   "auth" :> "none", "from" :> "", "password" :> "", "password" :> "typed"}

\* Addresses are interchangeable.
Symmetry == Permutations(Addresses)
=============================================================================
