----------------------------- MODULE MCLinking -----------------------------
(* Instances of WhatsAppLinking for TLC.                                   *)
EXTENDS WhatsAppLinking, TLC

\* Link requests are interchangeable, and so are disconnect requests.
Symmetry == Permutations(Links) \union Permutations(Disconnects)
=============================================================================
