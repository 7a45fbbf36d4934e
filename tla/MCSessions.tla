----------------------------- MODULE MCSessions -----------------------------
(* Instances of AdminSessions for TLC.                                     *)
EXTENDS AdminSessions, TLC

\* No cookie, token or change is told apart from another.
Symmetry == Permutations(Cookies) \union Permutations(Tokens) \union Permutations(Changes)
=============================================================================
