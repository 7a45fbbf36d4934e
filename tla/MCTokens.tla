------------------------------ MODULE MCTokens ------------------------------
(* Instances of TokenRegistry for TLC.                                     *)
EXTENDS TokenRegistry, TLC

\* Tokens, requests and connections are interchangeable.
Symmetry ==
  Permutations(Tokens) \union Permutations(Requests) \union Permutations(Conns)
=============================================================================
