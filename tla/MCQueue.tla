------------------------------ MODULE MCQueue ------------------------------
(***************************************************************************)
(* The delivery queue on small instances. The configurations choose the    *)
(* number of rows and workers, the retry limit and how many stops, failing *)
(* UPDATEs and Retry posts are explored.                                   *)
(***************************************************************************)
EXTENDS QueueRefinement, TLC

\* Rows and workers are interchangeable; not used with liveness.
Symmetry == Permutations(Msgs) \union Permutations(Workers)
=============================================================================
