------------------------------ MODULE MCPages ------------------------------
(* Instances of QueuePages for TLC.                                        *)
EXTENDS QueuePages, TLC

\* Two tokens, one of them with two rows of five; a third is never used.
MCOwner == 1 :> "t1" @@ 2 :> "t2" @@ 3 :> "t1" @@ 4 :> "t2" @@ 5 :> "t2"
=============================================================================
