------------------------------ MODULE MCKThread ------------------------------
(***************************************************************************)
(* KThread on small instances: the pages of Threads other than Main are    *)
(* interchangeable.                                                        *)
(***************************************************************************)
EXTENDS KThread, TLC

PageSymmetry == Permutations(Threads \ {Main})
=============================================================================
