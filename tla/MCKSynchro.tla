------------------------------ MODULE MCKSynchro -----------------------------
(***************************************************************************)
(* KSynchro on small instances.                                            *)
(***************************************************************************)
EXTENDS KSynchro

Symmetry == Permutations(Threads \ {Main}) \cup Permutations(Mutexes) \cup Permutations(Barriers)
=============================================================================
