------------------------------ MODULE MCRWMutex ------------------------------
(* RWMutex on small instances.                                             *)
EXTENDS RWMutex, TLC

Symmetry == Permutations(Threads)
=============================================================================
