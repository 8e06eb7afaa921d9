---------------------------- MODULE MCIDGenerator ----------------------------
(* IDGenerator on small instances.                                         *)
EXTENDS IDGenerator, TLC

Symmetry == Permutations(Threads)
=============================================================================
