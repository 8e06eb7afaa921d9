----------------------------- MODULE MCExecutors -----------------------------
(* Executors on small instances.                                           *)
EXTENDS Executors, TLC

Symmetry == Permutations(Publishers)
=============================================================================
