----------------------------- MODULE MCReceivers -----------------------------
(* Receivers on small instances.                                           *)
EXTENDS Receivers, TLC

Symmetry == Permutations(Threads) \cup Permutations(Topics)
=============================================================================
