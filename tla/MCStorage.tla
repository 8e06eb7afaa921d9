----------------------------- MODULE MCStorage -----------------------------
(* The storage with messages of two lengths.  crossed is never reset, and  *)
(* the properties promise nothing after it: the run need not look further. *)
EXTENDS Storage

Uncrossed == ~crossed
=============================================================================
