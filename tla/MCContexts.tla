----------------------------- MODULE MCContexts ------------------------------
(* Contexts on small instances.                                            *)
EXTENDS Contexts

=============================================================================
