----------------------------- MODULE MCSections -----------------------------
(* Two section spaces on one file.                                         *)
EXTENDS Sections
=============================================================================
