------------------------------ MODULE MCRCQueue ------------------------------
(* RCQueue on small instances.                                             *)
EXTENDS RCQueue, TLC

CONSTANTS p1, p2, c1, c2, a, b

(* Two pickers with an iterator each: both take every message, or the      *)
(* second one is an overview, which takes none (GetHistory).               *)
MCConsumers     == {c1, c2}
MCUses          == [c \in MCConsumers |-> c]
MCSameWants     == [c \in MCConsumers |-> {a}]
MCOverviewWants == [c \in MCConsumers |-> IF c = c1 THEN {a} ELSE {}]

(* The picker of the dispatcher, which its executors share.                *)
MCSharedUses  == [c \in MCConsumers |-> c1]
MCSharedWants == [i \in {c1} |-> {a}]

Symmetry == Permutations({c1, c2}) \cup Permutations({p1, p2})

(* Two producers are inside Enqueue together for the first two nodes only: *)
(* the third one comes behind what was linked and cleared by then.         *)
OneAtATimeLater ==
  Len(kind) <= 2 \/ \A p, q \in Producers :
                       p = q \/ pc[p] = "idle" \/ pc[q] = "idle"

(* The access of a nullptr ends the process.                               *)
NotCrashed == \A c \in Consumers : Nil \notin TouchedBy(c)
=============================================================================
