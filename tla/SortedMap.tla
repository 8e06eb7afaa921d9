------------------------------ MODULE SortedMap ------------------------------
(* What a RbTree promises to the code that uses it (TMQSettings,           *)
(* SectionAllocator): a map from keys to values. Insert of a key that is   *)
(* there changes nothing (RbTree.h:406, InsertNode fails).                 *)

CONSTANTS Keys, Values, Null

VARIABLE map

Init == map = [k \in Keys |-> Null]

InsertIfAbsent(k, v) ==
  /\ map[k] = Null
  /\ map' = [map EXCEPT ![k] = v]

Erase(k) ==
  /\ map[k] # Null
  /\ map' = [map EXCEPT ![k] = Null]

Clear == map' = [k \in Keys |-> Null]

Next ==
  \/ \E k \in Keys, v \in Values : InsertIfAbsent(k, v)
  \/ \E k \in Keys : Erase(k)
  \/ Clear

Spec == Init /\ [][Next]_map
=============================================================================
