----------------------------- MODULE MessagePool -----------------------------
(***************************************************************************)
(* What a priority queue of the message pool promises: messages wait in    *)
(* the order of their Enqueue, and a Lookup that succeeds takes the oldest *)
(* waiting message its iterator wants, which nobody gets a second time.    *)
(***************************************************************************)
EXTENDS FiniteSetsExt, Sequences, Naturals

CONSTANTS
  Iterators,   \* the pickers and history iterators of the pool
  Values,      \* what a message is compared by: its topic and type
  Wants        \* [Iterators -> SUBSET Values]: what OnCompare accepts

VARIABLES
  waiting,     \* numbers of the messages in the pool, in order of Enqueue
  kind,        \* the values of the messages so far, in that order
  got          \* iterator |-> the message its last successful Lookup took

vars == <<waiting, kind, got>>

Init ==
  /\ waiting = {}
  /\ kind = <<>>
  /\ got = [i \in Iterators |-> 0]

Put(v) ==
  /\ kind' = Append(kind, v)
  /\ waiting' = waiting \cup {Len(kind) + 1}
  /\ UNCHANGED got

Wanted(i) == {m \in waiting : kind[m] \in Wants[i]}

Get(i) ==
  /\ Wanted(i) # {}
  /\ LET m == Min(Wanted(i)) IN
       /\ waiting' = waiting \ {m}
       /\ got' = [got EXCEPT ![i] = m]
  /\ UNCHANGED kind

Next ==
  \/ \E v \in Values : Put(v)
  \/ \E i \in Iterators : Get(i)

Spec == Init /\ [][Next]_vars
=============================================================================
