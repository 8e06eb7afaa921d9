----------------------------- MODULE IDGenerator -----------------------------
(***************************************************************************)
(* The ids of messages: a generator that the first callers create at the   *)
(* same time, and a counter that starts again at ID_INT_MAX.               *)
(***************************************************************************)
EXTENDS Naturals

CONSTANTS
  Threads, None,
  IntMax,       \* ID_INT_MAX
  MaxId         \* bound: nobody calls GetMsgId beyond this id

ASSUME IDGeneratorAssumption ==
  /\ None \notin Threads
  /\ IntMax \in Nat \ {0, 1} /\ MaxId \in Nat

VARIABLES
  inst,         \* the thread whose generator is the instance
  mid,          \* the counters of the generators
  pc,
  generator,    \* what GetInstance returned to a thread
  issued,       \* ids returned since the counter was last set (history)
  again         \* whether one of them was returned twice (history)

vars == <<inst, mid, pc, generator, issued, again>>

-----------------------------------------------------------------------------
IntMin == 1      \* ID_INT_MIN

Init ==
  /\ inst = None
  /\ mid = [t \in Threads |-> 0]
  /\ pc = [t \in Threads |-> "idle"]
  /\ generator = [t \in Threads |-> None]
  /\ issued = {} /\ again = FALSE

Go(t, from, to) == pc[t] = from /\ pc' = [pc EXCEPT ![t] = to]

Return(id) ==
  /\ issued' = issued \cup {id}
  /\ again' = (again \/ id \in issued)

(* GetInstance, which finds an instance ...                                *)
GetInstance(t) ==
  /\ Go(t, "idle", "add")
  /\ inst # None /\ mid[inst] < MaxId
  /\ generator' = [generator EXCEPT ![t] = inst]
  /\ UNCHANGED <<inst, mid, issued, again>>

(* ... or makes one ...                                                    *)
NewInstance(t) ==
  /\ Go(t, "idle", "assign")
  /\ inst = None
  /\ UNCHANGED <<inst, mid, generator, issued, again>>

(* Mutant: the assignment does not compare.                                *)
AssignInstanceAnyway(t) ==
  /\ Go(t, "assign", "add")
  /\ inst' = t
  /\ generator' = [generator EXCEPT ![t] = t]
  /\ UNCHANGED <<mid, issued, again>>

(* ... and keeps it only if nobody was faster.                             *)
AssignInstance(t) ==
  /\ Go(t, "assign", "add")
  /\ inst' = IF inst = None THEN t ELSE inst
  /\ generator' = [generator EXCEPT ![t] = inst']
  /\ UNCHANGED <<mid, issued, again>>

(* GetMsgId: add_and_fetch ...                                             *)
AddAndFetch(t) ==
  LET value == mid[generator[t]] + 1 IN
  /\ pc[t] = "add"
  /\ mid' = [mid EXCEPT ![generator[t]] = value]
  /\ IF value = IntMax
       THEN Go(t, "add", "set") /\ UNCHANGED <<issued, again>>
       ELSE Go(t, "add", "idle") /\ Return(value)
  /\ UNCHANGED <<inst, generator>>

(* ... and at ID_INT_MAX SetMsgId(ID_INT_MIN), whose CAS loop stores it in *)
(* the end, whatever has been added since.                                 *)
SetMsgId(t) ==
  /\ Go(t, "set", "idle")
  /\ mid' = [mid EXCEPT ![generator[t]] = IntMin]
  /\ issued' = {IntMin} /\ UNCHANGED again
  /\ UNCHANGED <<inst, generator>>

Next == \E t \in Threads :
  \/ GetInstance(t) \/ NewInstance(t) \/ AssignInstance(t)
  \/ AddAndFetch(t) \/ SetMsgId(t)

Spec == Init /\ [][Next]_vars

-----------------------------------------------------------------------------
(* Type invariant; the ids returned are at least ID_INT_MIN, so none of    *)
(* them is taken for ID_LONG_INVALID, which is negative.                   *)
TypeOK ==
  /\ inst \in Threads \cup {None}
  /\ mid \in [Threads -> Nat]
  /\ pc \in [Threads -> {"idle", "assign", "add", "set"}]
  /\ generator \in [Threads -> Threads \cup {None}]
  /\ issued \subseteq {n \in Nat : n >= IntMin}
  /\ again \in BOOLEAN

(* Until the counter starts again no id is returned twice, however the     *)
(* first calls raced to create the generator.                              *)
NeverAgain == ~again

(* "if the id increases to the ID_INT_MAX, it will start all over again"   *)
(* (IDGenerator.cpp:72): no id beyond it is returned.                      *)
StartsAgain == \A id \in issued : id <= IntMax
=============================================================================
