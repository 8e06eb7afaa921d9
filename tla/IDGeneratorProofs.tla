-------------------------- MODULE IDGeneratorProofs --------------------------
(***************************************************************************)
(* Proofs about the ids of messages, for every number of threads and every *)
(* ID_INT_MAX.                                                             *)
(*                                                                         *)
(* NeverAgain is not inductive: it needs that all threads which are going  *)
(* to add do so at the instance (Shared), and that the counter of the      *)
(* instance is at least every id returned since it was set (Behind).       *)
(***************************************************************************)
EXTENDS IDGenerator, TLAPS

(* A thread that has left GetInstance holds the instance.                  *)
Shared ==
  \A t \in Threads : pc[t] \in {"add", "set"} =>
    inst \in Threads /\ generator[t] = inst

(* Ids are returned by the instance only, in ascending order.              *)
Behind ==
  /\ inst = None => issued = {}
  /\ inst \in Threads => \A id \in issued : id <= mid[inst]

IInv == TypeOK /\ Shared /\ Behind /\ NeverAgain

(* Nothing has been returned at the start.                                 *)
THEOREM InitIInv == Init => IInv
  <1> SUFFICES ASSUME Init PROVE IInv
    OBVIOUS
  <1>1. TypeOK
    BY DEF Init, TypeOK
  <1>2. Shared /\ Behind
    BY IDGeneratorAssumption DEF Init, Shared, Behind
  <1>3. QED
    BY <1>1, <1>2 DEF Init, IInv, NeverAgain

(* A thread looks at the instance.                                         *)
LEMMA GetInstanceStep ==
  ASSUME IInv, NEW t \in Threads, GetInstance(t)
  PROVE  IInv'
  BY IDGeneratorAssumption
  DEF IInv, TypeOK, Shared, Behind, NeverAgain, GetInstance, Go

(* A thread finds no instance yet.                                          *)
LEMMA NewInstanceStep ==
  ASSUME IInv, NEW t \in Threads, NewInstance(t)
  PROVE  IInv'
  BY DEF IInv, TypeOK, Shared, Behind, NeverAgain, NewInstance, Go

(* The compare-and-set changes the instance only while there is none, when *)
(* no thread can hold another one.                                         *)
LEMMA AssignInstanceStep ==
  ASSUME IInv, NEW t \in Threads, AssignInstance(t)
  PROVE  IInv'
  <1> USE DEF IInv
  <1>1. /\ pc[t] = "assign" /\ pc' = [pc EXCEPT ![t] = "add"]
        /\ inst' = IF inst = None THEN t ELSE inst
        /\ generator' = [generator EXCEPT ![t] = inst']
        /\ UNCHANGED <<mid, issued, again>>
    BY DEF AssignInstance, Go
  <1>2. inst' \in Threads
    BY <1>1 DEF TypeOK
  <1>3. TypeOK'
    BY <1>1, <1>2 DEF TypeOK
  <1>4. Shared'
    <2> SUFFICES ASSUME NEW u \in Threads, pc'[u] \in {"add", "set"}
                 PROVE  generator'[u] = inst'
      BY <1>2 DEF Shared
    <2>1. CASE u = t
      BY <1>1, <2>1 DEF TypeOK
    <2>2. CASE u # t
      <3>1. pc[u] \in {"add", "set"} /\ generator'[u] = generator[u]
        BY <1>1, <2>2 DEF TypeOK
      <3>2. inst \in Threads /\ generator[u] = inst
        BY <3>1 DEF Shared
      <3>3. QED
        BY <1>1, <3>1, <3>2, IDGeneratorAssumption
    <2>3. QED
      BY <2>1, <2>2
  <1>5. Behind'
    BY <1>1, <1>2, IDGeneratorAssumption DEF Behind, TypeOK
  <1>6. QED
    BY <1>1, <1>3, <1>4, <1>5 DEF NeverAgain

(* An id is the successor of the counter, hence larger than every id that  *)
(* was returned before.                                                    *)
LEMMA AddAndFetchStep ==
  ASSUME IInv, NEW t \in Threads, AddAndFetch(t)
  PROVE  IInv'
  <1> DEFINE value == mid[generator[t]] + 1
  <1> USE DEF IInv
  <1>1. inst \in Threads /\ generator[t] = inst /\ pc[t] = "add"
    BY DEF AddAndFetch, Shared
  <1>2. mid[inst] \in Nat /\ value = mid[inst] + 1
    BY <1>1 DEF TypeOK
  <1>3. /\ mid' = [mid EXCEPT ![inst] = value]
        /\ UNCHANGED <<inst, generator>>
        /\ \/ pc' = [pc EXCEPT ![t] = "set"] /\ UNCHANGED <<issued, again>>
           \/ /\ pc' = [pc EXCEPT ![t] = "idle"]
              /\ issued' = issued \cup {value}
              /\ again' = (again \/ value \in issued)
    BY <1>1 DEF AddAndFetch, Go, Return
  <1> HIDE DEF value
  <1>4. mid'[inst] = value /\ value \in Nat /\ value >= IntMin
    BY <1>1, <1>2, <1>3 DEF TypeOK, IntMin
  <1>5. value \notin issued
    BY <1>1, <1>2 DEF Behind, TypeOK
  <1>6. NeverAgain'
    BY <1>3, <1>5 DEF NeverAgain
  <1>7. TypeOK'
    <2>1. again' \in BOOLEAN /\ issued' \subseteq {n \in Nat : n >= IntMin}
      BY <1>3, <1>4 DEF TypeOK
    <2>2. QED
      BY <1>1, <1>3, <1>4, <2>1 DEF TypeOK
  <1>8. Shared'
    BY <1>1, <1>3 DEF Shared, TypeOK
  <1>9. Behind'
    <2>1. \A id \in issued : id \in Nat /\ id <= value
      BY <1>1, <1>2 DEF Behind, TypeOK
    <2>2. \A id \in issued' : id <= mid'[inst]
      BY <1>3, <1>4, <2>1
    <2>3. QED
      BY <1>1, <1>3, <2>2, IDGeneratorAssumption DEF Behind
  <1>10. QED
    BY <1>6, <1>7, <1>8, <1>9

(* The stored id is set back to the smallest.                              *)
LEMMA SetMsgIdStep ==
  ASSUME IInv, NEW t \in Threads, SetMsgId(t)
  PROVE  IInv'
  <1> USE DEF IInv
  <1>1. inst \in Threads /\ generator[t] = inst
    BY DEF SetMsgId, Go, Shared
  <1>2. /\ pc' = [pc EXCEPT ![t] = "idle"]
        /\ mid' = [mid EXCEPT ![inst] = IntMin]
        /\ issued' = {IntMin}
        /\ UNCHANGED <<inst, generator, again>>
    BY <1>1 DEF SetMsgId, Go
  <1>3. TypeOK'
    <2>1. IntMin \in Nat /\ IntMin >= IntMin
      BY DEF IntMin
    <2>2. issued' \subseteq {n \in Nat : n >= IntMin}
      BY <1>2, <2>1
    <2>3. mid' \in [Threads -> Nat] /\ pc' \in [Threads -> {"idle", "assign", "add", "set"}]
      BY <1>2, <2>1 DEF TypeOK
    <2>4. QED
      BY <1>2, <2>2, <2>3 DEF TypeOK
  <1>4. Shared'
    BY <1>2 DEF Shared, TypeOK
  <1>5. Behind'
    BY <1>1, <1>2, IDGeneratorAssumption DEF Behind, TypeOK, IntMin
  <1>6. QED
    BY <1>2, <1>3, <1>4, <1>5 DEF NeverAgain

(* Every step keeps the inductive invariant.                               *)
THEOREM NextIInv == IInv /\ [Next]_vars => IInv'
  <1>1. ASSUME IInv, UNCHANGED vars PROVE IInv'
    BY <1>1 DEF IInv, TypeOK, Shared, Behind, NeverAgain, vars
  <1>2. QED
    BY <1>1, GetInstanceStep, NewInstanceStep, AssignInstanceStep,
       AddAndFetchStep, SetMsgIdStep DEF Next

(* NeverAgain: between two resets of the counter no id is returned twice,  *)
(* however many threads race to create the generator and to add.           *)
THEOREM IdsAreUnique == Spec => []NeverAgain
  <1>1. IInv => NeverAgain
    BY DEF IInv
  <1>2. QED
    BY <1>1, InitIInv, NextIInv, PTL DEF Spec
=============================================================================
