---------------------------- MODULE RWMutexProofs ----------------------------
(***************************************************************************)
(* Mutual exclusion of the read-write mutex for any number of threads.     *)
(*                                                                         *)
(* A writer is alone for two reasons.  Whoever came in through the mutex   *)
(* owns it (Owned), which excludes writers and exclusive readers from one  *)
(* another although the mutex may leak.  And behind its spin a writer has  *)
(* no shared reader beside it (Alone), because it is itself counted in     *)
(* writers, which keeps every further one out.                             *)
(***************************************************************************)
EXTENDS RWMutex, FiniteSetTheorems, TLAPS

Holding == {"exclusive", "writing", "unlock"}

Owned == \A t \in Threads : pc[t] \in Holding => owner = t /\ holds # 0

Alone == \A t \in Threads : pc[t] \in {"write-wait", "writing"} => readers = 0

IInv == TypeOK /\ CountsExact /\ Owned /\ Alone

-----------------------------------------------------------------------------
(* How a thread that moves changes the number of threads in some places.   *)
LEMMA Moved ==
  ASSUME TypeOK, NEW t \in Threads, NEW from \in PCs, NEW to \in PCs,
         Go(t, from, to)
  PROVE  /\ pc' \in [Threads -> PCs]
         /\ pc[t] = from /\ pc'[t] = to
         /\ \A u \in Threads : u # t => pc'[u] = pc[u]
  BY DEF TypeOK, Go

(* The threads in some places are finitely many.                           *)
LEMMA CountFinite ==
  ASSUME NEW S
  PROVE  IsFiniteSet(InPC(S)) /\ Cardinality(InPC(S)) \in Nat
  <1>1. IsFiniteSet(InPC(S))
    BY FS_Subset, RWMutexAssumption DEF InPC
  <1>2. QED
    BY <1>1, FS_CardinalityType

(* A thread that comes to one of the places is one more, ...               *)
LEMMA CountEnters ==
  ASSUME TypeOK, NEW t \in Threads, NEW from \in PCs, NEW to \in PCs,
         Go(t, from, to), NEW S, from \notin S, to \in S
  PROVE  Cardinality(InPC(S)') = Cardinality(InPC(S)) + 1
  <1>1. InPC(S)' = InPC(S) \cup {t} /\ t \notin InPC(S)
    BY Moved DEF InPC
  <1>2. QED
    BY <1>1, CountFinite, FS_AddElement

(* ... one that leaves them is one less, ...                               *)
LEMMA CountLeaves ==
  ASSUME TypeOK, NEW t \in Threads, NEW from \in PCs, NEW to \in PCs,
         Go(t, from, to), NEW S, from \in S, to \notin S
  PROVE  /\ Cardinality(InPC(S)') = Cardinality(InPC(S)) - 1
         /\ Cardinality(InPC(S)) # 0
  <1>1. InPC(S)' = InPC(S) \ {t} /\ t \in InPC(S)
    BY Moved DEF InPC
  <1>2. QED
    BY <1>1, CountFinite, FS_RemoveElement, FS_EmptySet

(* ... and one that stays in or out of them changes nothing.               *)
LEMMA CountStays ==
  ASSUME TypeOK, NEW t \in Threads, NEW from \in PCs, NEW to \in PCs,
         Go(t, from, to), NEW S, from \in S <=> to \in S
  PROVE  Cardinality(InPC(S)') = Cardinality(InPC(S))
  <1>1. InPC(S)' = InPC(S)
    BY Moved DEF InPC
  <1>2. QED
    BY <1>1

-----------------------------------------------------------------------------
(* The unlocked mutex satisfies the invariant.                             *)
THEOREM InitIInv == Init => IInv
  <1> SUFFICES ASSUME Init PROVE IInv
    OBVIOUS
  <1>1. TypeOK
    BY DEF Init, TypeOK, PCs
  <1>2. \A S : "idle" \notin S => InPC(S) = {}
    BY DEF Init, InPC
  <1>3. CountsExact
    BY <1>2, FS_EmptySet DEF CountsExact, Announced, Init
  <1>4. Owned /\ Alone
    BY DEF Init, Owned, Alone, Holding
  <1>5. QED
    BY <1>1, <1>3, <1>4 DEF IInv

(* The steps of a reader on the shared way.                                *)
LEMMA SharedReaderStep ==
  ASSUME IInv, NEW t \in Threads, RLockShare(t) \/ RUnlockShare(t)
  PROVE  IInv'
  <1> USE DEF IInv
  <1>1. "idle" \in PCs /\ "shared" \in PCs
    BY DEF PCs
  <1>2. CASE RLockShare(t)
    <2>1. /\ Go(t, "idle", "shared") /\ writers = 0 /\ readers' = readers + 1
          /\ UNCHANGED <<writers, owner, holds>>
      BY <1>2 DEF RLockShare
    <2>2. TypeOK'
      BY <1>1, <2>1, Moved DEF TypeOK
    <2>3. CountsExact'
      <3>1. Cardinality(InPC({"shared"})') = Cardinality(InPC({"shared"})) + 1
        BY <1>1, <2>1, CountEnters
      <3>2. Cardinality(InPC(Announced)') = Cardinality(InPC(Announced))
        BY <1>1, <2>1, CountStays DEF Announced
      <3>3. QED
        BY <2>1, <3>1, <3>2 DEF CountsExact
    <2>4. Owned'
      BY <1>1, <2>1, Moved DEF Owned, Holding
    <2>5. \A u \in Threads : pc[u] \notin Announced
      BY <2>1, CountFinite, FS_EmptySet DEF CountsExact, InPC
    <2>6. Alone'
      BY <1>1, <2>1, <2>5, Moved DEF Alone, Announced
    <2>7. QED
      BY <2>2, <2>3, <2>4, <2>6
  <1>3. CASE RUnlockShare(t)
    <2>1. /\ Go(t, "shared", "idle") /\ readers' = readers - 1
          /\ UNCHANGED <<writers, owner, holds>>
      BY <1>3 DEF RUnlockShare
    <2>2. readers # 0
      BY <1>1, <2>1, CountLeaves DEF CountsExact
    <2>3. TypeOK'
      BY <1>1, <2>1, <2>2, Moved DEF TypeOK
    <2>4. CountsExact'
      BY <1>1, <2>1, CountLeaves, CountStays DEF CountsExact, Announced
    <2>5. Owned'
      BY <1>1, <2>1, Moved DEF Owned, Holding
    <2>6. Alone'
      BY <1>1, <2>1, <2>2, Moved DEF Alone
    <2>7. QED
      BY <2>3, <2>4, <2>5, <2>6
  <1>4. QED
    BY <1>2, <1>3

(* Taking the mutex, as a reader or as a writer.                           *)
LEMMA LockStep ==
  ASSUME IInv, NEW t \in Threads, RLockExclusive(t) \/ WLockLock(t)
  PROVE  IInv'
  <1> USE DEF IInv
  <1>1. PICK from \in {"read-wait", "write-wait"}, to \in {"exclusive", "writing"} :
          /\ Go(t, from, to)
          /\ from = "write-wait" <=> to = "writing"
          /\ Lock(t) /\ UNCHANGED <<readers, writers>>
    BY DEF RLockExclusive, WLockLock
  <1>2. from \in PCs /\ to \in PCs
    BY DEF PCs
  <1>3. TypeOK'
    BY <1>1, <1>2, Moved DEF TypeOK, Lock
  <1>4. CountsExact'
    <2>1. (from \in Announced <=> to \in Announced) /\ (from \in {"shared"} <=> to \in {"shared"})
      BY <1>1 DEF Announced
    <2>2. QED
      BY <1>1, <1>2, <2>1, CountStays DEF CountsExact
  <1>5. Owned'
    <2>1. \A u \in Threads : u # t => pc[u] \notin Holding
      BY <1>1, RWMutexAssumption DEF Owned, Lock
    <2>2. owner' = t /\ holds' # 0
      BY <1>1 DEF Lock, TypeOK
    <2>3. QED
      BY <1>1, <1>2, <2>1, <2>2, Moved DEF Owned
  <1>6. Alone'
    BY <1>1, <1>2, Moved DEF Alone
  <1>7. QED
    BY <1>3, <1>4, <1>5, <1>6

(* Giving it back; RUnlockExclusive may keep it.                           *)
LEMMA UnlockStep ==
  ASSUME IInv, NEW t \in Threads, RUnlockExclusive(t) \/ WUnlockUnLock(t)
  PROVE  IInv'
  <1> USE DEF IInv
  <1>1. PICK from \in {"exclusive", "unlock"} :
          /\ Go(t, from, "idle")
          /\ UnLock \/ UNCHANGED <<owner, holds>>
          /\ UNCHANGED <<readers, writers>>
    BY DEF RUnlockExclusive, WUnlockUnLock
  <1>2. from \in PCs /\ "idle" \in PCs
    BY DEF PCs
  <1>3. owner = t /\ holds # 0
    BY <1>1 DEF Owned, Holding, Go
  <1>4. TypeOK'
    <2>1. holds' \in Nat /\ owner' \in Threads \cup {NoThread}
      BY <1>1, <1>3 DEF UnLock, TypeOK
    <2>2. QED
      BY <1>1, <1>2, <2>1, Moved DEF TypeOK
  <1>5. CountsExact'
    <2>1. /\ from \in Announced <=> "idle" \in Announced
          /\ from \in {"shared"} <=> "idle" \in {"shared"}
      BY DEF Announced
    <2>2. QED
      BY <1>1, <1>2, <2>1, CountStays DEF CountsExact
  <1>6. Owned'
    <2>1. \A u \in Threads : u # t => pc[u] \notin Holding
      BY <1>3 DEF Owned
    <2>2. QED
      BY <1>1, <1>2, <2>1, Moved DEF Owned, Holding
  <1>7. Alone'
    BY <1>1, <1>2, Moved DEF Alone
  <1>8. QED
    BY <1>4, <1>5, <1>6, <1>7

(* Steps of readers and writers that leave the mutex and readers alone.    *)
LEMMA WaitStep ==
  ASSUME IInv, NEW t \in Threads,
         RLockWait(t) \/ WLockAnnounce(t) \/ WLockSpin(t) \/ WUnlockLeave(t)
  PROVE  IInv'
  <1> USE DEF IInv
  <1>1. CASE RLockWait(t)
    <2>1. /\ Go(t, "idle", "read-wait")
          /\ UNCHANGED <<readers, writers, owner, holds>>
          /\ "idle" \in PCs /\ "read-wait" \in PCs
      BY <1>1 DEF RLockWait, PCs
    <2>2. CountsExact'
      BY <2>1, CountStays DEF CountsExact, Announced
    <2>3. TypeOK' /\ Owned' /\ Alone'
      BY <2>1, Moved DEF TypeOK, Owned, Alone, Holding
    <2>4. QED
      BY <2>2, <2>3
  <1>2. CASE WLockAnnounce(t)
    <2>1. /\ Go(t, "idle", "spin") /\ writers' = writers + 1
          /\ UNCHANGED <<readers, owner, holds>>
          /\ "idle" \in PCs /\ "spin" \in PCs
      BY <1>2 DEF WLockAnnounce, PCs
    <2>2. CountsExact'
      BY <2>1, CountEnters, CountStays DEF CountsExact, Announced
    <2>3. TypeOK' /\ Owned' /\ Alone'
      BY <2>1, Moved DEF TypeOK, Owned, Alone, Holding
    <2>4. QED
      BY <2>2, <2>3
  <1>3. CASE WLockSpin(t)
    <2>1. /\ Go(t, "spin", "write-wait") /\ readers = 0
          /\ UNCHANGED <<readers, writers, owner, holds>>
          /\ "spin" \in PCs /\ "write-wait" \in PCs
      BY <1>3 DEF WLockSpin, PCs
    <2>2. CountsExact'
      BY <2>1, CountStays DEF CountsExact, Announced
    <2>3. TypeOK' /\ Owned' /\ Alone'
      BY <2>1, Moved DEF TypeOK, Owned, Alone, Holding
    <2>4. QED
      BY <2>2, <2>3
  <1>4. CASE WUnlockLeave(t)
    <2>1. /\ Go(t, "writing", "unlock") /\ writers' = writers - 1
          /\ UNCHANGED <<readers, owner, holds>>
          /\ "writing" \in PCs /\ "unlock" \in PCs
      BY <1>4 DEF WUnlockLeave, PCs
    <2>2. writers # 0 /\ CountsExact'
      BY <2>1, CountLeaves, CountStays DEF CountsExact, Announced
    <2>3. TypeOK' /\ Owned' /\ Alone'
      BY <2>1, <2>2, Moved DEF TypeOK, Owned, Alone, Holding
    <2>4. QED
      BY <2>2, <2>3
  <1>5. QED
    BY <1>1, <1>2, <1>3, <1>4

(* Every step keeps the invariant.                                         *)
THEOREM NextIInv == IInv /\ [Next]_vars => IInv'
  <1>1. ASSUME IInv, UNCHANGED vars PROVE IInv'
    <2>1. UNCHANGED <<readers, writers, owner, holds, pc>>
      BY <1>1 DEF vars
    <2>2. \A S : InPC(S)' = InPC(S)
      BY <2>1 DEF InPC
    <2>3. QED
      BY <1>1, <2>1, <2>2 DEF IInv, TypeOK, CountsExact, Owned, Alone
  <1>2. ASSUME IInv, NEW t \in Threads, Enter(t) \/ Proceed(t) PROVE IInv'
    BY <1>2, SharedReaderStep, LockStep, UnlockStep, WaitStep DEF Enter, Proceed
  <1>3. QED
    BY <1>1, <1>2 DEF Next

(* The strengthened invariant holds in every reachable state.              *)
THEOREM Invariance == Spec => []IInv
  BY InitIInv, NextIInv, PTL DEF Spec

(* TypeOK: the counters never become negative.                             *)
THEOREM TypeCorrect == Spec => []TypeOK
  <1>1. IInv => TypeOK
    BY DEF IInv
  <1>2. QED
    BY <1>1, Invariance, PTL

(* CountsExact: no reader and no writer is lost from rw or counted twice.  *)
THEOREM Counting == Spec => []CountsExact
  <1>1. IInv => CountsExact
    BY DEF IInv
  <1>2. QED
    BY <1>1, Invariance, PTL

(* MutualExclusion: a writer is alone, in spite of the leaking mutex.      *)
THEOREM Exclusion == Spec => []MutualExclusion
  <1>1. IInv => MutualExclusion
    <2> SUFFICES ASSUME IInv, NEW w \in Threads, NEW t \in Threads,
                        pc[w] = "writing", t # w
                 PROVE  pc[t] \notin {"writing", "shared", "exclusive"}
      BY DEF MutualExclusion
    <2>1. owner = w /\ readers = 0
      BY DEF IInv, Owned, Alone, Holding
    <2>2. pc[t] \notin Holding
      BY <2>1 DEF IInv, Owned
    <2>3. InPC({"shared"}) = {}
      BY <2>1, CountFinite, FS_EmptySet DEF IInv, CountsExact
    <2>4. QED
      BY <2>2, <2>3 DEF Holding, InPC
  <1>2. QED
    BY <1>1, Invariance, PTL

(* WriterGoesFirst: an announced writer is not overtaken by shared readers. *)
THEOREM NoOvertaking == Spec => WriterGoesFirst
  <1> DEFINE Yields == InPC(Announced) # {} => readers' <= readers
  <1>1. ASSUME IInv, Next PROVE Yields
    <2> SUFFICES ASSUME InPC(Announced) # {} PROVE readers' <= readers
      OBVIOUS
    <2>1. readers \in Nat /\ writers # 0
      BY <1>1, CountFinite, FS_EmptySet DEF IInv, TypeOK, CountsExact
    <2>2. readers' \in {readers, readers - 1}
      BY <1>1, <2>1 DEF Next, Enter, Proceed, RLockShare, RLockWait,
         RLockExclusive, RUnlockShare, RUnlockExclusive, WLockAnnounce,
         WLockSpin, WLockLock, WUnlockLeave, WUnlockUnLock
    <2>3. QED
      BY <2>1, <2>2
  <1>2. IInv /\ [Next]_vars => [Yields]_vars
    BY <1>1
  <1>3. QED
    BY <1>2, InitIInv, NextIInv, PTL DEF Spec, WriterGoesFirst
=============================================================================
