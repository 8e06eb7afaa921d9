--------------------------- MODULE HistoryProofs ----------------------------
(***************************************************************************)
(* Proofs about the history, for every number of threads, messages and     *)
(* topics, every maximum and every width of the counts.                    *)
(*                                                                         *)
(* What the reduction takes out does not depend on the counts, which may   *)
(* be wrong (CountsExact), nor on the positions, which may be stale: the   *)
(* pool is in the order of the appends, and CalReduce takes from its head. *)
(***************************************************************************)
EXTENDS History, FiniteSetTheorems, SequenceTheorems, WellFoundedInduction, TLAPS

(* A set of naturals that is not empty has a least element, and Min is it. *)
LEMMA NatMin ==
  ASSUME NEW S, S \subseteq Nat, S # {}
  PROVE  Min(S) \in S /\ \A y \in S : Min(S) <= y
  <1> DEFINE Less == {ss \in Nat \X Nat : ss[1] < ss[2]}
  <1>0. IsWellFoundedOn(Less, Nat)
    BY NatLessThanWellFounded DEF OpToRel
  <1>1. PICK x \in S : \A y \in S : ~ (<<y, x>> \in Less)
    <2> HIDE DEF Less
    <2> QED BY <1>0, WFMin
  <1>2. \A y \in S : x <= y
    <2>1. ASSUME NEW y \in S PROVE ~(y < x)
      BY <1>1
    <2>2. QED
      BY <2>1
  <1>3. QED
    BY <1>2 DEF Min

(* The messages that are kept are among those that were appended, and no   *)
(* newer one of their topic is missing.                                    *)
IInv ==
  /\ topicOf \in Seq(Topics)
  /\ kept \subseteq 1..Len(topicOf)
  /\ NewestKept

(* A message that is appended is the newest.                               *)
LEMMA AppendStep ==
  ASSUME IInv, NEW t \in Threads, NEW top \in Topics, Append_(t, top)
  PROVE  IInv'
  <1> DEFINE new == Len(topicOf) + 1
  <1>1. topicOf' = Append(topicOf, top) /\ kept' = kept \cup {new}
    BY DEF Append_
  <1>2. /\ topicOf' \in Seq(Topics)
        /\ Len(topicOf') = new /\ Len(topicOf) \in Nat
        /\ \A n \in 1..Len(topicOf) : topicOf'[n] = topicOf[n]
    BY <1>1 DEF IInv
  <1>0. kept \subseteq 1..Len(topicOf)
    BY DEF IInv
  <1>3. kept' \subseteq 1..Len(topicOf')
    <2>1. ASSUME NEW m \in kept' PROVE m \in 1..Len(topicOf')
      <3>1. CASE m = new
        BY <3>1, <1>2
      <3>2. CASE m # new
        <4>1. m \in 1..Len(topicOf)
          BY <3>2, <1>0, <1>1
        <4>2. QED
          BY <4>1, <1>2
      <3>3. QED
        BY <3>1, <3>2
    <2>2. QED
      BY <2>1
  <1>4. ASSUME NEW m \in kept', NEW n \in m..Len(topicOf'), topicOf'[n] = topicOf'[m]
        PROVE  n \in kept'
    <2>1. CASE n = new
      BY <2>1, <1>1
    <2>2. CASE n # new
      <3>1. m \in kept /\ m \in 1..Len(topicOf) /\ n \in m..Len(topicOf)
        BY <2>2, <1>1, <1>2, <1>4 DEF IInv
      <3>2. topicOf[n] = topicOf[m]
        BY <3>1, <1>2, <1>4
      <3>3. n \in kept
        BY <3>1, <3>2 DEF IInv, NewestKept
      <3>4. QED
        BY <3>3, <1>1
    <2>3. QED
      BY <2>1, <2>2
  <1>5. QED
    BY <1>2, <1>3, <1>4 DEF IInv, NewestKept

(* The least number of a topic belongs to its oldest message.              *)
LEMMA ReduceStep ==
  ASSUME IInv, NEW t \in Threads, Reduce(t)
  PROVE  IInv'
  <1> DEFINE oldest == Min(Of(topic[t]))
  <1>1. topicOf' = topicOf /\ kept' = kept \ {oldest} /\ Of(topic[t]) # {}
    BY DEF Reduce
  <1>2. Of(topic[t]) \subseteq Nat
    <2>1. Len(topicOf) \in Nat /\ kept \subseteq 1..Len(topicOf)
      BY DEF IInv
    <2>2. \A m \in kept : m \in Nat
      BY <2>1
    <2>3. QED
      BY <2>2 DEF Of
  <1>3. oldest \in Of(topic[t]) /\ \A m \in Of(topic[t]) : oldest <= m
    BY <1>1, <1>2, NatMin
  <1> HIDE DEF oldest
  <1>4. ASSUME NEW m \in kept', NEW n \in m..Len(topicOf), topicOf[n] = topicOf[m]
        PROVE  n \in kept'
    <2>1. m \in kept /\ m # oldest /\ m \in Nat
      BY <1>1 DEF IInv
    <2>2. n \in kept
      BY <1>4, <2>1 DEF IInv, NewestKept
    <2>3. n # oldest
      <3>1. SUFFICES ASSUME n = oldest PROVE FALSE
        OBVIOUS
      <3>2. m \in Of(topic[t])
        BY <1>3, <1>4, <2>1, <3>1 DEF Of
      <3>3. oldest <= m /\ m <= oldest /\ oldest \in Nat
        BY <1>2, <1>3, <2>1, <3>1, <3>2
      <3>4. QED
        BY <2>1, <3>3
    <2>4. QED
      BY <1>1, <2>2, <2>3
  <1>5. QED
    BY <1>1, <1>4 DEF IInv, NewestKept

(* Every step keeps IInv: only Append_ and Reduce change what it is about. *)
THEOREM NextIInv == IInv /\ [Next]_vars => IInv'
  <1> SUFFICES ASSUME IInv, [Next]_vars PROVE IInv'
    OBVIOUS
  <1>1. \/ UNCHANGED <<topicOf, kept>>
        \/ \E t \in Threads : Reduce(t) \/ \E top \in Topics : Append_(t, top)
    BY DEF Next, vars, InCall, StatRLock, StatFind, StatWLock, StatUpdate,
           StatReturnMany, StatReturn, ReduceEnd, Read, ReadEnd, GetHistory
  <1>2. CASE UNCHANGED <<topicOf, kept>>
    BY <1>2 DEF IInv, NewestKept
  <1>3. QED
    BY <1>1, <1>2, AppendStep, ReduceStep

(* NewestKept: what is kept of a topic is newer than everything that was   *)
(* removed of it, however many appends and reductions of one topic run at  *)
(* once and whatever they count.                                           *)
THEOREM NewestAreKept == Spec => []NewestKept
  <1>1. Init => IInv
    BY DEF Init, IInv, NewestKept
  <1>2. IInv => NewestKept
    BY DEF IInv
  <1>3. QED
    BY <1>1, <1>2, NextIInv, PTL DEF Spec

-----------------------------------------------------------------------------
StatProofs == INSTANCE RWMutexProofs

(* Every step of the history uses the read-write mutex as it is meant to   *)
(* be used, or not at all: a thread leaves by the way it came in, and is   *)
(* at no time inside twice.  So what is proved of the mutex holds here.    *)
THEOREM UsesMutex == Spec => StatProofs!Spec
  <1>1. Init => StatProofs!Init
    BY DEF Init, Mutex!Init, StatProofs!Init, Mutex!PCs, StatProofs!PCs
  <1>2. [Next]_vars => [StatProofs!Next]_(StatProofs!vars)
    <2>1. ASSUME NEW t \in Threads,
                 \/ Mutex!RLockShare(t) \/ Mutex!RLockWait(t) \/ Mutex!RLockExclusive(t)
                 \/ Mutex!RUnlockShare(t) \/ Mutex!RUnlockExclusive(t)
                 \/ Mutex!WLockAnnounce(t) \/ Mutex!WLockSpin(t) \/ Mutex!WLockLock(t)
                 \/ Mutex!WUnlockLeave(t) \/ Mutex!WUnlockUnLock(t)
          PROVE  StatProofs!Enter(t) \/ StatProofs!Proceed(t)
      BY <2>1
         DEF StatProofs!Enter, StatProofs!Proceed,
             Mutex!RLockShare, StatProofs!RLockShare, Mutex!RLockWait,
             StatProofs!RLockWait, Mutex!RLockExclusive,
             StatProofs!RLockExclusive, Mutex!RUnlockShare,
             StatProofs!RUnlockShare, Mutex!RUnlockExclusive,
             StatProofs!RUnlockExclusive, Mutex!WLockAnnounce,
             StatProofs!WLockAnnounce, Mutex!WLockSpin, StatProofs!WLockSpin,
             Mutex!WLockLock, StatProofs!WLockLock, Mutex!WUnlockLeave,
             StatProofs!WUnlockLeave, Mutex!WUnlockUnLock,
             StatProofs!WUnlockUnLock, Mutex!Go, StatProofs!Go, Mutex!Lock,
             StatProofs!Lock, Mutex!UnLock, StatProofs!UnLock
    <2>2. QED
      BY <2>1 DEF Next, vars, InCall, Append_, StatRLock, StatFind, StatWLock, StatUpdate,
           StatReturnMany, StatReturn, Reduce, ReduceEnd, Read, ReadEnd, GetHistory,
           statMutex, StatProofs!vars, StatProofs!Next
  <1>3. QED
    BY <1>1, <1>2, PTL DEF Spec, StatProofs!Spec

(* No thread changes the list of counts while another one looks for its    *)
(* place in it between RLock and RUnlock, although the mutex may leak.     *)
THEOREM StatsGuarded ==
  Spec => [][\A t \in Threads :
               pc[t] \in {"shared", "exclusive"} => topicStats' = topicStats]_vars
  <1>1. Spec => []StatProofs!MutualExclusion
    <2>1. StatProofs!IsFiniteSet(Threads) /\ NoThread \notin Threads
      BY HistoryAssumption DEF IsFiniteSet, StatProofs!IsFiniteSet
    <2>2. StatProofs!Spec => []StatProofs!MutualExclusion
      BY <2>1, StatProofs!Exclusion
    <2>3. QED
      BY <2>2, UsesMutex
  <1>2. StatProofs!MutualExclusion /\ [Next]_vars =>
          [\A t \in Threads :
             pc[t] \in {"shared", "exclusive"} => topicStats' = topicStats]_vars
    <2> SUFFICES ASSUME StatProofs!MutualExclusion, Next, NEW t \in Threads,
                        pc[t] \in {"shared", "exclusive"}
                 PROVE  topicStats' = topicStats
      OBVIOUS
    <2>1. ASSUME NEW w \in Threads, StatUpdate(w) PROVE FALSE
      <3>1. pc[w] = "writing"
        BY <2>1 DEF StatUpdate, Mutex!WUnlockLeave, Mutex!Go
      <3>2. QED
        BY <3>1 DEF StatProofs!MutualExclusion
    <2>2. QED
      BY <2>1 DEF Next, InCall, Append_, StatRLock, StatFind, StatWLock,
           StatReturnMany, StatReturn, Reduce, ReduceEnd, Read, ReadEnd, GetHistory
  <1>3. QED
    BY <1>1, <1>2, PTL DEF Spec

-----------------------------------------------------------------------------
(* The binary search of the list of counts.                                *)

(* Among some things with a rank one has the least rank.                   *)
LEMMA LeastRank ==
  ASSUME NEW D, NEW C, C \subseteq D, C # {}, NEW rank \in [D -> Nat]
  PROVE  \E n \in C : \A m \in C : rank[n] <= rank[m]
  <1> DEFINE A == {rank[n] : n \in C}
  <1>1. A \subseteq Nat /\ A # {}
    OBVIOUS
  <1>2. PICK x \in A : \A y \in A : x <= y
    BY <1>1, NatMin
  <1>3. PICK n \in C : rank[n] = x
    BY Zenon
  <1>4. QED
    BY <1>2, <1>3

(* A walk over D that goes from n to next[n], which has a lower rank, and  *)
(* ends in Stop, where its result is base[n].                              *)
WalkEnds(D, V, Stop, next, base, rank, B) ==
  /\ B \in Nat
  /\ rank \in [D -> Nat]
  /\ \A n \in D : rank[n] <= B
  /\ \A n \in D : n \in Stop => base[n] \in V
  /\ \A n \in D : n \notin Stop => next[n] \in D /\ rank[next[n]] < rank[n]

(* Such a walk is defined: its equation has a solution.                    *)
LEMMA WalkExists ==
  ASSUME NEW D, NEW V, NEW Stop, NEW next, NEW base, NEW B, NEW rank,
         WalkEnds(D, V, Stop, next, base, rank, B)
  PROVE  \E f \in [D -> V] :
           f = [n \in D |-> IF n \in Stop THEN base[n] ELSE f[next[n]]]
  <1> DEFINE Eq(f, n) == f[n] = IF n \in Stop THEN base[n] ELSE f[next[n]]
             Bad == {k \in Nat : ~ \E f \in [D -> V] : \A n \in D : rank[n] < k => Eq(f, n)}
  <1>a. /\ B \in Nat
        /\ rank \in [D -> Nat]
        /\ \A n \in D : rank[n] <= B
        /\ \A n \in D : n \in Stop => base[n] \in V
        /\ \A n \in D : n \notin Stop => next[n] \in D /\ rank[next[n]] < rank[n]
    BY DEF WalkEnds
  <1> USE <1>a
  <1>0. CASE D = {}
    <2>1. [n \in D |-> n] \in [D -> V]
      BY <1>0
    <2>2. \A f \in [D -> V] : f = [n \in D |-> IF n \in Stop THEN base[n] ELSE f[next[n]]]
      BY <1>0
    <2>3. QED
      BY <2>1, <2>2
  <1>1. CASE D # {}
    <2>1. \E v : v \in V
      <3>1. PICK n \in D : \A m \in D : rank[n] <= rank[m]
        BY <1>1, LeastRank
      <3>2. n \in Stop
        <4>1. SUFFICES ASSUME n \notin Stop PROVE FALSE
          OBVIOUS
        <4>2. next[n] \in D /\ rank[next[n]] < rank[n]
          BY <4>1
        <4>3. rank[n] <= rank[next[n]] /\ rank[n] \in Nat /\ rank[next[n]] \in Nat
          BY <3>1, <4>2
        <4>4. QED
          BY <4>2, <4>3
      <3>3. QED
        BY <3>2
    <2>2. Bad = {}
      <3>1. SUFFICES ASSUME Bad # {} PROVE FALSE
        OBVIOUS
      <3>2. PICK k \in Bad : \A j \in Bad : k <= j
        <4>1. Bad \subseteq Nat
          OBVIOUS
        <4>2. QED
          BY <3>1, <4>1, NatMin
      <3>3. PICK v : v \in V
        BY <2>1
      <3>4. k # 0
        <4>1. [n \in D |-> v] \in [D -> V]
          BY <3>3
        <4>2. \A n \in D : ~(rank[n] < 0)
          OBVIOUS
        <4>3. QED
          BY <4>1, <4>2
      <3>5. k - 1 \in Nat /\ ~(k <= k - 1)
        BY <3>4
      <3>6. k - 1 \notin Bad
        BY <3>2, <3>5
      <3>7. PICK f \in [D -> V] : \A n \in D : rank[n] < k - 1 => Eq(f, n)
        BY <3>5, <3>6
      <3> DEFINE g == [n \in D |-> IF n \in Stop THEN base[n] ELSE f[next[n]]]
      <3>8. g \in [D -> V]
        OBVIOUS
      <3>9. ASSUME NEW n \in D, rank[n] < k PROVE Eq(g, n)
        <4>1. CASE n \in Stop
          BY <4>1
        <4>2. CASE n \notin Stop
          <5>1. next[n] \in D /\ rank[next[n]] < rank[n]
            BY <4>2
          <5>2. rank[next[n]] \in Nat /\ rank[n] \in Nat
            BY <5>1
          <5>3. rank[next[n]] < k - 1
            BY <5>1, <5>2, <3>9, k \in Nat
          <5>4. Eq(f, next[n])
            BY <5>1, <5>3, <3>7
          <5>5. g[next[n]] = f[next[n]]
            BY <5>1, <5>4
          <5>6. QED
            BY <5>5, <4>2
        <4>3. QED
          BY <4>1, <4>2
      <3>10. k \notin Bad
        <4> HIDE DEF g
        <4>1. \A n \in D : rank[n] < k => Eq(g, n)
          BY <3>9
        <4>2. QED
          BY <3>8, <4>1
      <3>11. QED
        BY <3>10
    <2>3. PICK j \in Nat : j \notin Bad /\ \A n \in D : rank[n] < j
      <3>1. B + 1 \in Nat /\ \A n \in D : rank[n] < B + 1
        OBVIOUS
      <3>2. PICK j \in Nat : \A n \in D : rank[n] < j
        BY <3>1
      <3>3. j \notin Bad
        BY <2>2, Zenon
      <3>4. QED
        <4> HIDE DEF Bad
        <4> QED BY <3>2, <3>3
    <2>a. \E f \in [D -> V] : \A n \in D : rank[n] < j => Eq(f, n)
      BY <2>3
    <2>b. \E f \in [D -> V] : \A n \in D : Eq(f, n)
      <3> HIDE DEF Eq, Bad
      <3> QED BY <2>a, <2>3
    <2>4. PICK f \in [D -> V] : \A n \in D : Eq(f, n)
      <3> HIDE DEF Eq, Bad
      <3> QED BY <2>b
    <2>5. f = [n \in D |-> IF n \in Stop THEN base[n] ELSE f[next[n]]]
      BY <2>4
    <2>6. QED
      BY <2>5
  <1>2. QED
    BY <1>0, <1>1

(* The entries of the list of counts.                                      *)
Stat == [topic : Topics, count : Nat]

(* The list is in the order of the topics, each of which it has once.      *)
Sorted(s) == \A i, j \in 1..Len(s) : i < j => s[i].topic < s[j].topic

(* p is the place of the topic in the list, or the place where it belongs. *)
IsPlace(s, top, p) ==
  \/ p <= Len(s) /\ s[p].topic = top
  \/ /\ \A i \in 1..Len(s) : i < p => s[i].topic < top
     /\ \A i \in 1..Len(s) : p <= i => top < s[i].topic

(* The middle of a pair.                                                   *)
Mid(r) == (r[1] + r[2]) \div 2
(* The middle of a range of the search is in it, and so are the ranges on  *)
(* both sides of it among the ranges there are.                            *)
LEMMA MidIs ==
  ASSUME NEW n \in Nat, NEW r \in (1..n + 1) \X (0..n), ~(r[1] > r[2])
  PROVE  /\ r[1] \in Nat /\ r[2] \in Nat /\ r[1] >= 1 /\ r[2] <= n
         /\ Mid(r) \in 1..n /\ r[1] <= Mid(r) /\ Mid(r) <= r[2]
         /\ <<Mid(r) + 1, r[2]>> \in (1..n + 1) \X (0..n)
         /\ <<r[1], Mid(r) - 1>> \in (1..n + 1) \X (0..n)
  <1>1. r[1] \in 1..n + 1 /\ r[2] \in 0..n
    OBVIOUS
  <1>2. PICK a \in 1..n + 1, b \in 0..n : a = r[1] /\ b = r[2]
    BY <1>1
  <1>3. (a + b) \div 2 \in Nat /\ a <= (a + b) \div 2 /\ (a + b) \div 2 <= b
    BY <1>2
  <1>4. QED
    BY ONLY <1>2, <1>3, n \in Nat DEF Mid

(* The steps of the search: where it goes from a pair it does not stop at, *)
(* and how far the ends of a pair are apart.                               *)
Stops(s, top, D) == {r \in D : r[1] > r[2] \/ s[Mid(r)].topic = top}
Result(D) == [r \in D |-> IF r[1] > r[2] THEN r[1] ELSE Mid(r)]
Onward(s, top, D) ==
  [r \in D |-> IF top > s[Mid(r)].topic THEN <<Mid(r) + 1, r[2]>> ELSE <<r[1], Mid(r) - 1>>]
Gap(D) == [r \in D |-> IF r[1] > r[2] THEN 0 ELSE r[2] - r[1] + 1]

(* A step brings the ends nearer.                                          *)
LEMMA SearchEnds ==
  ASSUME NEW n \in Nat, NEW s, NEW top, NEW D, D = (1..n + 1) \X (0..n)
  PROVE  WalkEnds(D, 1..n + 1, Stops(s, top, D), Onward(s, top, D), Result(D), Gap(D), n)
  <1>1. Gap(D) \in [D -> Nat] /\ \A r \in D : Gap(D)[r] <= n
    <2>1. ASSUME NEW r \in D PROVE Gap(D)[r] \in Nat /\ Gap(D)[r] <= n
      <3>1. r[1] \in 1..n + 1 /\ r[2] \in 0..n
        BY ONLY r \in D, D = (1..n + 1) \X (0..n)
      <3>2. Gap(D)[r] = IF r[1] > r[2] THEN 0 ELSE r[2] - r[1] + 1
        BY Zenon DEF Gap
      <3>3. QED
        BY ONLY <3>1, <3>2, n \in Nat
    <2>2. Gap(D) = [r \in D |-> Gap(D)[r]]
      BY Zenon DEF Gap
    <2>3. QED
      BY <2>1, <2>2
  <1>2. ASSUME NEW r \in D, r \in Stops(s, top, D) PROVE Result(D)[r] \in 1..n + 1
    <2>1. Result(D)[r] = IF r[1] > r[2] THEN r[1] ELSE Mid(r)
      BY Zenon DEF Result
    <2>2. CASE r[1] > r[2]
      <3>1. r[1] \in 1..n + 1
        BY ONLY r \in D, D = (1..n + 1) \X (0..n)
      <3>2. QED
        BY ONLY <2>1, <2>2, <3>1
    <2>3. CASE ~(r[1] > r[2])
      <3>1. Mid(r) \in 1..n
        BY ONLY <2>3, r \in D, D = (1..n + 1) \X (0..n), n \in Nat, MidIs
      <3>2. QED
        BY ONLY <2>1, <2>3, <3>1, n \in Nat
    <2>4. QED
      BY <2>2, <2>3
  <1>3. ASSUME NEW r \in D, r \notin Stops(s, top, D)
        PROVE  /\ Onward(s, top, D)[r] \in D
               /\ Gap(D)[Onward(s, top, D)[r]] < Gap(D)[r]
    <2>1. ~(r[1] > r[2])
      BY <1>3 DEF Stops
    <2> PICK m : m = Mid(r)
      OBVIOUS
    <2>2. /\ r[1] \in Nat /\ r[2] \in Nat /\ r[1] >= 1 /\ r[2] <= n
          /\ m \in 1..n /\ r[1] <= m /\ m <= r[2]
          /\ <<m + 1, r[2]>> \in D /\ <<r[1], m - 1>> \in D
      BY ONLY <2>1, r \in D, D = (1..n + 1) \X (0..n), n \in Nat, m = Mid(r), MidIs
    <2>3. Gap(D)[r] = r[2] - r[1] + 1
      BY ONLY <2>1, r \in D, Zenon DEF Gap
    <2>4. \A q \in D : Gap(D)[q] = IF q[1] > q[2] THEN 0 ELSE q[2] - q[1] + 1
      BY ONLY Zenon DEF Gap
    <2>5. Onward(s, top, D)[r] = <<m + 1, r[2]>> \/ Onward(s, top, D)[r] = <<r[1], m - 1>>
      BY ONLY r \in D, m = Mid(r), Zenon DEF Onward
    <2>6. \A a, b : <<a, b>>[1] = a /\ <<a, b>>[2] = b
      OBVIOUS
    <2>7. /\ Gap(D)[<<m + 1, r[2]>>] = IF m + 1 > r[2] THEN 0 ELSE r[2] - (m + 1) + 1
          /\ Gap(D)[<<r[1], m - 1>>] = IF r[1] > m - 1 THEN 0 ELSE (m - 1) - r[1] + 1
      BY ONLY <2>2, <2>4, <2>6
    <2>8. /\ Gap(D)[<<m + 1, r[2]>>] < Gap(D)[r]
          /\ Gap(D)[<<r[1], m - 1>>] < Gap(D)[r]
      BY ONLY <2>2, <2>3, <2>7, n \in Nat
    <2>9. QED
      BY ONLY <2>2, <2>5, <2>8
  <1>4. QED
    BY ONLY <1>1, <1>2, <1>3, n \in Nat DEF WalkEnds

(* The search stays within the list, and finds the place of the topic when *)
(* the list is in order.                                                   *)
LEMMA FindPositionIs ==
  ASSUME topicStats \in Seq(Stat), NEW top \in Nat, \A q \in Topics : q \in Nat
  PROVE  /\ FindPosition(top) \in 1..Len(topicStats) + 1
         /\ Sorted(topicStats) => IsPlace(topicStats, top, FindPosition(top))
  <1> PICK s : s = topicStats
    OBVIOUS
  <1> PICK n : n = Len(s)
    OBVIOUS
  <1>1. n \in Nat /\ \A i \in 1..n : s[i].topic \in Nat
    <2>1. n \in Nat /\ \A i \in 1..n : s[i] \in Stat
      BY ONLY topicStats \in Seq(Stat), s = topicStats, n = Len(s)
    <2>2. \A x \in Stat : x.topic \in Topics
      BY DEF Stat
    <2>3. QED
      BY ONLY <2>1, <2>2, \A q \in Topics : q \in Nat
  <1> PICK D : D = (1..n + 1) \X (0..n)
    OBVIOUS
  <1>2. PICK w \in [D -> 1..n + 1] :
           w = [r \in D |-> IF r \in Stops(s, top, D) THEN Result(D)[r]
                            ELSE w[Onward(s, top, D)[r]]]
    <2>1. WalkEnds(D, 1..n + 1, Stops(s, top, D), Onward(s, top, D), Result(D), Gap(D), n)
      BY ONLY <1>1, D = (1..n + 1) \X (0..n), SearchEnds
    <2> DEFINE St == Stops(s, top, D)
               On == Onward(s, top, D)
               Re == Result(D)
               Ga == Gap(D)
               V  == 1..n + 1
    <2>2. WalkEnds(D, V, St, On, Re, Ga, n)
      BY ONLY <2>1
    <2>3. \E f \in [D -> V] : f = [r \in D |-> IF r \in St THEN Re[r] ELSE f[On[r]]]
      <3> HIDE DEF St, On, Re, Ga, V
      <3> QED BY ONLY <2>2, WalkExists
    <2>4. QED
      BY ONLY <2>3
  <1>3. \A r \in D : r \in Stops(s, top, D) => w[r] = Result(D)[r]
    BY ONLY <1>2
  <1>4. \A r \in D : r \notin Stops(s, top, D) => w[r] = w[Onward(s, top, D)[r]]
    BY ONLY <1>2
  <1>5. ASSUME NEW r \in D
        PROVE  w[r] = IF r[1] > r[2] THEN r[1]
                      ELSE IF top > s[Mid(r)].topic THEN w[<<Mid(r) + 1, r[2]>>]
                      ELSE IF top < s[Mid(r)].topic THEN w[<<r[1], Mid(r) - 1>>]
                      ELSE Mid(r)
    <2>1. CASE r[1] > r[2]
      <3>1. r \in Stops(s, top, D) /\ Result(D)[r] = r[1]
        BY ONLY <2>1, r \in D DEF Stops, Result
      <3>2. QED
        BY ONLY <1>3, <2>1, <3>1, r \in D
    <2>2. CASE ~(r[1] > r[2])
      <3>1. Mid(r) \in 1..n
        BY ONLY <1>1, <2>2, r \in D, D = (1..n + 1) \X (0..n), MidIs
      <3>2. s[Mid(r)].topic \in Nat
        BY ONLY <1>1, <3>1
      <3>3. CASE s[Mid(r)].topic = top
        <4>1. r \in Stops(s, top, D) /\ Result(D)[r] = Mid(r)
          BY ONLY <2>2, <3>3, r \in D DEF Stops, Result
        <4>2. QED
          BY ONLY <1>3, <2>2, <3>2, <3>3, <4>1, r \in D
      <3>4. CASE s[Mid(r)].topic # top
        <4>1. r \notin Stops(s, top, D)
          BY ONLY <2>2, <3>4, r \in D, Zenon DEF Stops
        <4>2. Onward(s, top, D)[r] = IF top > s[Mid(r)].topic THEN <<Mid(r) + 1, r[2]>>
                                     ELSE <<r[1], Mid(r) - 1>>
          BY ONLY r \in D, Zenon DEF Onward
        <4>3. w[r] = w[Onward(s, top, D)[r]]
          BY ONLY <1>4, <4>1, r \in D
        <4>4. top > s[Mid(r)].topic \/ top < s[Mid(r)].topic
          BY ONLY <3>2, <3>4, top \in Nat
        <4>5. ~(top > s[Mid(r)].topic /\ top < s[Mid(r)].topic)
          BY ONLY <3>2, top \in Nat
        <4>6. QED
          BY ONLY <2>2, <4>2, <4>3, <4>4, <4>5
      <3>5. QED
        BY <3>3, <3>4
    <2>3. QED
      BY <2>1, <2>2
  <1>6. w = [r \in D |-> IF r[1] > r[2] THEN r[1]
                         ELSE IF top > s[Mid(r)].topic THEN w[<<Mid(r) + 1, r[2]>>]
                         ELSE IF top < s[Mid(r)].topic THEN w[<<r[1], Mid(r) - 1>>]
                         ELSE Mid(r)]
    <2>1. w = [r \in D |-> w[r]]
      BY ONLY <1>2
    <2>2. QED
      BY ONLY <1>5, <2>1, Zenon
  <1>7. PICK u : /\ FindPosition(top) = u[<<1, n>>]
                 /\ u = [r \in D |-> IF r[1] > r[2] THEN r[1]
                                     ELSE IF top > s[Mid(r)].topic THEN u[<<Mid(r) + 1, r[2]>>]
                                     ELSE IF top < s[Mid(r)].topic THEN u[<<r[1], Mid(r) - 1>>]
                                     ELSE Mid(r)]
    <2> DEFINE Eq(v) == v = [r \in D |-> IF r[1] > r[2] THEN r[1]
                             ELSE IF top > s[Mid(r)].topic THEN v[<<Mid(r) + 1, r[2]>>]
                             ELSE IF top < s[Mid(r)].topic THEN v[<<r[1], Mid(r) - 1>>]
                             ELSE Mid(r)]
               c == CHOOSE v : Eq(v)
    <2>1. FindPosition(top) = c[<<1, n>>]
      BY ONLY s = topicStats, n = Len(s), D = (1..n + 1) \X (0..n) DEF FindPosition, Mid
    <2>2. Eq(w)
      BY ONLY <1>6
    <2>3. Eq(c)
      <3> HIDE DEF Eq
      <3> QED BY ONLY <2>2, Zenon
    <2> HIDE DEF c
    <2>4. QED
      BY ONLY <2>1, <2>3
  (* What is wrong of u is wrong for a first time.                         *)
  <1>8. \A r \in D : u[r] = IF r[1] > r[2] THEN r[1]
                            ELSE IF top > s[Mid(r)].topic THEN u[<<Mid(r) + 1, r[2]>>]
                            ELSE IF top < s[Mid(r)].topic THEN u[<<r[1], Mid(r) - 1>>]
                            ELSE Mid(r)
    BY ONLY <1>7
  <1> DEFINE Reached(r) == /\ r[1] <= r[2] + 1
                           /\ Sorted(s) => \A i \in 1..n : /\ i < r[1] => s[i].topic < top
                                                           /\ i > r[2] => top < s[i].topic
             Good(r) == u[r] \in 1..n + 1 /\ (Sorted(s) => IsPlace(s, top, u[r]))
             Bad == {r \in D : Reached(r) /\ ~Good(r)}
  <1>9. ASSUME NEW r \in D, Reached(r), r[1] > r[2] PROVE Good(r)
    <2>0. r[1] \in 1..n + 1 /\ r[2] \in 0..n
      BY ONLY r \in D, D = (1..n + 1) \X (0..n)
    <2>a. u[r] = r[1] /\ r[1] <= r[2] + 1
      BY ONLY <1>8, <1>9, r \in D
    <2>1. u[r] = r[1] /\ r[1] \in 1..n + 1 /\ r[2] \in 0..n /\ r[1] = r[2] + 1
      BY ONLY <1>9, <1>1, <2>0, <2>a
    <2>2. Sorted(s) => \A i \in 1..n : /\ i < r[1] => s[i].topic < top
                                       /\ r[1] <= i => top < s[i].topic
      BY ONLY <1>9, <2>1
    <2>3. QED
      BY ONLY <2>1, <2>2, n = Len(s) DEF IsPlace
  <1>10. ASSUME NEW r \in D, Reached(r), ~(r[1] > r[2])
         PROVE  \/ Good(r)
                \/ \E q \in D : Reached(q) /\ u[q] = u[r] /\ Gap(D)[q] < Gap(D)[r]
    <2> PICK m : m = Mid(r)
      OBVIOUS
    <2>1. /\ r[1] \in Nat /\ r[2] \in Nat /\ r[1] >= 1 /\ r[2] <= n
          /\ m \in 1..n /\ r[1] <= m /\ m <= r[2]
          /\ <<m + 1, r[2]>> \in D /\ <<r[1], m - 1>> \in D
      BY ONLY <1>1, <1>10, r \in D, D = (1..n + 1) \X (0..n), m = Mid(r), MidIs
    <2>2. \A q \in D : Gap(D)[q] = IF q[1] > q[2] THEN 0 ELSE q[2] - q[1] + 1
      BY ONLY Zenon DEF Gap
    <2>3. \A a, b : <<a, b>>[1] = a /\ <<a, b>>[2] = b
      OBVIOUS
    <2>4. s[m].topic \in Nat
      BY ONLY <1>1, <2>1
    <2>a. u[r] = IF top > s[m].topic THEN u[<<m + 1, r[2]>>]
                 ELSE IF top < s[m].topic THEN u[<<r[1], m - 1>>]
                 ELSE m
      <3>1. u[r] = IF r[1] > r[2] THEN r[1]
                   ELSE IF top > s[Mid(r)].topic THEN u[<<Mid(r) + 1, r[2]>>]
                   ELSE IF top < s[Mid(r)].topic THEN u[<<r[1], Mid(r) - 1>>]
                   ELSE Mid(r)
        BY ONLY <1>8, r \in D
      <3>2. QED
        BY ONLY <1>10, <3>1, m = Mid(r)
    <2>5. CASE s[m].topic = top
      <3>1. u[r] = m
        BY ONLY <2>a, <2>4, <2>5, top \in Nat
      <3>2. QED
        BY ONLY <1>1, <2>1, <2>5, <3>1, n = Len(s) DEF IsPlace
    <2>6. CASE top > s[m].topic
      <3> PICK q : q = <<m + 1, r[2]>>
        OBVIOUS
      <3>1. q \in D /\ q[1] = m + 1 /\ q[2] = r[2]
        BY ONLY <2>1, <2>3, q = <<m + 1, r[2]>>
      <3>2. u[q] = u[r]
        BY ONLY <2>a, <2>6, Zenon, q = <<m + 1, r[2]>>
      <3>3. Gap(D)[q] < Gap(D)[r]
        BY ONLY <1>1, <1>10, <2>1, <2>2, <3>1, r \in D
      <3>4. ASSUME Sorted(s), NEW i \in 1..n, i < m + 1 PROVE s[i].topic < top
        <4>0. i = m \/ i < m
          BY ONLY <1>1, <2>1, <3>4
        <4>1. i = m \/ s[i].topic < s[m].topic
          BY ONLY <2>1, <3>4, <4>0, n = Len(s) DEF Sorted
        <4>2. s[i].topic \in Nat
          BY ONLY <1>1, <3>4
        <4>3. QED
          BY ONLY <2>4, <2>6, <4>1, <4>2, top \in Nat
      <3>5. Reached(q)
        <4>1. q[1] <= q[2] + 1
          BY ONLY <2>1, <3>1
        <4>2. Sorted(s) => \A i \in 1..n : i > q[2] => top < s[i].topic
          BY ONLY <1>10, <3>1
        <4>3. QED
          BY ONLY <3>1, <3>4, <4>1, <4>2
      <3>6. QED
        BY ONLY <3>1, <3>2, <3>3, <3>5
    <2>7. CASE top < s[m].topic
      <3> PICK q : q = <<r[1], m - 1>>
        OBVIOUS
      <3>1. q \in D /\ q[1] = r[1] /\ q[2] = m - 1
        BY ONLY <2>1, <2>3, q = <<r[1], m - 1>>
      <3>a. ~(top > s[m].topic)
        BY ONLY <2>4, <2>7, top \in Nat
      <3>2. u[q] = u[r]
        BY ONLY <2>a, <2>7, <3>a, q = <<r[1], m - 1>>
      <3>3. Gap(D)[q] < Gap(D)[r]
        BY ONLY <1>1, <1>10, <2>1, <2>2, <3>1, r \in D
      <3>4. ASSUME Sorted(s), NEW i \in 1..n, i > m - 1 PROVE top < s[i].topic
        <4>1. i = m \/ s[m].topic < s[i].topic
          BY ONLY <1>1, <2>1, <3>4, n = Len(s) DEF Sorted
        <4>2. s[i].topic \in Nat
          BY ONLY <1>1, <3>4
        <4>3. QED
          BY ONLY <2>4, <2>7, <4>1, <4>2, top \in Nat
      <3>5. Reached(q)
        <4>1. q[1] <= q[2] + 1
          BY ONLY <2>1, <3>1
        <4>2. Sorted(s) => \A i \in 1..n : i < q[1] => s[i].topic < top
          BY ONLY <1>10, <3>1
        <4>3. QED
          BY ONLY <3>1, <3>4, <4>1, <4>2
      <3>6. QED
        BY ONLY <3>1, <3>2, <3>3, <3>5
    <2>8. QED
      BY ONLY <2>4, <2>5, <2>6, <2>7, top \in Nat
  <1>11. Bad = {}
    <2>1. SUFFICES ASSUME Bad # {} PROVE FALSE
      OBVIOUS
    <2>2. Gap(D) \in [D -> Nat]
      BY ONLY <1>1, D = (1..n + 1) \X (0..n), SearchEnds DEF WalkEnds
    <2>3. PICK r \in Bad : \A q \in Bad : Gap(D)[r] <= Gap(D)[q]
      <3>1. Bad \subseteq D
        OBVIOUS
      <3> HIDE DEF Bad
      <3>2. QED
        BY ONLY <2>1, <2>2, <3>1, LeastRank
    <2>4. r \in D /\ Reached(r) /\ ~Good(r)
      BY ONLY <2>3
    <2>5. PICK q \in D : Reached(q) /\ u[q] = u[r] /\ Gap(D)[q] < Gap(D)[r]
      <3> HIDE DEF Reached, Good
      <3> QED BY ONLY <1>9, <1>10, <2>4
    <2>6. ~Good(q)
      BY ONLY <2>4, <2>5
    <2>7. q \in Bad
      <3> HIDE DEF Reached, Good
      <3> QED BY ONLY <2>5, <2>6
    <2>8. Gap(D)[r] <= Gap(D)[q]
      BY ONLY <2>3, <2>7
    <2>9. Gap(D)[r] \in Nat /\ Gap(D)[q] \in Nat
      BY ONLY <2>2, <2>4, <2>5
    <2>10. QED
      BY ONLY <2>5, <2>8, <2>9
  <1>12. <<1, n>> \in D /\ Reached(<<1, n>>)
    BY ONLY <1>1, D = (1..n + 1) \X (0..n)
  <1>13. Good(<<1, n>>)
    <2> HIDE DEF Reached, Good
    <2> QED BY ONLY <1>11, <1>12
  <1>14. QED
    BY ONLY <1>7, <1>13, s = topicStats, n = Len(s)
-----------------------------------------------------------------------------
(* Sums over finite sets, in any order.                                    *)

(* The element a sum over s takes first, and what it goes on with.         *)
First(s) == CHOOSE x \in s : TRUE
Rest(s)  == s \ {First(s)}

(* g gives, for the sets of D, or for the subsets of S, the sums of f.     *)
Recurs(g, f, D) ==
  g = [s \in D |-> IF s = {} THEN 0 ELSE f[First(s)] + g[Rest(s)]]

SumsUp(g, f, S) ==
  \A s \in SUBSET S : g[s] = IF s = {} THEN 0 ELSE f[First(s)] + g[Rest(s)]

(* The sets of at most k elements.                                        *)
Small(S, k) == {s \in SUBSET S : Cardinality(s) <= k}

(* All the subsets of a finite set are in a class that has the empty one   *)
(* and, with the rest of a set, that set.                                  *)
LEMMA SubsetInduction ==
  ASSUME NEW S, NEW P, IsFiniteSet(S),
         {} \in P,
         \A s \in SUBSET S : s # {} /\ Rest(s) \in P => s \in P
  PROVE  SUBSET S \subseteq P
  <1> SUFFICES ASSUME (SUBSET S) \ P # {} PROVE FALSE
    OBVIOUS
  <1> DEFINE size == [s \in SUBSET S |-> Cardinality(s)]
  <1>1. size \in [SUBSET S -> Nat] /\ \A s \in SUBSET S : IsFiniteSet(s)
    BY FS_Subset, FS_CardinalityType
  <1>2. PICK s \in (SUBSET S) \ P : \A r \in (SUBSET S) \ P : size[s] <= size[r]
    <2> PICK C : C = (SUBSET S) \ P
      OBVIOUS
    <2>1. C \subseteq SUBSET S /\ C # {}
      BY C = (SUBSET S) \ P
    <2> HIDE DEF size
    <2>2. \E s \in C : \A r \in C : size[s] <= size[r]
      BY ONLY <1>1, <2>1, LeastRank
    <2>3. QED
      BY ONLY <2>2, C = (SUBSET S) \ P
  <1>3. s # {} /\ First(s) \in s
    BY <1>2 DEF First
  <1>4. Rest(s) \in (SUBSET S) \ P
    BY <1>2, <1>3 DEF Rest
  <1>5. Cardinality(Rest(s)) = Cardinality(s) - 1
    BY <1>1, <1>3, FS_RemoveElement DEF Rest
  <1>6. Cardinality(s) \in Nat /\ Cardinality(s) <= Cardinality(Rest(s))
    BY <1>1, <1>2, <1>4
  <1>7. QED
    BY <1>5, <1>6

(* The sums over the subsets of a finite set exist.                        *)
LEMMA SumsExist ==
  ASSUME NEW S, NEW f, IsFiniteSet(S)
  PROVE  \E g : Recurs(g, f, SUBSET S)
  <1> DEFINE Upto(k) == \E g : Recurs(g, f, Small(S, k))
             Bad == {k \in Nat : ~ Upto(k)}
  <1>0. \A s \in SUBSET S : IsFiniteSet(s) /\ Cardinality(s) \in Nat
    BY FS_Subset, FS_CardinalityType
  <1>1. \A s \in SUBSET S : s # {} =>
          Rest(s) \in SUBSET S /\ Cardinality(Rest(s)) = Cardinality(s) - 1
    BY <1>0, FS_RemoveElement DEF First, Rest
  <1>2. Upto(0)
    <2> DEFINE z == [s \in Small(S, 0) |-> 0]
    <2>1. \A s \in Small(S, 0) : s = {}
      BY <1>0, FS_EmptySet DEF Small
    <2>2. z = [s \in Small(S, 0) |-> IF s = {} THEN 0 ELSE f[First(s)] + z[Rest(s)]]
      BY <2>1
    <2> HIDE DEF z
    <2>3. QED
      BY <2>2 DEF Recurs
  <1>3. ASSUME NEW k \in Nat, Upto(k) PROVE Upto(k + 1)
    <2>1. PICK g : g = [s \in Small(S, k) |-> IF s = {} THEN 0 ELSE f[First(s)] + g[Rest(s)]]
      BY <1>3 DEF Recurs
    <2> DEFINE h == [s \in Small(S, k + 1) |-> IF s = {} THEN 0 ELSE f[First(s)] + g[Rest(s)]]
    <2>2. \A s \in Small(S, k + 1) : s # {} => Rest(s) \in Small(S, k) /\ Rest(s) \in Small(S, k + 1)
      BY <1>0, <1>1 DEF Small
    <2>3. \A s \in Small(S, k) : s \in Small(S, k + 1) /\ h[s] = g[s]
      <3>1. \A s \in Small(S, k) : s \in Small(S, k + 1)
        BY <1>0 DEF Small
      <3>2. \A s \in Small(S, k) : g[s] = IF s = {} THEN 0 ELSE f[First(s)] + g[Rest(s)]
        BY <2>1
      <3>3. QED
        BY <3>1, <3>2
    <2>4. \A s \in Small(S, k + 1) : h[s] = IF s = {} THEN 0 ELSE f[First(s)] + h[Rest(s)]
      BY <2>2, <2>3
    <2>5. h = [s \in Small(S, k + 1) |-> h[s]]
      OBVIOUS
    <2> HIDE DEF h
    <2>6. h = [s \in Small(S, k + 1) |-> IF s = {} THEN 0 ELSE f[First(s)] + h[Rest(s)]]
      BY <2>4, <2>5
    <2>7. QED
      BY <2>6 DEF Recurs
  <1>4. Bad = {}
    <2> SUFFICES ASSUME Bad # {} PROVE FALSE
      OBVIOUS
    <2>1. PICK k \in Bad : \A n \in Bad : k <= n
      <3>1. Bad \subseteq Nat
        OBVIOUS
      <3> HIDE DEF Bad
      <3>2. QED
        BY <3>1, NatMin
    <2>2. k \in Nat /\ k # 0 /\ ~ Upto(k)
      BY <1>2, <2>1
    <2>3. k - 1 \in Nat /\ k - 1 \notin Bad
      BY <2>1, <2>2
    <2>4. Upto(k - 1)
      BY <2>3
    <2> HIDE DEF Upto
    <2>5. k = (k - 1) + 1
      BY <2>2
    <2>6. QED
      BY <1>3, <2>2, <2>3, <2>4, <2>5
  <1>5. Cardinality(S) \in Nat /\ Small(S, Cardinality(S)) = SUBSET S
    BY FS_CardinalityType, FS_Subset, <1>0 DEF Small
  <1>6. Upto(Cardinality(S))
    BY <1>4, <1>5
  <1>7. QED
    BY <1>5, <1>6

(* The sum over a set may take any element first.                          *)
Summable(S, f, g) == IsFiniteSet(S) /\ SumsUp(g, f, S) /\ \A x \in S : f[x] \in Nat
(* The sum over a set is any of its elements and the sum over the rest,    *)
(* whichever one CHOOSE takes.                                             *)
LEMMA AnyFirst ==
  ASSUME NEW S, NEW f, NEW g, Summable(S, f, g)
  PROVE  \A s \in SUBSET S : g[s] \in Nat /\ \A x \in s : g[s] = f[x] + g[s \ {x}]
  <1>0. IsFiniteSet(S) /\ SumsUp(g, f, S) /\ \A x \in S : f[x] \in Nat
    BY ONLY Summable(S, f, g) DEF Summable
  <1>1. \A s \in SUBSET S : s # {} =>
          First(s) \in s /\ First(s) \in S /\ Rest(s) = s \ {First(s)}
    BY DEF First, Rest
  <1>2. \A s \in SUBSET S : g[s] = IF s = {} THEN 0 ELSE f[First(s)] + g[s \ {First(s)}]
    <2>1. \A s \in SUBSET S : g[s] = IF s = {} THEN 0 ELSE f[First(s)] + g[Rest(s)]
      BY ONLY <1>0, Zenon DEF SumsUp
    <2>2. QED
      BY ONLY <1>1, <2>1
  <1> DEFINE size == [s \in SUBSET S |-> Cardinality(s)]
             Good(s) == g[s] \in Nat /\ \A x \in s : g[s] = f[x] + g[s \ {x}]
             Bad == {s \in SUBSET S : ~Good(s)}
  <1>3. size \in [SUBSET S -> Nat] /\ \A s \in SUBSET S : IsFiniteSet(s)
    BY <1>0, FS_Subset, FS_CardinalityType
  <1>4. Bad = {}
    <2>1. SUFFICES ASSUME Bad # {} PROVE FALSE
      OBVIOUS
    <2>2. PICK s \in Bad : \A r \in Bad : size[s] <= size[r]
      <3>1. Bad \subseteq SUBSET S
        OBVIOUS
      <3> HIDE DEF Bad, size
      <3>2. QED
        BY ONLY <1>3, <2>1, <3>1, LeastRank
    <2>3. s \in SUBSET S /\ ~Good(s)
      BY ONLY <2>2
    <2>4. ASSUME NEW x \in s PROVE Good(s \ {x})
      <3>1. SUFFICES ASSUME ~Good(s \ {x}) PROVE FALSE
        OBVIOUS
      <3>2. s \ {x} \in SUBSET S
        BY ONLY <2>3
      <3>3. s \ {x} \in Bad
        <4> HIDE DEF Good
        <4> QED BY ONLY <3>1, <3>2
      <3>4. Cardinality(s) <= Cardinality(s \ {x})
        BY ONLY <2>2, <2>3, <3>2, <3>3
      <3>5. Cardinality(s \ {x}) = Cardinality(s) - 1 /\ Cardinality(s) \in Nat
        <4>1. IsFiniteSet(s)
          BY ONLY <1>3, <2>3
        <4>2. QED
          <5>1. Cardinality(s) \in Nat
            BY ONLY <4>1, FS_CardinalityType
          <5>2. Cardinality(s \ {x}) = Cardinality(s) - 1
            BY ONLY <4>1, x \in s, FS_RemoveElement
          <5>3. QED
            BY ONLY <5>1, <5>2
      <3>6. QED
        BY ONLY <3>4, <3>5
    <2>5. s # {}
      <3>1. SUFFICES ASSUME s = {} PROVE FALSE
        OBVIOUS
      <3>2. g[s] = 0
        BY ONLY <1>2, <2>3, <3>1
      <3>3. Good(s)
        BY ONLY <3>1, <3>2
      <3>4. QED
        BY ONLY <2>3, <3>3
    <2> PICK y : y = First(s)
      OBVIOUS
    <2>6. y \in s /\ f[y] \in Nat /\ g[s] = f[y] + g[s \ {y}] /\ g[s \ {y}] \in Nat
      BY ONLY <1>1, <1>2, <2>3, <2>4, <2>5, y = First(s), <1>0
    <2>7. ASSUME NEW x \in s, x # y PROVE g[s] = f[x] + g[s \ {x}]
      <3>1. x \in s \ {y} /\ y \in s \ {x} /\ (s \ {x}) \ {y} = (s \ {y}) \ {x}
        BY ONLY <2>6, <2>7
      <3>2. g[s \ {y}] = f[x] + g[(s \ {y}) \ {x}]
        BY ONLY <2>4, <2>6, <3>1
      <3>3. g[s \ {x}] = f[y] + g[(s \ {x}) \ {y}]
        BY ONLY <2>4, <3>1, x \in s
      <3>4. g[(s \ {x}) \ {y}] \in Nat
        <4>1. Good(s \ {x})
          BY ONLY <2>4, x \in s
        <4>2. (s \ {x}) \ {y} \in SUBSET S
          BY ONLY <2>3
        <4>3. SUFFICES ASSUME ~Good((s \ {x}) \ {y}) PROVE FALSE
          OBVIOUS
        <4>4. (s \ {x}) \ {y} \in Bad
          <5> HIDE DEF Good
          <5> QED BY ONLY <4>2, <4>3
        <4>5. Cardinality(s) <= Cardinality((s \ {x}) \ {y})
          BY ONLY <2>2, <2>3, <4>2, <4>4
        <4>6. /\ Cardinality(s \ {x}) = Cardinality(s) - 1 /\ Cardinality(s) \in Nat
              /\ Cardinality((s \ {x}) \ {y}) = Cardinality(s \ {x}) - 1
          <5>1. IsFiniteSet(s) /\ IsFiniteSet(s \ {x})
            BY ONLY <1>3, <2>3, FS_RemoveElement
          <5>2. QED
            BY ONLY <3>1, <5>1, x \in s, FS_RemoveElement, FS_CardinalityType
        <4>7. QED
          BY ONLY <4>5, <4>6
      <3>5. f[x] \in Nat /\ f[y] \in Nat
        BY ONLY <2>3, <2>6, x \in s, <1>0
      <3>6. QED
        BY ONLY <2>6, <3>1, <3>2, <3>3, <3>4, <3>5
    <2>8. Good(s)
      <3>1. g[s] \in Nat
        BY ONLY <2>6
      <3>2. \A x \in s : g[s] = f[x] + g[s \ {x}]
        BY ONLY <2>6, <2>7
      <3>3. QED
        BY ONLY <3>1, <3>2
    <2>9. QED
      BY ONLY <2>3, <2>8
  <1>5. QED
    BY ONLY <1>4

(* Two sums are the same when their elements are, one by one.              *)
Alike(S, R, f, h, g, k, b, T, I) ==
  /\ I = {b[x] : x \in T}
  /\ T \in SUBSET S
  /\ IsFiniteSet(S) /\ SumsUp(g, f, S) /\ \A x \in S : f[x] \in Nat
  /\ IsFiniteSet(R) /\ SumsUp(k, h, R) /\ \A x \in R : h[x] \in Nat
  /\ \A x \in T : b[x] \in R /\ h[b[x]] = f[x]
  /\ \A x, y \in T : b[x] = b[y] => x = y
(* A sum does not depend on how its elements are named.                    *)
LEMMA SumsAgree ==
  ASSUME NEW S, NEW R, NEW f, NEW h, NEW g, NEW k, NEW b, NEW T, NEW I,
         Alike(S, R, f, h, g, k, b, T, I)
  PROVE  k[I] = g[T]
  <1>a. I = {b[x] : x \in T} /\ T \in SUBSET S
    BY ONLY Alike(S, R, f, h, g, k, b, T, I) DEF Alike
  <1>b. IsFiniteSet(S) /\ SumsUp(g, f, S) /\ \A x \in S : f[x] \in Nat
    BY ONLY Alike(S, R, f, h, g, k, b, T, I) DEF Alike
  <1>c. IsFiniteSet(R) /\ SumsUp(k, h, R) /\ \A x \in R : h[x] \in Nat
    BY ONLY Alike(S, R, f, h, g, k, b, T, I) DEF Alike
  <1>d. /\ \A x \in T : b[x] \in R /\ h[b[x]] = f[x]
        /\ \A x, y \in T : b[x] = b[y] => x = y
    BY ONLY Alike(S, R, f, h, g, k, b, T, I) DEF Alike
  <1> DEFINE image(s) == {b[x] : x \in s}
             P == {s \in SUBSET S : s \subseteq T => k[image(s)] = g[s]}
  <1>1. \A s \in SUBSET R : k[s] \in Nat /\ \A x \in s : k[s] = h[x] + k[s \ {x}]
    <2>1. Summable(R, h, k)
      BY ONLY <1>c DEF Summable
    <2>2. QED
      BY ONLY <2>1, AnyFirst
  <1>2. \A s \in SUBSET S : g[s] = IF s = {} THEN 0 ELSE f[First(s)] + g[Rest(s)]
    BY ONLY <1>b, Zenon DEF SumsUp
  <1>3. k[{}] = 0
    BY ONLY <1>c DEF SumsUp
  <1>4. ASSUME NEW s \in SUBSET S, s # {}, Rest(s) \in P, s \subseteq T
        PROVE  k[image(s)] = g[s]
    <2> PICK y : y = First(s)
      OBVIOUS
    <2>1. y \in s /\ y \in T /\ Rest(s) = s \ {y} /\ Rest(s) \subseteq T
      BY ONLY <1>4, s \in SUBSET S, y = First(s) DEF First, Rest
    <2>2. image(s) \in SUBSET R /\ b[y] \in image(s)
      BY ONLY <2>1, <1>4, <1>d
    <2>3. image(s) \ {b[y]} = image(Rest(s))
      BY ONLY <2>1, <1>4, <1>d
    <2>4. k[image(s)] = h[b[y]] + k[image(Rest(s))]
      <3> HIDE DEF image
      <3> QED BY ONLY <1>1, <2>2, <2>3
    <2>5. k[image(Rest(s))] = g[Rest(s)]
      BY ONLY <1>4, <2>1
    <2>6. h[b[y]] = f[y]
      BY ONLY <2>1, <1>d
    <2>7. QED
      BY ONLY <1>2, <1>4, <2>4, <2>5, <2>6, y = First(s)
  <1>5. SUBSET S \subseteq P
    <2>1. {} \in P
      <3>1. image({}) = {} /\ g[{}] = 0
        BY ONLY <1>2
      <3>2. QED
        BY ONLY <1>3, <3>1
    <2>2. \A s \in SUBSET S : s # {} /\ Rest(s) \in P => s \in P
      BY ONLY <1>4
    <2> HIDE DEF P
    <2>3. QED
      BY ONLY <2>1, <2>2, <1>b, SubsetInduction
  <1>6. QED
    BY ONLY <1>5, <1>a
-----------------------------------------------------------------------------
(* The list of counts as a sum.                                            *)

Counts(s) == [i \in 1..Len(s) |-> s[i].count]
(* Sum, which folds over a list, is the sum of its counts over all places. *)
LEMMA SumIs ==
  ASSUME NEW s \in Seq(Stat)
  PROVE  /\ \E g : Sum(s) = g[1..Len(s)] /\ SumsUp(g, Counts(s), 1..Len(s))
         /\ IsFiniteSet(1..Len(s)) /\ \A i \in 1..Len(s) : Counts(s)[i] \in Nat
  <1> PICK D : D = 1..Len(s)
    OBVIOUS
  <1>1. Len(s) \in Nat /\ DOMAIN s = D /\ \A i \in D : s[i].count \in Nat
    <2>1. Len(s) \in Nat /\ DOMAIN s = D /\ \A i \in D : s[i] \in Stat
      BY ONLY s \in Seq(Stat), D = 1..Len(s)
    <2>2. \A x \in Stat : x.count \in Nat
      BY DEF Stat
    <2>3. QED
      BY ONLY <2>1, <2>2
  <1>2. IsFiniteSet(D)
    BY <1>1, D = 1..Len(s), FS_Interval
  <1>3. \A i \in D : Counts(s)[i] = s[i].count
    BY D = 1..Len(s) DEF Counts
  <1> DEFINE Eq(g) == g = [r \in SUBSET D |-> IF r = {} THEN 0
                                              ELSE s[First(r)].count + g[Rest(r)]]
             h == CHOOSE g : Eq(g)
  <1>4. Sum(s) = h[D]
    BY <1>1 DEF Sum, MapThenSumSet, MapThenFoldSet, First, Rest
  <1>5. \A r \in SUBSET D : r # {} => First(r) \in D
    BY DEF First
  <1>6. \E g : Eq(g)
    <2>1. PICK g : Recurs(g, Counts(s), SUBSET D)
      BY <1>2, SumsExist
    <2>2. g = [r \in SUBSET D |-> IF r = {} THEN 0 ELSE Counts(s)[First(r)] + g[Rest(r)]]
      BY <2>1, Zenon DEF Recurs
    <2>3. \A r \in SUBSET D :
            (IF r = {} THEN 0 ELSE Counts(s)[First(r)] + g[Rest(r)])
              = IF r = {} THEN 0 ELSE s[First(r)].count + g[Rest(r)]
      BY <1>3, <1>5
    <2>4. Eq(g)
      BY ONLY <2>2, <2>3, Zenon
    <2>5. QED
      BY ONLY <2>4
  <1>7. Eq(h)
    BY ONLY <1>6
  <1> HIDE DEF h
  <1>8. \A r \in SUBSET D : h[r] = IF r = {} THEN 0 ELSE s[First(r)].count + h[Rest(r)]
    BY ONLY <1>7
  <1>9. SumsUp(h, Counts(s), D)
    BY ONLY <1>3, <1>5, <1>8 DEF SumsUp
  <1>10. QED
    BY ONLY <1>1, <1>2, <1>3, <1>4, <1>9, D = 1..Len(s)

(* One count changes.                                                      *)
IsPut(s, p, c, u) ==
  s \in Seq(Stat) /\ p \in 1..Len(s) /\ c \in Nat /\ u = [s EXCEPT ![p].count = c]
(* A count that is written changes the sum by the difference, as the       *)
(* update of CalStat does.                                                 *)
LEMMA SumPut ==
  ASSUME NEW s, NEW p, NEW c, NEW u, IsPut(s, p, c, u)
  PROVE  /\ u \in Seq(Stat) /\ Len(u) = Len(s)
         /\ \A i \in 1..Len(s) : u[i].topic = s[i].topic
         /\ \A i \in 1..Len(s) : u[i].count = IF i = p THEN c ELSE s[i].count
         /\ Sum(s) \in Nat /\ Sum(u) \in Nat /\ Sum(u) + s[p].count = Sum(s) + c
  <1>0. s \in Seq(Stat) /\ p \in 1..Len(s) /\ c \in Nat /\ u = [s EXCEPT ![p].count = c]
    BY ONLY IsPut(s, p, c, u) DEF IsPut
  <1> USE <1>0
  <1> PICK D : D = 1..Len(s)
    OBVIOUS
  <1>1. /\ u \in Seq(Stat) /\ Len(u) = Len(s)
        /\ \A i \in 1..Len(s) : u[i].topic = s[i].topic
        /\ \A i \in 1..Len(s) : u[i].count = IF i = p THEN c ELSE s[i].count
    <2>1. s[p] \in Stat
      BY ONLY <1>0
    <2> PICK e : e = [s[p] EXCEPT !.count = c]
      OBVIOUS
    <2>2. e \in Stat /\ e.topic = s[p].topic /\ e.count = c
      BY <2>1, e = [s[p] EXCEPT !.count = c] DEF Stat
    <2>3. u = [s EXCEPT ![p] = e]
      BY ONLY <1>0, e = [s[p] EXCEPT !.count = c], Zenon
    <2>4. /\ u \in Seq(Stat) /\ Len(u) = Len(s)
          /\ \A i \in 1..Len(s) : u[i] = IF i = p THEN e ELSE s[i]
      BY ONLY <2>2, <2>3, <1>0
    <2>5. QED
      BY ONLY <2>2, <2>4
  <1>2. PICK g : Sum(s) = g[D] /\ SumsUp(g, Counts(s), D)
    BY D = 1..Len(s), SumIs
  <1>3. PICK k : Sum(u) = k[D] /\ SumsUp(k, Counts(u), D)
    BY <1>1, D = 1..Len(s), SumIs
  <1>4. /\ IsFiniteSet(D) /\ \A i \in D : Counts(s)[i] \in Nat
        /\ \A i \in D : Counts(u)[i] \in Nat
    BY <1>1, D = 1..Len(s), SumIs
  <1>5. p \in D /\ Counts(s)[p] = s[p].count /\ Counts(u)[p] = c
    BY <1>1, D = 1..Len(s) DEF Counts
  <1>a. D \in SUBSET D /\ D \ {p} \in SUBSET D
    OBVIOUS
  <1>6. g[D] \in Nat /\ g[D] = Counts(s)[p] + g[D \ {p}] /\ g[D \ {p}] \in Nat
    <2> PICK F : F = Counts(s)
      OBVIOUS
    <2>a. SumsUp(g, F, D)
      BY ONLY <1>2, F = Counts(s)
    <2>b. \A x \in D : F[x] \in Nat
      BY ONLY <1>4, F = Counts(s)
    <2>c. IsFiniteSet(D)
      BY ONLY <1>4
    <2>d. Summable(D, F, g)
      BY ONLY <2>a, <2>b, <2>c DEF Summable
    <2>1. \A r \in SUBSET D : g[r] \in Nat /\ \A x \in r : g[r] = F[x] + g[r \ {x}]
      BY ONLY <2>d, AnyFirst
    <2>2. QED
      BY ONLY <1>5, <1>a, <2>1, F = Counts(s)
  <1>7. k[D] \in Nat /\ k[D] = Counts(u)[p] + k[D \ {p}]
    <2> PICK F : F = Counts(u)
      OBVIOUS
    <2>a. SumsUp(k, F, D)
      BY ONLY <1>3, F = Counts(u)
    <2>b. \A x \in D : F[x] \in Nat
      BY ONLY <1>4, F = Counts(u)
    <2>c. IsFiniteSet(D)
      BY ONLY <1>4
    <2>d. Summable(D, F, k)
      BY ONLY <2>a, <2>b, <2>c DEF Summable
    <2>1. \A r \in SUBSET D : k[r] \in Nat /\ \A x \in r : k[r] = F[x] + k[r \ {x}]
      BY ONLY <2>d, AnyFirst
    <2>2. QED
      BY ONLY <1>5, <1>a, <2>1, F = Counts(u)
  <1>8. k[D \ {p}] = g[D \ {p}]
    <2> PICK b : b = [i \in D \ {p} |-> i]
      OBVIOUS
    <2>1. {b[x] : x \in D \ {p}} = D \ {p}
      BY ONLY b = [i \in D \ {p} |-> i]
    <2>2. \A x \in D \ {p} : b[x] \in D /\ Counts(u)[b[x]] = Counts(s)[x]
      <3>1. \A x \in D \ {p} : b[x] = x
        BY ONLY b = [i \in D \ {p} |-> i]
      <3>2. \A x \in D : Counts(u)[x] = u[x].count /\ Counts(s)[x] = s[x].count
        BY ONLY <1>1, D = 1..Len(s) DEF Counts
      <3>3. QED
        BY ONLY <1>1, <3>1, <3>2, D = 1..Len(s)
    <2>3. \A x, y \in D \ {p} : b[x] = b[y] => x = y
      BY ONLY b = [i \in D \ {p} |-> i]
    <2> PICK F, G, T, I : F = Counts(s) /\ G = Counts(u) /\ T = D \ {p} /\ I = {b[x] : x \in T}
      OBVIOUS
    <2>5. k[I] = g[T]
      <3>1. SumsUp(g, F, D) /\ SumsUp(k, G, D) /\ T \in SUBSET D
        BY ONLY <1>2, <1>3, <1>a, F = Counts(s) /\ G = Counts(u) /\ T = D \ {p} /\ I = {b[x] : x \in T}
      <3>2. (\A i \in D : F[i] \in Nat) /\ \A i \in D : G[i] \in Nat
        BY ONLY <1>4, F = Counts(s) /\ G = Counts(u)
      <3>3. /\ \A x \in T : b[x] \in D /\ G[b[x]] = F[x]
            /\ \A x, y \in T : b[x] = b[y] => x = y
        BY ONLY <2>2, <2>3, F = Counts(s) /\ G = Counts(u) /\ T = D \ {p} /\ I = {b[x] : x \in T}
      <3>4. IsFiniteSet(D)
        BY ONLY <1>4
      <3>5. Alike(D, D, F, G, g, k, b, T, I)
        BY ONLY <3>1, <3>2, <3>3, <3>4, I = {b[x] : x \in T}, Zenon DEF Alike
      <3>6. QED
        BY ONLY <3>5, SumsAgree
    <2>6. QED
      BY ONLY <2>1, <2>5, F = Counts(s) /\ G = Counts(u) /\ T = D \ {p} /\ I = {b[x] : x \in T}
  <1>9. s[p].count \in Nat
    BY ONLY <1>4, <1>5
  <1>10. QED
    BY ONLY <1>1, <1>2, <1>3, <1>5, <1>6, <1>7, <1>8, <1>9, <1>0

(* An entry is put in at place p.                                          *)
Inserted(s, u, p, e) ==
  /\ u \in Seq(Stat) /\ Len(u) = Len(s) + 1
  /\ \A i \in 1..Len(s) : i < p => u[i] = s[i]
  /\ u[p] = e
  /\ \A i \in 1..Len(s) : i >= p => u[i + 1] = s[i]
(* The list that Ordered::Add builds from two parts of the old one is the  *)
(* old one with an entry put in.                                           *)
LEMMA InsertedIs ==
  ASSUME NEW s \in Seq(Stat), NEW p \in 1..Len(s) + 1, NEW e \in Stat
  PROVE  Inserted(s, SubSeq(s, 1, p - 1) \o <<e>> \o SubSeq(s, p, Len(s)), p, e)
  <1> PICK n : n = Len(s)
    OBVIOUS
  <1> DEFINE l == SubSeq(s, 1, p - 1)
             r == SubSeq(s, p, n)
  <1>1. n \in Nat /\ p \in 1..n + 1
    BY n = Len(s)
  <1>2. l \in Seq(Stat) /\ Len(l) = p - 1 /\ \A i \in 1..p - 1 : l[i] = s[i]
    BY <1>1, n = Len(s)
  <1>3. r \in Seq(Stat) /\ Len(r) = n - p + 1 /\ \A i \in 1..n - p + 1 : r[i] = s[p + i - 1]
    BY <1>1, n = Len(s)
  <1> HIDE DEF l, r
  <1> PICK m : m = l \o <<e>>
    OBVIOUS
  <1>4. m \in Seq(Stat) /\ Len(m) = p /\ m[p] = e /\ \A i \in 1..p - 1 : m[i] = s[i]
    BY ONLY <1>1, <1>2, m = l \o <<e>>, e \in Stat
  <1> PICK u : u = m \o r
    OBVIOUS
  <1>5. /\ u \in Seq(Stat) /\ Len(u) = n + 1
        /\ \A i \in 1..p : u[i] = m[i]
        /\ \A i \in p + 1..n + 1 : u[i] = r[i - p]
    <2>1. /\ u \in Seq(Stat) /\ Len(u) = Len(m) + Len(r)
          /\ \A i \in 1..Len(m) + Len(r) :
               u[i] = IF i <= Len(m) THEN m[i] ELSE r[i - Len(m)]
      BY ONLY <1>3, <1>4, u = m \o r, ConcatProperties
    <2>2. Len(m) + Len(r) = n + 1
      BY ONLY <1>1, <1>3, <1>4
    <2>3. \A i \in 1..p : i \in 1..n + 1 /\ i <= p
      BY ONLY <1>1
    <2>4. \A i \in p + 1..n + 1 : i \in 1..n + 1 /\ ~(i <= p)
      BY ONLY <1>1
    <2>5. Len(m) = p
      BY ONLY <1>4
    <2>6. QED
      BY ONLY <2>1, <2>2, <2>3, <2>4, <2>5
  <1>6. \A i \in 1..n : i >= p => u[i + 1] = s[i]
    <2>1. SUFFICES ASSUME NEW i \in 1..n, i >= p PROVE u[i + 1] = s[i]
      OBVIOUS
    <2>2. i + 1 \in p + 1..n + 1 /\ (i + 1) - p \in 1..n - p + 1 /\ p + ((i + 1) - p) - 1 = i
      BY ONLY <1>1, <2>1
    <2>3. u[i + 1] = r[(i + 1) - p]
      BY ONLY <1>5, <2>2
    <2>4. r[(i + 1) - p] = s[p + ((i + 1) - p) - 1]
      BY ONLY <1>3, <2>2
    <2>5. QED
      BY ONLY <2>2, <2>3, <2>4
  <1>7. \A i \in 1..n : i < p => u[i] = s[i]
    <2>1. \A i \in 1..n : i < p => i \in 1..p /\ i \in 1..p - 1
      BY ONLY <1>1
    <2>2. QED
      BY ONLY <1>4, <1>5, <2>1
  <1>8. u[p] = e
    BY ONLY <1>1, <1>4, <1>5
  <1>9. Inserted(s, u, p, e)
    BY ONLY <1>5, <1>6, <1>7, <1>8, n = Len(s) DEF Inserted
  <1>10. QED
    BY ONLY <1>9, u = m \o r, m = l \o <<e>>, n = Len(s) DEF l, r

(* A new entry that counts nothing does not change the sum.                *)
LEMMA SumInserted ==
  ASSUME NEW s \in Seq(Stat), NEW p \in 1..Len(s) + 1, NEW e \in Stat, e.count = 0,
         NEW u, Inserted(s, u, p, e)
  PROVE  Sum(u) = Sum(s)
  <1> PICK n : n = Len(s)
    OBVIOUS
  <1> PICK D : D = 1..n
    OBVIOUS
  <1> PICK R : R = 1..n + 1
    OBVIOUS
  <1>1. n \in Nat /\ p \in R
    BY n = Len(s), R = 1..n + 1
  <1>2. /\ u \in Seq(Stat) /\ Len(u) = n + 1
        /\ \A i \in D : i < p => u[i] = s[i]
        /\ u[p] = e
        /\ \A i \in D : i >= p => u[i + 1] = s[i]
    BY n = Len(s), D = 1..n DEF Inserted
  <1>3. PICK g : Sum(s) = g[D] /\ SumsUp(g, Counts(s), D)
    BY n = Len(s), D = 1..n, SumIs
  <1>4. PICK k : Sum(u) = k[R] /\ SumsUp(k, Counts(u), R)
    BY <1>2, R = 1..n + 1, SumIs
  <1>5. /\ IsFiniteSet(D) /\ \A i \in D : Counts(s)[i] \in Nat
        /\ IsFiniteSet(R) /\ \A i \in R : Counts(u)[i] \in Nat
    BY <1>2, n = Len(s), D = 1..n, R = 1..n + 1, SumIs
  <1>6. Counts(u)[p] = 0
    BY <1>1, <1>2, R = 1..n + 1 DEF Counts
  <1>7. k[R] = Counts(u)[p] + k[R \ {p}] /\ k[R \ {p}] \in Nat
    <2>0. R \in SUBSET R /\ R \ {p} \in SUBSET R
      OBVIOUS
    <2> PICK F : F = Counts(u)
      OBVIOUS
    <2>a. SumsUp(k, F, R)
      BY ONLY <1>4, F = Counts(u)
    <2>b. \A x \in R : F[x] \in Nat
      BY ONLY <1>5, F = Counts(u)
    <2>c. IsFiniteSet(R)
      BY ONLY <1>5
    <2>d. Summable(R, F, k)
      BY ONLY <2>a, <2>b, <2>c DEF Summable
    <2>1. \A r \in SUBSET R : k[r] \in Nat /\ \A x \in r : k[r] = F[x] + k[r \ {x}]
      BY ONLY <2>d, AnyFirst
    <2>2. QED
      BY ONLY <1>1, <2>0, <2>1, F = Counts(u)
  <1>8. k[R \ {p}] = g[D]
    <2> PICK b : b = [i \in D |-> IF i < p THEN i ELSE i + 1]
      OBVIOUS
    <2>1. {b[x] : x \in D} = R \ {p}
      <3>1. \A x \in D : b[x] \in R \ {p}
        BY ONLY <1>1, D = 1..n, R = 1..n + 1, b = [i \in D |-> IF i < p THEN i ELSE i + 1]
      <3>2. ASSUME NEW y \in R \ {p} PROVE \E x \in D : b[x] = y
        <4>1. CASE y < p
          <5>1. y \in D /\ b[y] = y
            BY ONLY <1>1, <3>2, <4>1, D = 1..n, R = 1..n + 1,
                    b = [i \in D |-> IF i < p THEN i ELSE i + 1]
          <5>2. QED
            BY ONLY <5>1
        <4>2. CASE ~(y < p)
          <5>1. y - 1 \in D /\ ~(y - 1 < p) /\ (y - 1) + 1 = y
            BY ONLY <1>1, <3>2, <4>2, D = 1..n, R = 1..n + 1
          <5>2. b[y - 1] = y
            BY ONLY <5>1, b = [i \in D |-> IF i < p THEN i ELSE i + 1]
          <5>3. QED
            BY ONLY <5>1, <5>2
        <4>3. QED
          BY ONLY <4>1, <4>2
      <3>3. QED
        BY ONLY <3>1, <3>2
    <2>2. ASSUME NEW x \in D PROVE b[x] \in R /\ Counts(u)[b[x]] = Counts(s)[x]
      <3>1. b[x] = (IF x < p THEN x ELSE x + 1) /\ b[x] \in R
        BY ONLY <1>1, x \in D, D = 1..n, R = 1..n + 1,
                b = [i \in D |-> IF i < p THEN i ELSE i + 1]
      <3>2. u[b[x]] = s[x]
        BY ONLY <1>1, <1>2, <3>1, x \in D, D = 1..n, R = 1..n + 1
      <3>3. QED
        BY ONLY <1>2, <3>1, <3>2, x \in D, n = Len(s), D = 1..n, R = 1..n + 1 DEF Counts
    <2>3. \A x, y \in D : b[x] = b[y] => x = y
      BY ONLY <1>1, D = 1..n, R = 1..n + 1, b = [i \in D |-> IF i < p THEN i ELSE i + 1]
    <2> PICK F, G, T, I : F = Counts(s) /\ G = Counts(u) /\ T = D /\ I = {b[x] : x \in T}
      OBVIOUS
    <2>5. k[I] = g[T]
      <3>1. SumsUp(g, F, D) /\ SumsUp(k, G, R) /\ T \in SUBSET D
        BY ONLY <1>3, <1>4, F = Counts(s) /\ G = Counts(u) /\ T = D /\ I = {b[x] : x \in T}
      <3>2. (\A i \in D : F[i] \in Nat) /\ \A i \in R : G[i] \in Nat
        BY ONLY <1>5, F = Counts(s) /\ G = Counts(u)
      <3>3. /\ \A x \in T : b[x] \in R /\ G[b[x]] = F[x]
            /\ \A x, y \in T : b[x] = b[y] => x = y
        BY ONLY <2>2, <2>3, F = Counts(s) /\ G = Counts(u) /\ T = D /\ I = {b[x] : x \in T}
      <3>4. IsFiniteSet(D) /\ IsFiniteSet(R)
        BY ONLY <1>5
      <3>6. Alike(D, R, F, G, g, k, b, T, I)
        BY ONLY <3>1, <3>2, <3>3, <3>4, I = {b[x] : x \in T}, Zenon DEF Alike
      <3>5. QED
        BY ONLY <3>6, SumsAgree
    <2>6. QED
      BY ONLY <2>1, <2>5, F = Counts(s) /\ G = Counts(u) /\ T = D /\ I = {b[x] : x \in T}
  <1>9. QED
    BY ONLY <1>3, <1>4, <1>6, <1>7, <1>8
-----------------------------------------------------------------------------
(* What the list says of a topic.                                          *)

(* At least n messages of a topic are counted in the list s.               *)
CountedIn(s, top, n) ==
  \/ n <= 0
  \/ \E i \in 1..Len(s) : s[i].topic = top /\ s[i].count >= n

(* In a list in order a topic has one entry.                               *)
LEMMA OneEntry ==
  ASSUME NEW s \in Seq(Stat), Sorted(s), Topics \subseteq Nat
  PROVE  \A i, j \in 1..Len(s) : s[i].topic = s[j].topic => i = j
  <1>1. SUFFICES ASSUME NEW i \in 1..Len(s), NEW j \in 1..Len(s),
                        s[i].topic = s[j].topic, i # j
                 PROVE  FALSE
    OBVIOUS
  <1>2. s[i] \in Stat /\ s[j] \in Stat
    BY ONLY s \in Seq(Stat), i \in 1..Len(s), j \in 1..Len(s)
  <1>3. s[i].topic \in Nat /\ s[j].topic \in Nat
    BY ONLY <1>2, Topics \subseteq Nat DEF Stat
  <1>4. i < j \/ j < i
    <2> PICK n : n = Len(s)
      OBVIOUS
    <2>1. n \in Nat /\ i \in 1..n /\ j \in 1..n
      BY ONLY s \in Seq(Stat), n = Len(s), i \in 1..Len(s), j \in 1..Len(s)
    <2>2. QED
      BY ONLY <2>1, i # j
  <1>5. s[i].topic < s[j].topic \/ s[j].topic < s[i].topic
    BY ONLY <1>1, <1>4, Sorted(s), i \in 1..Len(s), j \in 1..Len(s) DEF Sorted
  <1>6. QED
    BY ONLY <1>1, <1>3, <1>5

(* A new entry takes nothing away, ...                                     *)
LEMMA InsertedKeeps ==
  ASSUME NEW s \in Seq(Stat), NEW u, NEW p \in 1..Len(s) + 1, NEW e, NEW top, NEW n,
         Inserted(s, u, p, e), CountedIn(s, top, n)
  PROVE  CountedIn(u, top, n)
  <1>1. CASE n <= 0
    BY ONLY <1>1 DEF CountedIn
  <1>2. CASE ~(n <= 0)
    <2>1. PICK i \in 1..Len(s) : s[i].topic = top /\ s[i].count >= n
      BY ONLY <1>2, CountedIn(s, top, n) DEF CountedIn
    <2>2. Len(s) \in Nat /\ Len(u) = Len(s) + 1
      BY ONLY s \in Seq(Stat), Inserted(s, u, p, e) DEF Inserted
    <2>3. PICK j \in 1..Len(u) : u[j] = s[i]
      <3>1. CASE i < p
        <4>1. i \in 1..Len(u)
          BY ONLY <2>1, <2>2
        <4>2. u[i] = s[i]
          BY ONLY <2>1, <3>1, Inserted(s, u, p, e) DEF Inserted
        <4>3. QED
          BY ONLY <4>1, <4>2
      <3>2. CASE i >= p
        <4>1. i + 1 \in 1..Len(u)
          BY ONLY <2>1, <2>2
        <4>2. u[i + 1] = s[i]
          BY ONLY <2>1, <3>2, Inserted(s, u, p, e) DEF Inserted
        <4>3. QED
          BY ONLY <4>1, <4>2
      <3>3. i < p \/ i >= p
        BY ONLY <2>1, <2>2, p \in 1..Len(s) + 1
      <3>4. QED
        BY ONLY <3>1, <3>2, <3>3
    <2>4. QED
      BY ONLY <2>1, <2>3 DEF CountedIn
  <1>3. QED
    BY ONLY <1>1, <1>2

(* ... and stands where it belongs.                                        *)
LEMMA InsertedSorted ==
  ASSUME NEW s \in Seq(Stat), NEW u, NEW p \in 1..Len(s) + 1, NEW e,
         Inserted(s, u, p, e), Sorted(s), Topics \subseteq Nat,
         \A i \in 1..Len(s) : i < p => s[i].topic < e.topic,
         \A i \in 1..Len(s) : p <= i => e.topic < s[i].topic
  PROVE  Sorted(u)
  <1> PICK n : n = Len(s)
    OBVIOUS
  <1>1. n \in Nat /\ p \in 1..n + 1 /\ Len(u) = n + 1
    BY ONLY s \in Seq(Stat), p \in 1..Len(s) + 1, n = Len(s), Inserted(s, u, p, e) DEF Inserted
  <1>2. \A i, j \in 1..n : i < j => s[i].topic < s[j].topic
    BY ONLY Sorted(s), n = Len(s) DEF Sorted
  <1>3. SUFFICES ASSUME NEW a \in 1..n + 1, NEW b \in 1..n + 1, a < b
                 PROVE  u[a].topic < u[b].topic
    <2>1. \A x, y \in 1..n + 1 : x < y => u[x].topic < u[y].topic
      BY ONLY <1>3
    <2>2. QED
      BY ONLY <1>1, <2>1 DEF Sorted
  <1>4. /\ \A i \in 1..n : i < p => u[i] = s[i]
        /\ u[p] = e
        /\ \A i \in 1..n : i >= p => u[i + 1] = s[i]
    BY ONLY n = Len(s), Inserted(s, u, p, e) DEF Inserted
  <1>5. ASSUME NEW x \in 1..n + 1
        PROVE  \/ x = p
               \/ x < p /\ x \in 1..n /\ u[x] = s[x]
               \/ x > p /\ x - 1 \in 1..n /\ x - 1 >= p /\ u[x] = s[x - 1]
    <2>1. CASE x < p
      <3>1. x \in 1..n
        BY ONLY <1>1, <2>1, x \in 1..n + 1
      <3>2. QED
        BY ONLY <1>4, <2>1, <3>1
    <2>2. CASE x > p
      <3>1. x - 1 \in 1..n /\ x - 1 >= p /\ (x - 1) + 1 = x
        BY ONLY <1>1, <2>2, x \in 1..n + 1
      <3>2. u[(x - 1) + 1] = s[x - 1]
        BY ONLY <1>4, <3>1
      <3>3. QED
        BY ONLY <2>2, <3>1, <3>2
    <2>3. x = p \/ x < p \/ x > p
      BY ONLY <1>1, x \in 1..n + 1
    <2>4. QED
      BY ONLY <2>1, <2>2, <2>3
  <1>6. /\ \A i \in 1..n : i < p => s[i].topic < e.topic
        /\ \A i \in 1..n : p <= i => e.topic < s[i].topic
    BY ONLY n = Len(s), \A i \in 1..Len(s) : i < p => s[i].topic < e.topic,
            \A i \in 1..Len(s) : p <= i => e.topic < s[i].topic
  <1>7. CASE a = p
    <2>1. b > p
      BY ONLY <1>3, <1>7
    <2>a. b \in Nat /\ p \in Nat /\ ~(b = p) /\ ~(b < p)
      BY ONLY <1>1, <2>1, b \in 1..n + 1
    <2>2. b - 1 \in 1..n /\ p <= b - 1 /\ u[b] = s[b - 1]
      <3>1. b - 1 \in 1..n /\ b - 1 >= p /\ u[b] = s[b - 1]
        BY ONLY <1>5, <2>a, b \in 1..n + 1
      <3>2. QED
        BY ONLY <2>a, <3>1
    <2>3. QED
      BY ONLY <1>4, <1>6, <1>7, <2>2
  <1>8. CASE b = p
    <2>1. a < p
      BY ONLY <1>3, <1>8
    <2>a. a \in Nat /\ p \in Nat /\ ~(a = p) /\ ~(a > p)
      BY ONLY <1>1, <2>1, a \in 1..n + 1
    <2>2. a \in 1..n /\ u[a] = s[a]
      BY ONLY <1>5, <2>a, a \in 1..n + 1
    <2>3. QED
      BY ONLY <1>4, <1>6, <1>8, <2>1, <2>2
  <1>9. CASE a # p /\ b # p
    <2>a. ASSUME NEW x \in 1..n + 1, x # p
          PROVE  \E i \in 1..n : u[x] = s[i] /\ ((i = x /\ x < p) \/ (i = x - 1 /\ x > p))
      <3>1. \/ x < p /\ x \in 1..n /\ u[x] = s[x]
            \/ x > p /\ x - 1 \in 1..n /\ u[x] = s[x - 1]
        BY ONLY <1>5, <2>a, x \in 1..n + 1
      <3>2. CASE x < p /\ x \in 1..n /\ u[x] = s[x]
        BY ONLY <3>2
      <3>3. CASE x > p /\ x - 1 \in 1..n /\ u[x] = s[x - 1]
        <4> PICK i : i = x - 1
          OBVIOUS
        <4>1. i \in 1..n /\ u[x] = s[i]
          BY ONLY <3>3, i = x - 1
        <4>2. QED
          BY ONLY <3>3, <4>1, i = x - 1
      <3>4. QED
        BY ONLY <3>1, <3>2, <3>3
    <2>1. PICK i \in 1..n : u[a] = s[i] /\ ((i = a /\ a < p) \/ (i = a - 1 /\ a > p))
      BY ONLY <1>9, <2>a
    <2>2. PICK j \in 1..n : u[b] = s[j] /\ ((j = b /\ b < p) \/ (j = b - 1 /\ b > p))
      BY ONLY <1>9, <2>a
    <2>3. i < j
      BY ONLY <1>1, <1>3, <2>1, <2>2, a \in 1..n + 1, b \in 1..n + 1
    <2>4. QED
      BY ONLY <1>2, <2>1, <2>2, <2>3
  <1>10. QED
    BY ONLY <1>7, <1>8, <1>9

(* A count that grows takes nothing away and leaves the order as it is.    *)
LEMMA PutKeeps ==
  ASSUME NEW s \in Seq(Stat), NEW u \in Seq(Stat), NEW p \in 1..Len(s), NEW c \in Nat,
         Len(u) = Len(s), c >= s[p].count,
         \A i \in 1..Len(s) : u[i].topic = s[i].topic,
         \A i \in 1..Len(s) : u[i].count = IF i = p THEN c ELSE s[i].count
  PROVE  /\ Sorted(s) => Sorted(u)
         /\ \A top, n : n \in Int /\ CountedIn(s, top, n) => CountedIn(u, top, n)
  <1>1. Sorted(s) => Sorted(u)
    BY ONLY Len(u) = Len(s), \A i \in 1..Len(s) : u[i].topic = s[i].topic DEF Sorted
  <1>2. ASSUME NEW top, NEW n \in Int, CountedIn(s, top, n) PROVE CountedIn(u, top, n)
    <2>1. CASE n <= 0
      BY ONLY <2>1 DEF CountedIn
    <2>2. CASE ~(n <= 0)
      <3>1. PICK i \in 1..Len(s) : s[i].topic = top /\ s[i].count >= n
        BY ONLY <1>2, <2>2 DEF CountedIn
      <3>2. s[p] \in Stat
        BY ONLY s \in Seq(Stat), p \in 1..Len(s)
      <3>3. s[p].count \in Nat
        BY ONLY <3>2 DEF Stat
      <3>4. u[i].count >= n
        <4>1. CASE i = p
          <5>1. u[i].count = c /\ s[p].count >= n
            BY ONLY <3>1, <4>1, \A j \in 1..Len(s) : u[j].count = IF j = p THEN c ELSE s[j].count
          <5>2. QED
            BY ONLY <3>3, <5>1, c >= s[p].count, c \in Nat, n \in Int
        <4>2. CASE i # p
          BY ONLY <3>1, <4>2, \A j \in 1..Len(s) : u[j].count = IF j = p THEN c ELSE s[j].count
        <4>3. QED
          BY ONLY <4>1, <4>2
      <3>5. i \in 1..Len(u) /\ u[i].topic = top
        BY ONLY <3>1, Len(u) = Len(s), \A j \in 1..Len(s) : u[j].topic = s[j].topic
      <3>6. QED
        BY ONLY <3>4, <3>5 DEF CountedIn
    <2>3. QED
      BY ONLY <2>1, <2>2
  <1>3. QED
    BY ONLY <1>1, <1>2
-----------------------------------------------------------------------------
(* The counts.                                                             *)

InAppend(t) == step[t] \in {"find", "update", "unlock", "reduce"}

(* The types, and what a thread carries from step to step.                 *)
Typed ==
  /\ topicStats \in Seq(Stat)
  /\ step \in [Threads -> Steps]
  /\ DOMAIN topic = Threads
  /\ count \in [Threads -> Nat]
  /\ reducing \in [Threads -> BOOLEAN]
  /\ sp \in [Threads -> Nat]
  /\ left \in [Threads -> Nat]
  /\ \A t \in Threads :
       /\ InAppend(t) => topic[t] \in Topics
       /\ step[t] = "update" => sp[t] <= Len(topicStats)
       /\ step[t] = "reduce" => reducing[t]
       /\ step[t] \in {"find", "update"} /\ ~reducing[t] => count[t] = 1

(* The threads that have appended a message and not counted it yet.        *)
Uncounted == {t \in Threads : step[t] \in {"find", "update"} /\ ~reducing[t]}

(* Every message that is kept is counted, or will be by one of them.       *)
Covered == Cardinality(kept) <= Sum(topicStats) + Cardinality(Uncounted)

(* At least n messages of a topic are counted.                             *)
Counted(top, n) == CountedIn(topicStats, top, n)

(* How many are kept.                                                      *)
Many(top) == Cardinality(Of(top))

Fine(top) == Many(top) <= HistoryMax /\ Counted(top, Many(top))

(* A thread has the position of the entry of its topic, if there is one.   *)
WellPlaced(t) ==
  IF sp[t] = 0 THEN \A i \in 1..Len(topicStats) : topicStats[i].topic # topic[t]
  ELSE sp[t] \in 1..Len(topicStats) /\ topicStats[sp[t]].topic = topic[t]

(* What holds of the topic a thread has appended to, step by step.         *)
InHand(t) ==
  /\ step[t] \in {"find", "update"} /\ ~reducing[t] => Counted(topic[t], Many(topic[t]) - 1)
  /\ step[t] = "unlock" /\ ~reducing[t] =>
       /\ left[t] < 2^(Width - 1) /\ Many(topic[t]) <= left[t]
       /\ Counted(topic[t], Many(topic[t]))
  /\ step[t] = "reduce" =>
       Many(topic[t]) <= HistoryMax + left[t] /\ Counted(topic[t], Many(topic[t]))
  /\ step[t] \in {"find", "update", "unlock"} /\ reducing[t] => Fine(topic[t])

(* While no two Appends have run at the same time, at most one does.       *)
Alone ==
  ~overlapped =>
    /\ \A t, u \in Threads : InAppend(t) /\ InAppend(u) => t = u
    /\ Sorted(topicStats)
    /\ \A t \in Threads : step[t] = "update" => WellPlaced(t)
    /\ \A t \in Threads : InAppend(t) => InHand(t)
    /\ \A top \in Topics : (\A t \in Threads : InAppend(t) => topic[t] # top) => Fine(top)

-----------------------------------------------------------------------------
(* Numbers below half the range are what they are.                         *)
LEMMA SmallNumber ==
  ASSUME HistoryAssumption, NEW n \in Nat, n < 2^(Width - 1)
  PROVE  Wrap(n) = n /\ Signed(n) = n
  <1> PICK h, f : h = 2^(Width - 1) /\ f = 2^Width
    OBVIOUS
  <1>1. h \in Int /\ f \in Int /\ h < f /\ n < h
    BY h = 2^(Width - 1) /\ f = 2^Width DEF HistoryAssumption
  <1>2. n % f = n
    BY ONLY <1>1, n \in Nat
  <1>3. QED
    BY ONLY <1>1, <1>2, h = 2^(Width - 1) /\ f = 2^Width DEF Wrap, Signed

(* A sum that does not come to half the range is below it.                 *)
LEMMA BelowHalf ==
  ASSUME HistoryAssumption, NEW a \in Nat, NEW n \in Nat, ~(a + n >= 2^(Width - 1))
  PROVE  a + n < 2^(Width - 1)
  <1> PICK h : h = 2^(Width - 1)
    OBVIOUS
  <1>1. h \in Int
    BY h = 2^(Width - 1) DEF HistoryAssumption
  <1>2. QED
    BY ONLY <1>1, a \in Nat, n \in Nat, ~(a + n >= 2^(Width - 1)), h = 2^(Width - 1)

(* What StatUpdate does: s is the list with an entry of the topic, at p.   *)
Updated(t, s, p) ==
  /\ s \in Seq(Stat) /\ p \in 1..Len(s) /\ Len(topicStats) <= Len(s)
  /\ Sum(s) = Sum(topicStats)
  /\ sp[t] # 0 => p = sp[t] /\ s = topicStats
  /\ sp[t] = 0 => /\ p = FindPosition(topic[t])
                  /\ Inserted(topicStats, s, p, [topic |-> topic[t], count |-> 0])
  /\ topicStats' \in Seq(Stat) /\ Len(topicStats') = Len(s)
  /\ \A i \in 1..Len(s) : topicStats'[i].topic = s[i].topic
  /\ \A i \in 1..Len(s) :
       topicStats'[i].count = IF i = p THEN s[p].count + count[t] ELSE s[i].count
  /\ Sum(topicStats') = Sum(topicStats) + count[t]
  /\ Sum(topicStats) \in Nat
  /\ left' = [left EXCEPT ![t] = s[p].count + count[t]]
  /\ s[p].count \in Nat
  /\ s[p].count + count[t] < 2^(Width - 1)
(* StatUpdate writes the count of one entry, which it puts in first if     *)
(* there was none; nothing wraps.                                          *)
LEMMA UpdateIs ==
  ASSUME HistoryAssumption, Typed, ~wrapped', NEW t \in Threads, StatUpdate(t)
  PROVE  \E s, p : Updated(t, s, p)
  <1>0. step[t] = "update" /\ InAppend(t)
    BY ONLY StatUpdate(t) DEF StatUpdate, Go, InAppend
  <1>1. /\ topicStats \in Seq(Stat) /\ topic[t] \in Topics /\ count[t] \in Nat
        /\ sp[t] \in Nat /\ sp[t] <= Len(topicStats)
    BY ONLY Typed, t \in Threads, <1>0 DEF Typed
  <1> PICK top, n, q : top = topic[t] /\ n = count[t] /\ q = sp[t]
    OBVIOUS
  <1>3. top \in Topics /\ top \in Nat /\ (\A x \in Topics : x \in Nat) /\ n \in Nat /\ q \in Nat
        /\ q <= Len(topicStats)
    BY ONLY <1>1, HistoryAssumption, top = topic[t] /\ n = count[t] /\ q = sp[t] DEF HistoryAssumption
  <1> PICK s, p : s = (IF q = 0 THEN Added(top) ELSE topicStats)
                  /\ p = IF q = 0 THEN FindPosition(top) ELSE q
    OBVIOUS
  <1>4. /\ topicStats' = [s EXCEPT ![p].count = Wrap(s[p].count + n)]
        /\ left' = [left EXCEPT ![t] = topicStats'[p].count]
    BY ONLY StatUpdate(t), top = topic[t] /\ n = count[t] /\ q = sp[t],
            s = (IF q = 0 THEN Added(top) ELSE topicStats)
              /\ p = IF q = 0 THEN FindPosition(top) ELSE q
       DEF StatUpdate
  <1>2. ~(s[p].count + n >= 2^(Width - 1))
    BY ONLY ~wrapped', StatUpdate(t), top = topic[t] /\ n = count[t] /\ q = sp[t],
            s = (IF q = 0 THEN Added(top) ELSE topicStats)
              /\ p = IF q = 0 THEN FindPosition(top) ELSE q
       DEF StatUpdate
  <1>5. FindPosition(top) \in 1..Len(topicStats) + 1
    BY ONLY <1>1, <1>3, FindPositionIs
  <1> PICK e : e = [topic |-> top, count |-> 0]
    OBVIOUS
  <1>6. e \in Stat /\ e.count = 0 /\ e.topic = top
    BY ONLY <1>3, e = [topic |-> top, count |-> 0] DEF Stat
  <1>7. ASSUME q = 0 PROVE Inserted(topicStats, s, p, e) /\ p \in 1..Len(topicStats) + 1
    <2>1. p = FindPosition(top)
      BY ONLY <1>7, s = (IF q = 0 THEN Added(top) ELSE topicStats)
              /\ p = IF q = 0 THEN FindPosition(top) ELSE q
    <2>2. s = SubSeq(topicStats, 1, p - 1) \o <<e>> \o SubSeq(topicStats, p, Len(topicStats))
      BY ONLY <1>7, <2>1, e = [topic |-> top, count |-> 0],
              s = (IF q = 0 THEN Added(top) ELSE topicStats)
              /\ p = IF q = 0 THEN FindPosition(top) ELSE q DEF Added
    <2>3. p \in 1..Len(topicStats) + 1
      BY ONLY <1>5, <2>1
    <2>4. QED
      BY ONLY <1>1, <1>6, <2>2, <2>3, InsertedIs
  <1>8. /\ s \in Seq(Stat) /\ p \in 1..Len(s) /\ Len(topicStats) <= Len(s)
        /\ Sum(s) = Sum(topicStats) /\ s[p].count + n < 2^(Width - 1)
    <2>1. CASE q = 0
      <3>1. Inserted(topicStats, s, p, e) /\ p \in 1..Len(topicStats) + 1
        BY ONLY <1>7, <2>1
      <3>2. s \in Seq(Stat) /\ Len(s) = Len(topicStats) + 1 /\ s[p] = e
        BY ONLY <3>1 DEF Inserted
      <3>3. Sum(s) = Sum(topicStats)
        BY ONLY <1>1, <1>6, <3>1, SumInserted
      <3>4. s[p].count + n < 2^(Width - 1)
        <4>1. s[p].count \in Nat
          BY ONLY <1>6, <3>2
        <4>2. QED
          BY ONLY <1>2, <1>3, <4>1, HistoryAssumption, BelowHalf, Zenon
      <3>5. Len(topicStats) \in Nat
        BY ONLY <1>1
      <3>6. QED
        BY ONLY <3>1, <3>2, <3>3, <3>4, <3>5
    <2>2. CASE q # 0
      <3>1. s = topicStats /\ p = q
        BY ONLY <2>2, s = (IF q = 0 THEN Added(top) ELSE topicStats)
              /\ p = IF q = 0 THEN FindPosition(top) ELSE q
      <3>2. Len(topicStats) \in Nat /\ q \in 1..Len(topicStats)
        BY ONLY <1>1, <1>3, <2>2
      <3>3. s[p].count \in Nat
        <4>1. topicStats[q] \in Stat
          BY ONLY <1>1, <3>2
        <4>2. QED
          BY ONLY <3>1, <4>1 DEF Stat
      <3>4. s[p].count + n < 2^(Width - 1)
        BY ONLY <1>2, <1>3, <3>3, HistoryAssumption, BelowHalf, Zenon
      <3>5. QED
        BY ONLY <1>1, <3>1, <3>2, <3>4
    <2>3. QED
      BY ONLY <2>1, <2>2
  <1> PICK c : c = s[p].count + n
    OBVIOUS
  <1>9. s[p].count \in Nat /\ c \in Nat /\ c < 2^(Width - 1)
    <2>1. s[p] \in Stat
      BY ONLY <1>8
    <2>2. s[p].count \in Nat
      BY ONLY <2>1 DEF Stat
    <2>3. c < 2^(Width - 1)
      BY ONLY <1>8, c = s[p].count + n
    <2>4. QED
      BY ONLY <1>3, <2>2, <2>3, c = s[p].count + n
  <1>10. Wrap(s[p].count + n) = c
    <2>1. Wrap(c) = c
      BY ONLY HistoryAssumption, <1>9, SmallNumber
    <2>2. QED
      BY ONLY <2>1, c = s[p].count + n
  <1> PICK u : u = topicStats'
    OBVIOUS
  <1>11. u = [s EXCEPT ![p].count = c]
    BY ONLY <1>4, <1>10, u = topicStats', Zenon
  <1>12. /\ u \in Seq(Stat) /\ Len(u) = Len(s)
         /\ \A i \in 1..Len(s) : u[i].topic = s[i].topic
         /\ \A i \in 1..Len(s) : u[i].count = IF i = p THEN c ELSE s[i].count
         /\ Sum(s) \in Nat /\ Sum(u) \in Nat /\ Sum(u) + s[p].count = Sum(s) + c
    <2>1. IsPut(s, p, c, u)
      BY ONLY <1>8, <1>9, <1>11 DEF IsPut
    <2>2. QED
      BY ONLY <2>1, SumPut
  <1>13. u[p].count = c
    BY ONLY <1>8, <1>12
  <1>14. Updated(t, s, p)
    <2>1. /\ s \in Seq(Stat) /\ p \in 1..Len(s) /\ Len(topicStats) <= Len(s)
          /\ Sum(s) = Sum(topicStats) /\ Sum(topicStats) \in Nat
          /\ s[p].count \in Nat /\ s[p].count + count[t] < 2^(Width - 1)
      BY ONLY <1>8, <1>9, <1>12, top = topic[t] /\ n = count[t] /\ q = sp[t]
    <2>2. /\ sp[t] # 0 => p = sp[t] /\ s = topicStats
          /\ sp[t] = 0 => p = FindPosition(topic[t])
      BY ONLY top = topic[t] /\ n = count[t] /\ q = sp[t],
              s = (IF q = 0 THEN Added(top) ELSE topicStats)
              /\ p = IF q = 0 THEN FindPosition(top) ELSE q
    <2>3. sp[t] = 0 => Inserted(topicStats, s, p, [topic |-> topic[t], count |-> 0])
      BY ONLY <1>7, e = [topic |-> top, count |-> 0], top = topic[t] /\ n = count[t] /\ q = sp[t]
    <2>4. /\ topicStats' \in Seq(Stat) /\ Len(topicStats') = Len(s)
          /\ \A i \in 1..Len(s) : topicStats'[i].topic = s[i].topic
          /\ \A i \in 1..Len(s) :
               topicStats'[i].count = IF i = p THEN s[p].count + count[t] ELSE s[i].count
      BY ONLY <1>12, u = topicStats', c = s[p].count + n, top = topic[t] /\ n = count[t] /\ q = sp[t]
    <2>5. Sum(topicStats') = Sum(topicStats) + count[t]
      <3>1. Sum(topicStats') = Sum(u)
        BY ONLY u = topicStats'
      <3>2. Sum(u) = Sum(s) + n
        <4> PICK a, x, y : a = Sum(u) /\ x = Sum(s) /\ y = s[p].count
          OBVIOUS
        <4>1. a \in Nat /\ x \in Nat /\ y \in Nat /\ a + y = x + c /\ c = y + n
          BY ONLY <1>9, <1>12, c = s[p].count + n, a = Sum(u) /\ x = Sum(s) /\ y = s[p].count
        <4>2. a = x + n
          BY ONLY <1>3, <4>1
        <4>3. QED
          BY ONLY <4>2, a = Sum(u) /\ x = Sum(s) /\ y = s[p].count
      <3>3. QED
        BY ONLY <2>1, <3>1, <3>2, top = topic[t] /\ n = count[t] /\ q = sp[t]
    <2>6. left' = [left EXCEPT ![t] = s[p].count + count[t]]
      BY ONLY <1>4, <1>13, u = topicStats', c = s[p].count + n,
              top = topic[t] /\ n = count[t] /\ q = sp[t]
    <2>7. QED
      BY ONLY <2>1, <2>2, <2>3, <2>4, <2>5, <2>6 DEF Updated
  <1>15. QED
    BY ONLY <1>14
(* The position is that of the entry of the topic, or 0 without one.       *)
LEMMA GetPositionIs ==
  ASSUME topicStats \in Seq(Stat), NEW top \in Nat, \A q \in Topics : q \in Nat
  PROVE  /\ GetPosition(top) \in 0..Len(topicStats)
         /\ GetPosition(top) # 0 => topicStats[GetPosition(top)].topic = top
         /\ Sorted(topicStats) /\ GetPosition(top) = 0 =>
              \A i \in 1..Len(topicStats) : topicStats[i].topic # top
  <1> PICK p, g, n : p = FindPosition(top) /\ g = GetPosition(top) /\ n = Len(topicStats)
    OBVIOUS
  <1>1. n \in Nat /\ p \in 1..n + 1 /\ (Sorted(topicStats) => IsPlace(topicStats, top, p))
    <2>1. /\ FindPosition(top) \in 1..Len(topicStats) + 1
          /\ Sorted(topicStats) => IsPlace(topicStats, top, FindPosition(top))
      BY ONLY topicStats \in Seq(Stat), top \in Nat, \A q \in Topics : q \in Nat, FindPositionIs
    <2>2. Len(topicStats) \in Nat
      BY ONLY topicStats \in Seq(Stat)
    <2>3. QED
      BY ONLY <2>1, <2>2, p = FindPosition(top) /\ g = GetPosition(top) /\ n = Len(topicStats)
  <1>2. g = IF p <= n /\ topicStats[p].topic = top THEN p ELSE 0
    BY ONLY p = FindPosition(top) /\ g = GetPosition(top) /\ n = Len(topicStats)
       DEF GetPosition
  <1>3. g \in 0..n /\ (g # 0 => topicStats[g].topic = top)
    BY ONLY <1>1, <1>2
  <1>4. ASSUME Sorted(topicStats), g = 0, NEW i \in 1..n PROVE topicStats[i].topic # top
    <2>1. ~(p <= n /\ topicStats[p].topic = top)
      BY ONLY <1>1, <1>2, <1>4
    <2>2. /\ \A j \in 1..n : j < p => topicStats[j].topic < top
          /\ \A j \in 1..n : p <= j => top < topicStats[j].topic
      BY ONLY <1>1, <1>4, <2>1, p = FindPosition(top) /\ g = GetPosition(top) /\ n = Len(topicStats)
         DEF IsPlace
    <2>3. i < p \/ p <= i
      BY ONLY <1>1, i \in 1..n
    <2>4. topicStats[i].topic < top \/ top < topicStats[i].topic
      BY ONLY <2>2, <2>3, i \in 1..n
    <2>5. QED
      BY ONLY <2>4, top \in Nat
  <1>5. QED
    BY ONLY <1>3, <1>4, p = FindPosition(top) /\ g = GetPosition(top) /\ n = Len(topicStats)

-----------------------------------------------------------------------------
(* Typed is an invariant, action by action.                                *)
(* Typed is kept when a message is appended.                               *)
LEMMA TypedAppend ==
  ASSUME Typed, NEW t \in Threads, NEW top \in Topics, Append_(t, top)
  PROVE  Typed'
  <1>1. /\ step' = [step EXCEPT ![t] = "find"]
        /\ topic' = [topic EXCEPT ![t] = top]
        /\ count' = [count EXCEPT ![t] = 1]
        /\ reducing' = [reducing EXCEPT ![t] = FALSE]
        /\ topicStats' = topicStats /\ sp' = sp /\ left' = left
    BY ONLY Append_(t, top) DEF Append_, Go, CalStat
  <1>2. QED
    BY ONLY Typed, <1>1, t \in Threads, top \in Topics DEF Typed, InAppend, Steps
(* Typed is kept when CalStat has looked for the entry.                    *)
LEMMA TypedFind ==
  ASSUME HistoryAssumption, Typed, NEW t \in Threads, StatFind(t)
  PROVE  Typed'
  <1>1. /\ step' = [step EXCEPT ![t] = "update"] /\ step[t] = "find"
        /\ sp' = [sp EXCEPT ![t] = GetPosition(topic[t])]
        /\ topicStats' = topicStats /\ topic' = topic /\ count' = count
        /\ reducing' = reducing /\ left' = left
    BY ONLY StatFind(t) DEF StatFind, Go
  <1>2. topicStats \in Seq(Stat) /\ topic[t] \in Topics
    BY ONLY Typed, <1>1, t \in Threads DEF Typed, InAppend
  <1>3. topic[t] \in Nat /\ \A q \in Topics : q \in Nat
    BY ONLY <1>2, HistoryAssumption DEF HistoryAssumption
  <1> PICK g, n : g = GetPosition(topic[t]) /\ n = Len(topicStats)
    OBVIOUS
  <1>4. g \in 0..n /\ n \in Nat
    BY ONLY <1>2, <1>3, GetPositionIs, g = GetPosition(topic[t]) /\ n = Len(topicStats)
  <1>5. g \in Nat /\ g <= Len(topicStats)
    BY ONLY <1>4, g = GetPosition(topic[t]) /\ n = Len(topicStats)
  <1>6. sp' = [sp EXCEPT ![t] = g]
    BY ONLY <1>1, g = GetPosition(topic[t]) /\ n = Len(topicStats)
  <1>7. QED
    BY ONLY Typed, <1>1, <1>5, <1>6, t \in Threads DEF Typed, InAppend, Steps
(* Typed is kept when CalStat updates the count.                           *)
LEMMA TypedUpdate ==
  ASSUME HistoryAssumption, Typed, ~wrapped', NEW t \in Threads, StatUpdate(t)
  PROVE  Typed'
  <1>1. /\ step' = [step EXCEPT ![t] = "unlock"] /\ step[t] = "update"
        /\ topic' = topic /\ count' = count /\ reducing' = reducing /\ sp' = sp
    BY ONLY StatUpdate(t) DEF StatUpdate, Go
  <1>2. PICK s, p : Updated(t, s, p)
    BY ONLY HistoryAssumption, Typed, ~wrapped', t \in Threads, StatUpdate(t), UpdateIs
  <1> PICK c : c = s[p].count + count[t]
    OBVIOUS
  <1>3. /\ topicStats' \in Seq(Stat) /\ Len(topicStats) <= Len(topicStats')
        /\ left' = [left EXCEPT ![t] = c] /\ s[p].count \in Nat
    BY ONLY <1>2, c = s[p].count + count[t] DEF Updated
  <1>4. c \in Nat
    <2>1. count[t] \in Nat
      BY ONLY Typed, t \in Threads DEF Typed
    <2>2. QED
      BY ONLY <1>3, <2>1, c = s[p].count + count[t]
  <1>5. /\ step' \in [Threads -> Steps] /\ DOMAIN topic' = Threads
        /\ count' \in [Threads -> Nat] /\ reducing' \in [Threads -> BOOLEAN]
        /\ sp' \in [Threads -> Nat]
    BY ONLY Typed, <1>1 DEF Typed, Steps
  <1>6. left' \in [Threads -> Nat]
    BY ONLY Typed, <1>3, <1>4 DEF Typed
  <1>7. ASSUME NEW u \in Threads
        PROVE  /\ step'[u] \in {"find", "update", "unlock", "reduce"} => topic'[u] \in Topics
               /\ step'[u] = "update" => sp'[u] <= Len(topicStats')
               /\ step'[u] = "reduce" => reducing'[u]
               /\ step'[u] \in {"find", "update"} /\ ~reducing'[u] => count'[u] = 1
    <2>1. CASE u = t
      BY ONLY Typed, <1>1, <2>1, t \in Threads DEF Typed, InAppend
    <2>2. CASE u # t
      <3>1. step'[u] = step[u]
        BY ONLY Typed, <1>1, <2>2, u \in Threads DEF Typed
      <3>2. /\ step[u] \in {"find", "update", "unlock", "reduce"} => topic[u] \in Topics
            /\ step[u] = "update" => sp[u] <= Len(topicStats)
            /\ step[u] = "reduce" => reducing[u]
            /\ step[u] \in {"find", "update"} /\ ~reducing[u] => count[u] = 1
            /\ sp[u] \in Nat
        BY ONLY Typed, u \in Threads DEF Typed, InAppend
      <3>3. Len(topicStats) \in Nat /\ Len(topicStats') \in Nat
        BY ONLY Typed, <1>3 DEF Typed
      <3>4. QED
        BY ONLY <1>1, <1>3, <3>1, <3>2, <3>3
    <2>3. QED
      BY ONLY <2>1, <2>2
  <1>8. QED
    BY ONLY <1>3, <1>5, <1>6, <1>7 DEF Typed, InAppend
(* Typed is kept when CalStat returns, whether CalReduce is called or not. *)
LEMMA TypedReturn ==
  ASSUME HistoryAssumption, Typed, NEW t \in Threads, StatReturnMany(t) \/ StatReturn(t)
  PROVE  Typed'
  <1>1. CASE StatReturnMany(t)
    <2>1. /\ step' = [step EXCEPT ![t] = "reduce"] /\ step[t] = "unlock"
          /\ count' = [count EXCEPT ![t] = left[t] - HistoryMax]
          /\ reducing' = [reducing EXCEPT ![t] = TRUE]
          /\ left' = [left EXCEPT ![t] = left[t] - HistoryMax]
          /\ topicStats' = topicStats /\ topic' = topic /\ sp' = sp
          /\ left[t] > HistoryMax
      BY ONLY <1>1 DEF StatReturnMany, Go, CalStat, Exceeds
    <2>2. left[t] - HistoryMax \in Nat
      <3>1. left[t] \in Nat /\ HistoryMax \in Nat
        BY ONLY Typed, t \in Threads, HistoryAssumption DEF Typed, HistoryAssumption
      <3>2. QED
        BY ONLY <2>1, <3>1
    <2> PICK k : k = left[t] - HistoryMax
      OBVIOUS
    <2>3. k \in Nat /\ count' = [count EXCEPT ![t] = k] /\ left' = [left EXCEPT ![t] = k]
      BY ONLY <2>1, <2>2, k = left[t] - HistoryMax
    <2>4. QED
      BY ONLY Typed, <2>1, <2>3, t \in Threads DEF Typed, InAppend, Steps
  <1>2. CASE StatReturn(t)
    <2>1. /\ step' = [step EXCEPT ![t] = "read"]
          /\ left' = [left EXCEPT ![t] = 0]
          /\ topicStats' = topicStats /\ topic' = topic /\ sp' = sp
          /\ count' = count /\ reducing' = reducing
      BY ONLY <1>2 DEF StatReturn, Go
    <2>2. QED
      BY ONLY Typed, <2>1, t \in Threads DEF Typed, InAppend, Steps
  <1>3. QED
    BY ONLY <1>1, <1>2, StatReturnMany(t) \/ StatReturn(t)
(* Typed is kept in the loop of CalReduce and at its end.                  *)
LEMMA TypedReduce ==
  ASSUME Typed, NEW t \in Threads, Reduce(t) \/ ReduceEnd(t)
  PROVE  Typed'
  <1>1. CASE Reduce(t)
    <2>1. /\ left' = [left EXCEPT ![t] = left[t] - 1] /\ left[t] > 0
          /\ topicStats' = topicStats /\ topic' = topic /\ sp' = sp
          /\ count' = count /\ reducing' = reducing /\ step' = step
      BY ONLY <1>1 DEF Reduce
    <2>2. left[t] - 1 \in Nat
      <3>1. left[t] \in Nat
        BY ONLY Typed, t \in Threads DEF Typed
      <3>2. QED
        BY ONLY <2>1, <3>1
    <2>3. QED
      BY ONLY Typed, <2>1, <2>2 DEF Typed, InAppend
  <1>2. CASE ReduceEnd(t)
    <2>1. /\ step' = [step EXCEPT ![t] = "find"] /\ step[t] = "reduce"
          /\ topicStats' = topicStats /\ topic' = topic /\ sp' = sp
          /\ count' = count /\ reducing' = reducing /\ left' = left
      BY ONLY <1>2 DEF ReduceEnd, Go, locals
    <2>2. QED
      BY ONLY Typed, <2>1, t \in Threads DEF Typed, InAppend, Steps
  <1>3. QED
    BY ONLY <1>1, <1>2, Reduce(t) \/ ReduceEnd(t)

(* The steps that concern the mutex or the reading only.                   *)
Still ==
  /\ UNCHANGED <<overlapped, topicOf, kept, topicStats, locals>>
  /\ step' \in [Threads -> Steps]
  /\ \A u \in Threads : step'[u] = step[u] \/ {step[u], step'[u]} \subseteq {"idle", "read"}
(* A step is one of Append, CalStat and CalReduce, or leaves what the      *)
(* counts are about alone.                                                 *)
LEMMA NextCases ==
  ASSUME Typed, [Next]_vars
  PROVE  \/ Still
         \/ \E t \in Threads :
              \/ \E top \in Topics : Append_(t, top)
              \/ StatFind(t) \/ StatUpdate(t) \/ StatReturnMany(t) \/ StatReturn(t)
              \/ Reduce(t) \/ ReduceEnd(t)
  <1>0. step \in [Threads -> Steps]
    BY ONLY Typed DEF Typed
  <1>1. CASE UNCHANGED vars
    BY ONLY <1>0, <1>1 DEF vars, locals, Still
  <1>2. ASSUME NEW t \in Threads,
               StatRLock(t) \/ StatWLock(t) \/ Read(t)
        PROVE  Still
    <2>1. UNCHANGED <<overlapped, topicOf, kept, topicStats, locals>> /\ step' = step
      BY ONLY <1>2 DEF StatRLock, StatWLock, Read
    <2>2. QED
      BY ONLY <1>0, <2>1 DEF Still
  <1>3. ASSUME NEW t \in Threads, ReadEnd(t) \/ \E top \in Topics : GetHistory(t, top)
        PROVE  Still
    <2>1. /\ UNCHANGED <<overlapped, topicOf, kept, topicStats, locals>>
          /\ \/ step[t] = "read" /\ step' = [step EXCEPT ![t] = "idle"]
             \/ step[t] = "idle" /\ step' = [step EXCEPT ![t] = "read"]
      BY ONLY <1>3 DEF ReadEnd, GetHistory, Go
    <2>2. step' \in [Threads -> Steps]
      BY ONLY <1>0, <2>1 DEF Steps
    <2>3. \A u \in Threads : step'[u] = step[u] \/ {step[u], step'[u]} \subseteq {"idle", "read"}
      BY ONLY <1>0, <2>1, t \in Threads
    <2>4. QED
      BY ONLY <2>1, <2>2, <2>3 DEF Still
  <1>4. QED
    BY ONLY [Next]_vars, <1>1, <1>2, <1>3 DEF Next, InCall
(* Typed is kept by the steps that only lock, read or look up the history. *)
LEMMA TypedStill ==
  ASSUME Typed, Still
  PROVE  Typed'
  <1>1. /\ topicStats' = topicStats /\ topic' = topic /\ sp' = sp
        /\ count' = count /\ reducing' = reducing /\ left' = left
        /\ step' \in [Threads -> Steps]
        /\ \A u \in Threads : step'[u] = step[u] \/ {step[u], step'[u]} \subseteq {"idle", "read"}
    BY ONLY Still DEF Still, locals
  <1>2. \A u \in Threads : step'[u] = step[u] \/ step'[u] = "idle" \/ step'[u] = "read"
    BY ONLY <1>1
  <1>3. QED
    BY ONLY Typed, <1>1, <1>2 DEF Typed, InAppend
(* Typed is kept by every step.                                            *)
LEMMA TypedStep ==
  ASSUME HistoryAssumption, Typed, ~wrapped', [Next]_vars
  PROVE  Typed'
  BY ONLY HistoryAssumption, Typed, ~wrapped', [Next]_vars, NextCases, TypedAppend,
          TypedFind, TypedUpdate, TypedReturn, TypedReduce, TypedStill
-----------------------------------------------------------------------------
(* Covered is an invariant.                                                *)
(* The messages that are kept can be counted, and the next one is not      *)
(* among them.                                                             *)
LEMMA KeptFinite ==
  ASSUME IInv
  PROVE  /\ IsFiniteSet(kept) /\ Cardinality(kept) \in Nat
         /\ Len(topicOf) \in Nat /\ Len(topicOf) + 1 \notin kept
  <1>1. Len(topicOf) \in Nat /\ kept \subseteq 1..Len(topicOf)
    BY ONLY IInv DEF IInv
  <1>2. IsFiniteSet(1..Len(topicOf))
    BY ONLY <1>1, FS_Interval
  <1>3. IsFiniteSet(kept)
    BY ONLY <1>1, <1>2, FS_Subset
  <1>4. Cardinality(kept) \in Nat
    BY ONLY <1>3, FS_CardinalityType
  <1>5. Len(topicOf) + 1 \notin 1..Len(topicOf)
    BY ONLY <1>1
  <1>6. QED
    BY ONLY <1>1, <1>3, <1>4, <1>5
(* The threads with a message to count can be counted.                     *)
LEMMA UncountedFinite ==
  ASSUME HistoryAssumption
  PROVE  IsFiniteSet(Uncounted) /\ Cardinality(Uncounted) \in Nat
  <1>1. IsFiniteSet(Threads) /\ Uncounted \subseteq Threads
    BY ONLY HistoryAssumption DEF HistoryAssumption, Uncounted
  <1>2. IsFiniteSet(Uncounted)
    BY ONLY <1>1, FS_Subset
  <1>3. QED
    BY ONLY <1>2, FS_CardinalityType
(* The sum of the counts is a number.                                      *)
LEMMA StatsSum ==
  ASSUME Typed
  PROVE  Sum(topicStats) \in Nat
  <1> PICK s : s = topicStats
    OBVIOUS
  <1>1. s \in Seq(Stat)
    BY ONLY Typed, s = topicStats DEF Typed
  <1>2. /\ \E g : Sum(s) = g[1..Len(s)] /\ SumsUp(g, Counts(s), 1..Len(s))
        /\ IsFiniteSet(1..Len(s)) /\ \A i \in 1..Len(s) : Counts(s)[i] \in Nat
    BY ONLY <1>1, SumIs
  <1> PICK D : D = 1..Len(s)
    OBVIOUS
  <1>3. PICK g : Sum(s) = g[D] /\ Summable(D, Counts(s), g)
    BY ONLY <1>2, D = 1..Len(s) DEF Summable
  <1> PICK F : F = Counts(s)
    OBVIOUS
  <1>4. \A r \in SUBSET D : g[r] \in Nat /\ \A x \in r : g[r] = F[x] + g[r \ {x}]
    BY ONLY <1>3, F = Counts(s), AnyFirst
  <1>5. D \in SUBSET D
    OBVIOUS
  <1>6. QED
    BY ONLY <1>3, <1>4, <1>5, s = topicStats

(* A message that is appended is not counted yet.                          *)
LEMMA CoveredAppend ==
  ASSUME HistoryAssumption, IInv, Typed, Covered,
         NEW t \in Threads, NEW top \in Topics, Append_(t, top)
  PROVE  Covered'
  <1> PICK new, C, U : new = Len(topicOf) + 1 /\ C = kept /\ U = Uncounted
    OBVIOUS
  <1>1. /\ step' = [step EXCEPT ![t] = "find"] /\ step[t] = "idle"
        /\ reducing' = [reducing EXCEPT ![t] = FALSE]
        /\ topicStats' = topicStats /\ kept' = kept \cup {new}
    BY ONLY Append_(t, top), new = Len(topicOf) + 1 /\ C = kept /\ U = Uncounted
       DEF Append_, Go, CalStat
  <1>2. step \in [Threads -> Steps] /\ reducing \in [Threads -> BOOLEAN]
    BY ONLY Typed DEF Typed
  <1>3. Uncounted' = U \cup {t} /\ t \notin U
    <2>1. \A u \in Threads :
            /\ step'[u] = IF u = t THEN "find" ELSE step[u]
            /\ reducing'[u] = IF u = t THEN FALSE ELSE reducing[u]
      BY ONLY <1>1, <1>2, t \in Threads
    <2>2. QED
      BY ONLY <1>1, <2>1, t \in Threads, new = Len(topicOf) + 1 /\ C = kept /\ U = Uncounted
         DEF Uncounted
  <1>4. IsFiniteSet(U) /\ Cardinality(U) \in Nat
    BY ONLY HistoryAssumption, UncountedFinite, new = Len(topicOf) + 1 /\ C = kept /\ U = Uncounted
  <1>5. IsFiniteSet(C) /\ Cardinality(C) \in Nat /\ new \notin C
    BY ONLY IInv, KeptFinite, new = Len(topicOf) + 1 /\ C = kept /\ U = Uncounted
  <1>6. Cardinality(U \cup {t}) = Cardinality(U) + 1
    BY ONLY <1>3, <1>4, FS_AddElement
  <1>7. Cardinality(C \cup {new}) = Cardinality(C) + 1
    BY ONLY <1>5, FS_AddElement
  <1>8. Cardinality(kept') = Cardinality(C) + 1 /\ Cardinality(Uncounted') = Cardinality(U) + 1
    BY ONLY <1>1, <1>3, <1>6, <1>7, new = Len(topicOf) + 1 /\ C = kept /\ U = Uncounted
  <1>9. Cardinality(C) <= Sum(topicStats) + Cardinality(U)
    BY ONLY Covered, new = Len(topicOf) + 1 /\ C = kept /\ U = Uncounted DEF Covered
  <1>10. Sum(topicStats') = Sum(topicStats) /\ Sum(topicStats) \in Nat
    BY ONLY <1>1, Typed, StatsSum
  <1>11. Cardinality(kept') <= Sum(topicStats') + Cardinality(Uncounted')
    BY ONLY <1>4, <1>5, <1>8, <1>9, <1>10
  <1>12. QED
    BY ONLY <1>11 DEF Covered

(* CalStat counts it.                                                      *)
LEMMA CoveredUpdate ==
  ASSUME HistoryAssumption, IInv, Typed, ~wrapped', Covered,
         NEW t \in Threads, StatUpdate(t)
  PROVE  Covered'
  <1> PICK C, U : C = kept /\ U = Uncounted
    OBVIOUS
  <1>1. /\ step' = [step EXCEPT ![t] = "unlock"] /\ step[t] = "update"
        /\ reducing' = reducing /\ kept' = C
    BY ONLY StatUpdate(t), C = kept /\ U = Uncounted DEF StatUpdate, Go
  <1>2. step \in [Threads -> Steps] /\ reducing \in [Threads -> BOOLEAN]
    BY ONLY Typed DEF Typed
  <1>3. Uncounted' = U \ {t} /\ (t \in U <=> ~reducing[t])
    <2>1. \A u \in Threads : step'[u] = IF u = t THEN "unlock" ELSE step[u]
      BY ONLY <1>1, <1>2, t \in Threads
    <2>2. QED
      BY ONLY <1>1, <2>1, t \in Threads, C = kept /\ U = Uncounted DEF Uncounted
  <1>4. Sum(topicStats') = Sum(topicStats) + count[t] /\ Sum(topicStats) \in Nat
    <2>1. PICK s, p : Updated(t, s, p)
      BY ONLY HistoryAssumption, Typed, ~wrapped', t \in Threads, StatUpdate(t), UpdateIs
    <2>2. QED
      BY ONLY <2>1 DEF Updated
  <1>5. count[t] \in Nat /\ (t \in U => count[t] = 1)
    BY ONLY Typed, <1>1, <1>3, t \in Threads DEF Typed
  <1>6. IsFiniteSet(U) /\ Cardinality(U) \in Nat
    BY ONLY HistoryAssumption, UncountedFinite, C = kept /\ U = Uncounted
  <1>7. Cardinality(C) \in Nat
    BY ONLY IInv, KeptFinite, C = kept /\ U = Uncounted
  <1>8. Cardinality(C) <= Sum(topicStats) + Cardinality(U)
    BY ONLY Covered, C = kept /\ U = Uncounted DEF Covered
  <1>9. Cardinality(C) <= Sum(topicStats') + Cardinality(U \ {t})
    <2>1. CASE t \in U
      <3>1. Cardinality(U \ {t}) = Cardinality(U) - 1
        BY ONLY <1>6, <2>1, FS_RemoveElement
      <3>2. count[t] = 1
        BY ONLY <1>5, <2>1
      <3> PICK a, b, c, d, e : /\ a = Sum(topicStats') /\ b = Sum(topicStats)
                               /\ c = Cardinality(C) /\ d = Cardinality(U)
                               /\ e = Cardinality(U \ {t})
        OBVIOUS
      <3>3. b \in Nat /\ c \in Nat /\ d \in Nat /\ a = b + 1 /\ e = d - 1 /\ c <= b + d
        BY ONLY <1>4, <1>6, <1>7, <1>8, <3>1, <3>2,
                /\ a = Sum(topicStats') /\ b = Sum(topicStats)
                /\ c = Cardinality(C) /\ d = Cardinality(U)
                /\ e = Cardinality(U \ {t})
      <3>4. c <= a + e
        BY ONLY <3>3
      <3>5. QED
        BY ONLY <3>4, /\ a = Sum(topicStats') /\ b = Sum(topicStats)
                      /\ c = Cardinality(C) /\ d = Cardinality(U)
                      /\ e = Cardinality(U \ {t})
    <2>2. CASE t \notin U
      <3>1. U \ {t} = U
        BY ONLY <2>2
      <3> PICK a, b, c, d, e : /\ a = Sum(topicStats') /\ b = Sum(topicStats)
                               /\ c = Cardinality(C) /\ d = Cardinality(U) /\ e = count[t]
        OBVIOUS
      <3>2. b \in Nat /\ c \in Nat /\ d \in Nat /\ e \in Nat /\ a = b + e /\ c <= b + d
        BY ONLY <1>4, <1>5, <1>6, <1>7, <1>8,
                /\ a = Sum(topicStats') /\ b = Sum(topicStats)
                /\ c = Cardinality(C) /\ d = Cardinality(U) /\ e = count[t]
      <3>3. c <= a + d
        BY ONLY <3>2
      <3>4. QED
        BY ONLY <3>1, <3>3, /\ a = Sum(topicStats') /\ b = Sum(topicStats)
                /\ c = Cardinality(C) /\ d = Cardinality(U) /\ e = count[t]
    <2>3. QED
      BY ONLY <2>1, <2>2
  <1>10. QED
    BY ONLY <1>1, <1>3, <1>9 DEF Covered

(* The other steps neither add a message nor change what is counted.       *)
LEMMA CoveredRest ==
  ASSUME HistoryAssumption, IInv, Typed, Covered,
         kept' \subseteq kept, topicStats' = topicStats, Uncounted' = Uncounted
  PROVE  Covered'
  <1>1. IsFiniteSet(kept) /\ Cardinality(kept) \in Nat
    BY ONLY IInv, KeptFinite
  <1> PICK C, D : C = kept /\ D = kept'
    OBVIOUS
  <1>2. Cardinality(D) <= Cardinality(C) /\ Cardinality(D) \in Nat
    <2>1. IsFiniteSet(C) /\ D \subseteq C
      BY ONLY <1>1, kept' \subseteq kept, C = kept /\ D = kept'
    <2>2. IsFiniteSet(D) /\ Cardinality(D) <= Cardinality(C)
      BY ONLY <2>1, FS_Subset
    <2>3. QED
      BY ONLY <2>2, FS_CardinalityType
  <1>3. Cardinality(Uncounted) \in Nat /\ Sum(topicStats) \in Nat
    BY ONLY HistoryAssumption, Typed, UncountedFinite, StatsSum
  <1>4. Cardinality(C) <= Sum(topicStats) + Cardinality(Uncounted)
    BY ONLY Covered, C = kept /\ D = kept' DEF Covered
  <1>5. Cardinality(D) <= Sum(topicStats) + Cardinality(Uncounted)
    BY ONLY <1>1, <1>2, <1>3, <1>4, C = kept /\ D = kept'
  <1>6. Cardinality(kept') <= Sum(topicStats') + Cardinality(Uncounted')
    BY ONLY <1>5, C = kept /\ D = kept', topicStats' = topicStats, Uncounted' = Uncounted
  <1>7. QED
    BY ONLY <1>6 DEF Covered
(* Covered is kept by every step.                                          *)
LEMMA CoveredStep ==
  ASSUME HistoryAssumption, IInv, Typed, ~wrapped', Covered, [Next]_vars
  PROVE  Covered'
  <1>0. step \in [Threads -> Steps] /\ reducing \in [Threads -> BOOLEAN]
    BY ONLY Typed DEF Typed
  <1>1. CASE Still
    <2>1. /\ kept' = kept /\ topicStats' = topicStats /\ reducing' = reducing
          /\ \A u \in Threads : step'[u] = step[u] \/ {step[u], step'[u]} \subseteq {"idle", "read"}
      BY ONLY <1>1 DEF Still, locals
    <2>2. \A u \in Threads : step'[u] \in {"find", "update"} <=> step[u] \in {"find", "update"}
      BY ONLY <2>1
    <2>3. Uncounted' = Uncounted
      BY ONLY <2>1, <2>2 DEF Uncounted
    <2>4. QED
      BY ONLY HistoryAssumption, IInv, Typed, Covered, <2>1, <2>3, CoveredRest
  <1>2. ASSUME NEW t \in Threads,
               \/ StatFind(t) \/ StatReturnMany(t) \/ StatReturn(t)
               \/ Reduce(t) \/ ReduceEnd(t)
        PROVE  Covered'
    <2>1. /\ topicStats' = topicStats
          /\ kept' = kept \/ kept' = kept \ {Min(Of(topic[t]))}
          /\ \/ /\ step[t] = "find" /\ step' = [step EXCEPT ![t] = "update"]
                /\ reducing' = reducing
             \/ /\ step[t] = "unlock" /\ step' = [step EXCEPT ![t] = "reduce"]
                /\ reducing' = [reducing EXCEPT ![t] = TRUE]
             \/ /\ step[t] = "unlock" /\ step' = [step EXCEPT ![t] = "read"]
                /\ reducing' = reducing
             \/ step' = step /\ reducing' = reducing
             \/ /\ step[t] = "reduce" /\ step' = [step EXCEPT ![t] = "find"]
                /\ reducing' = reducing
      BY ONLY <1>2 DEF StatFind, StatReturnMany, StatReturn, Reduce, ReduceEnd, Go, CalStat, locals
    <2>2. step[t] = "reduce" => reducing[t]
      BY ONLY Typed, t \in Threads DEF Typed
    <2>3. \A u \in Threads : step'[u] \in {"find", "update"} /\ ~reducing'[u]
                               <=> step[u] \in {"find", "update"} /\ ~reducing[u]
      BY ONLY <1>0, <2>1, <2>2, t \in Threads
    <2>4. Uncounted' = Uncounted
      BY ONLY <2>3 DEF Uncounted
    <2>5. kept' \subseteq kept /\ topicStats' = topicStats
      BY ONLY <2>1
    <2>6. QED
      BY ONLY HistoryAssumption, IInv, Typed, Covered, <2>4, <2>5, CoveredRest
  <1>3. ASSUME NEW t \in Threads, StatUpdate(t) PROVE Covered'
    BY ONLY HistoryAssumption, IInv, Typed, ~wrapped', Covered, <1>3, CoveredUpdate
  <1>4. ASSUME NEW t \in Threads, NEW top \in Topics, Append_(t, top) PROVE Covered'
    BY ONLY HistoryAssumption, IInv, Typed, Covered, <1>4, CoveredAppend
  <1>5. QED
    BY ONLY Typed, [Next]_vars, NextCases, <1>1, <1>2, <1>3, <1>4

(* What has wrapped once stays known.                                      *)
LEMMA WrappedStays ==
  ASSUME wrapped, [Next]_vars
  PROVE  wrapped'
  BY ONLY wrapped, [Next]_vars
     DEF Next, InCall, vars, Append_, StatRLock, StatFind, StatWLock, StatUpdate,
         StatReturnMany, StatReturn, Reduce, ReduceEnd, GetHistory, Read, ReadEnd

(* At the beginning all is empty.                                          *)
LEMMA InitCounts ==
  ASSUME HistoryAssumption, Init
  PROVE  Typed /\ Covered
  <1>1. /\ kept = {} /\ topicStats = <<>>
        /\ step = [t \in Threads |-> "idle"]
        /\ topic = [t \in Threads |-> CHOOSE top \in Topics : TRUE]
        /\ count = [t \in Threads |-> 0]
        /\ reducing = [t \in Threads |-> FALSE]
        /\ sp = [t \in Threads |-> 0]
        /\ left = [t \in Threads |-> 0]
    BY ONLY Init DEF Init
  <1>2. Typed
    BY ONLY <1>1 DEF Typed, InAppend, Steps
  <1>3. Uncounted = {}
    BY ONLY <1>1 DEF Uncounted
  <1>4. Cardinality({}) = 0
    BY FS_EmptySet
  <1>5. Sum(topicStats) \in Nat
    BY ONLY <1>2, StatsSum
  <1>6. Cardinality(kept) = 0 /\ Cardinality(Uncounted) = 0
    BY ONLY <1>1, <1>3, <1>4
  <1>7. Cardinality(kept) <= Sum(topicStats) + Cardinality(Uncounted)
    BY ONLY <1>5, <1>6
  <1>8. QED
    BY ONLY <1>2, <1>7 DEF Covered

(* CountsCover: the counts of the list, all taken together, are at least   *)
(* the messages that are kept when no call is under way, however many      *)
(* Appends overlap and whatever their positions.  It is so in every        *)
(* behaviour, up to the step in which a sum of CalStat first comes to half *)
(* the range of TMQSize.                                                   *)
THEOREM CountsCoverAlways == Spec => [](~wrapped => CountsCover)
  <1>1. Init => IInv /\ Typed /\ Covered
    <2>1. Init => IInv
      BY DEF Init, IInv, NewestKept
    <2>2. QED
      BY <2>1, InitCounts, HistoryAssumption
  <1> DEFINE UpToThere == wrapped \/ (IInv /\ Typed /\ Covered)
  <1>2. UpToThere /\ [Next]_vars => UpToThere'
    BY ONLY NextIInv, TypedStep, CoveredStep, WrappedStays, HistoryAssumption
  <1>3. Typed /\ Covered => CountsCover
    <2> SUFFICES ASSUME Typed, Covered, AtRest
                 PROVE  Cardinality(kept) <= Sum(topicStats)
      BY DEF CountsCover
    <2>1. Uncounted = {}
      BY ONLY AtRest DEF AtRest, Uncounted
    <2>2. Cardinality(Uncounted) = 0
      BY ONLY <2>1, FS_EmptySet
    <2>3. Sum(topicStats) \in Nat
      BY ONLY Typed, StatsSum
    <2>4. Cardinality(kept) <= Sum(topicStats) + Cardinality(Uncounted)
      BY ONLY Covered DEF Covered
    <2>5. QED
      BY ONLY <2>2, <2>3, <2>4
  <1>4. QED
    BY <1>1, <1>2, <1>3, PTL DEF Spec
-----------------------------------------------------------------------------
(* Alone is an invariant.                                                  *)
(* The messages of a topic can be counted.                                 *)
LEMMA ManyFinite ==
  ASSUME IInv, NEW top
  PROVE  Of(top) \subseteq Nat /\ IsFiniteSet(Of(top)) /\ Many(top) \in Nat
  <1>1. kept \subseteq 1..Len(topicOf) /\ Len(topicOf) \in Nat
    BY ONLY IInv DEF IInv
  <1>2. \A m \in kept : m \in Nat
    BY ONLY <1>1
  <1>3. Of(top) \subseteq kept
    BY DEF Of
  <1>4. IsFiniteSet(kept)
    BY ONLY IInv, KeptFinite
  <1>5. IsFiniteSet(Of(top))
    BY ONLY <1>3, <1>4, FS_Subset
  <1>6. Many(top) \in Nat
    BY ONLY <1>5, FS_CardinalityType DEF Many
  <1>7. QED
    BY ONLY <1>2, <1>3, <1>5, <1>6

(* A step of the one thread that is in an Append.                          *)
LEMMA AloneHolds ==
  ASSUME NEW t \in Threads, NEW k,
         Typed, Alone, ~overlapped, overlapped' = overlapped, topic' = topic, k = topic[t],
         InAppend(t),
         \A u \in Threads : u # t => step'[u] = step[u],
         Sorted(topicStats'),
         \A top \in Topics : top # k /\ Fine(top) => Fine(top)',
         InAppend(t)' => InHand(t)' /\ (step'[t] = "update" => WellPlaced(t)'),
         ~ InAppend(t)' => Fine(k)'
  PROVE  Alone'
  <1>1. /\ \A u, v \in Threads : InAppend(u) /\ InAppend(v) => u = v
        /\ \A top \in Topics : (\A u \in Threads : InAppend(u) => topic[u] # top) => Fine(top)
    BY ONLY Alone, ~overlapped DEF Alone
  <1>2. \A u \in Threads : InAppend(u)' => u = t
    <2>1. SUFFICES ASSUME NEW u \in Threads, InAppend(u)', u # t PROVE FALSE
      OBVIOUS
    <2>2. step'[u] = step[u]
      BY ONLY <2>1, \A v \in Threads : v # t => step'[v] = step[v]
    <2>3. InAppend(u)
      BY ONLY <2>1, <2>2 DEF InAppend
    <2>4. QED
      BY ONLY <1>1, <2>1, <2>3, InAppend(t), t \in Threads
  <1>3. \A u, v \in Threads : InAppend(u)' /\ InAppend(v)' => u = v
    BY ONLY <1>2
  <1>4. \A u \in Threads : step'[u] = "update" => WellPlaced(u)'
    <2>1. SUFFICES ASSUME NEW u \in Threads, step'[u] = "update" PROVE WellPlaced(u)'
      OBVIOUS
    <2>2. InAppend(u)'
      BY ONLY <2>1 DEF InAppend
    <2>3. u = t
      BY ONLY <1>2, <2>2
    <2>4. QED
      BY ONLY <2>1, <2>2, <2>3,
              InAppend(t)' => InHand(t)' /\ (step'[t] = "update" => WellPlaced(t)')
  <1>5. \A u \in Threads : InAppend(u)' => InHand(u)'
    <2>1. SUFFICES ASSUME NEW u \in Threads, InAppend(u)' PROVE InHand(u)'
      OBVIOUS
    <2>2. u = t
      BY ONLY <1>2, <2>1
    <2>3. QED
      BY ONLY <2>1, <2>2,
              InAppend(t)' => InHand(t)' /\ (step'[t] = "update" => WellPlaced(t)')
  <1>6. ASSUME NEW top \in Topics, \A u \in Threads : InAppend(u)' => topic'[u] # top
        PROVE  Fine(top)'
    <2>1. CASE top = k
      <3>1. ~ InAppend(t)'
        BY ONLY <1>6, <2>1, topic' = topic, k = topic[t], t \in Threads
      <3>2. QED
        BY ONLY <2>1, <3>1, ~ InAppend(t)' => Fine(k)'
    <2>2. CASE top # k
      <3>1. \A u \in Threads : InAppend(u) => topic[u] # top
        BY ONLY <1>1, <2>2, InAppend(t), t \in Threads, k = topic[t]
      <3>2. Fine(top)
        BY ONLY <1>1, <3>1
      <3>3. QED
        BY ONLY <2>2, <3>2, \A x \in Topics : x # k /\ Fine(x) => Fine(x)'
    <2>3. QED
      BY ONLY <2>1, <2>2
  <1>7. QED
    BY ONLY <1>3, <1>4, <1>5, <1>6, Sorted(topicStats'), Zenon DEF Alone

(* What Alone says of that thread.                                         *)
LEMMA AloneIs ==
  ASSUME NEW t \in Threads, Alone, ~overlapped, InAppend(t)
  PROVE  /\ Sorted(topicStats) /\ InHand(t)
         /\ step[t] = "update" => WellPlaced(t)
         /\ \A u \in Threads : InAppend(u) => u = t
  BY ONLY Alone, ~overlapped, InAppend(t), t \in Threads DEF Alone
(* Once two Appends have overlapped Alone says nothing.                    *)
LEMMA Overlapped ==
  ASSUME overlapped' = overlapped, ~overlapped => Alone'
  PROVE  Alone'
  <1>1. CASE overlapped
    <2>1. overlapped'
      BY ONLY <1>1, overlapped' = overlapped
    <2>2. QED
      BY ONLY <2>1, Zenon DEF Alone
  <1>2. QED
    BY ONLY <1>1, ~overlapped => Alone'
(* Alone is kept when CalStat has looked for the entry: it has found the   *)
(* only one.                                                               *)
LEMMA AloneFind ==
  ASSUME HistoryAssumption, Typed, Alone, NEW t \in Threads, StatFind(t)
  PROVE  Alone'
  <1>1. /\ step' = [step EXCEPT ![t] = "update"] /\ step[t] = "find"
        /\ sp' = [sp EXCEPT ![t] = GetPosition(topic[t])]
        /\ topicStats' = topicStats /\ topic' = topic /\ kept' = kept /\ topicOf' = topicOf
        /\ reducing' = reducing /\ overlapped' = overlapped
    BY ONLY StatFind(t) DEF StatFind, Go
  <1>2. SUFFICES ASSUME ~overlapped PROVE Alone'
    BY <1>1, Overlapped
  <1> PICK k : k = topic[t]
    OBVIOUS
  <1>3. InAppend(t)
    BY ONLY <1>1 DEF InAppend
  <1>4. Sorted(topicStats) /\ InHand(t)
    BY ONLY <1>2, <1>3, Alone, t \in Threads, AloneIs
  <1>5. step'[t] = "update" /\ \A u \in Threads : u # t => step'[u] = step[u]
    BY ONLY <1>1, Typed, t \in Threads DEF Typed
  <1>6. \A top : Fine(top)' <=> Fine(top)
    BY ONLY <1>1 DEF Fine, Many, Of, Counted
  <1>7. topicStats \in Seq(Stat) /\ k \in Nat /\ \A q \in Topics : q \in Nat
    BY ONLY Typed, HistoryAssumption, <1>3, t \in Threads, k = topic[t] DEF Typed, HistoryAssumption
  <1>8. WellPlaced(t)'
    <2> PICK g : g = GetPosition(k)
      OBVIOUS
    <2>1. /\ g \in 0..Len(topicStats)
          /\ g # 0 => topicStats[g].topic = k
          /\ g = 0 => \A i \in 1..Len(topicStats) : topicStats[i].topic # k
      BY ONLY <1>4, <1>7, GetPositionIs, g = GetPosition(k)
    <2>2. sp'[t] = g
      BY ONLY <1>1, Typed, t \in Threads, g = GetPosition(k), k = topic[t] DEF Typed
    <2>3. Len(topicStats) \in Nat
      BY ONLY <1>7
    <2>4. g # 0 => g \in 1..Len(topicStats)
      BY ONLY <2>1, <2>3
    <2>5. topic'[t] = k /\ topicStats' = topicStats
      BY ONLY <1>1, k = topic[t]
    <2>6. QED
      BY ONLY <2>1, <2>2, <2>4, <2>5 DEF WellPlaced
  <1>9. InHand(t)'
    BY ONLY <1>1, <1>4, <1>5 DEF InHand, Fine, Many, Of, Counted
  <1>10. ~ InAppend(t)' => Fine(k)'
    BY ONLY <1>5 DEF InAppend
  <1>11. Sorted(topicStats')
    BY ONLY <1>1, <1>4
  <1>12. \A top \in Topics : top # k /\ Fine(top) => Fine(top)'
    BY ONLY <1>6
  <1>13. InAppend(t)' => InHand(t)' /\ (step'[t] = "update" => WellPlaced(t)')
    BY ONLY <1>8, <1>9
  <1>14. QED
    BY ONLY <1>1, <1>2, <1>3, <1>5, <1>10, <1>11, <1>12, <1>13, Typed, Alone,
            k = topic[t], t \in Threads, AloneHolds
(* Alone is kept when CalStat returns: a topic with too many messages is   *)
(* reduced.                                                                *)
LEMMA AloneReturn ==
  ASSUME HistoryAssumption, IInv, Typed, Alone, NEW t \in Threads,
         StatReturnMany(t) \/ StatReturn(t)
  PROVE  Alone'
  <1>1. /\ step[t] = "unlock" /\ topicStats' = topicStats /\ topic' = topic /\ kept' = kept
        /\ topicOf' = topicOf /\ overlapped' = overlapped
    BY ONLY StatReturnMany(t) \/ StatReturn(t) DEF StatReturnMany, StatReturn, Go
  <1>2. SUFFICES ASSUME ~overlapped PROVE Alone'
    BY <1>1, Overlapped
  <1> PICK k, N, l, M : k = topic[t] /\ N = Many(k) /\ l = left[t] /\ M = HistoryMax
    OBVIOUS
  <1>3. InAppend(t)
    BY ONLY <1>1 DEF InAppend
  <1>4. Sorted(topicStats) /\ InHand(t)
    BY ONLY <1>2, <1>3, Alone, t \in Threads, AloneIs
  <1>5. N \in Nat /\ l \in Nat /\ M \in Nat
    BY ONLY IInv, Typed, HistoryAssumption, ManyFinite, t \in Threads,
            k = topic[t] /\ N = Many(k) /\ l = left[t] /\ M = HistoryMax
       DEF Typed, HistoryAssumption
  <1>6. /\ ~reducing[t] => l < 2^(Width - 1) /\ N <= l /\ Counted(k, N)
        /\ reducing[t] => Fine(k)
    BY ONLY <1>1, <1>4, k = topic[t] /\ N = Many(k) /\ l = left[t] /\ M = HistoryMax DEF InHand
  <1>7. Many(k)' = N /\ (Counted(k, N)' <=> Counted(k, N)) /\ topic'[t] = k
        /\ (\A top : Fine(top)' <=> Fine(top))
    BY ONLY <1>1, k = topic[t] /\ N = Many(k) /\ l = left[t] /\ M = HistoryMax
       DEF Fine, Many, Of, Counted
  <1>8. CASE StatReturnMany(t)
    <2>1. /\ step' = [step EXCEPT ![t] = "reduce"] /\ ~reducing[t] /\ l > M
          /\ left' = [left EXCEPT ![t] = l - M]
      BY ONLY <1>8, k = topic[t] /\ N = Many(k) /\ l = left[t] /\ M = HistoryMax
         DEF StatReturnMany, Go, Exceeds
    <2>2. step'[t] = "reduce" /\ left'[t] = l - M /\ \A u \in Threads : u # t => step'[u] = step[u]
      BY ONLY Typed, <2>1, t \in Threads DEF Typed
    <2>3. N <= M + (l - M)
      BY ONLY <1>5, <1>6, <2>1
    <2>4. Many(k)' <= HistoryMax + left'[t] /\ Counted(k, Many(k))'
      <3>1. Counted(k, N)
        BY ONLY <1>6, <2>1
      <3>2. CountedIn(topicStats', k, N)
        BY ONLY <1>1, <3>1 DEF Counted
      <3>3. Counted(k, Many(k))'
        BY ONLY <1>7, <3>2 DEF Counted
      <3>4. QED
        BY ONLY <1>7, <2>2, <2>3, <3>3, k = topic[t] /\ N = Many(k) /\ l = left[t] /\ M = HistoryMax
    <2>5. InHand(t)'
      BY ONLY <1>7, <2>2, <2>4 DEF InHand
    <2>6. InAppend(t)' => InHand(t)' /\ (step'[t] = "update" => WellPlaced(t)')
      BY ONLY <2>2, <2>5
    <2>7. ~ InAppend(t)' => Fine(k)'
      BY ONLY <2>2 DEF InAppend
    <2>8. Sorted(topicStats') /\ \A top \in Topics : top # k /\ Fine(top) => Fine(top)'
      BY ONLY <1>1, <1>4, <1>7
    <2>9. k = topic[t]
      BY ONLY k = topic[t] /\ N = Many(k) /\ l = left[t] /\ M = HistoryMax
    <2>10. QED
      BY ONLY <1>1, <1>2, <1>3, <2>2, <2>6, <2>7, <2>8, <2>9, Typed, Alone, t \in Threads, AloneHolds
  <1>9. CASE StatReturn(t)
    <2>1. step' = [step EXCEPT ![t] = "read"] /\ ~Exceeds(t)
      BY ONLY <1>9 DEF StatReturn, Go
    <2>2. step'[t] = "read" /\ \A u \in Threads : u # t => step'[u] = step[u]
      BY ONLY Typed, <2>1, t \in Threads DEF Typed
    <2>3. Fine(k)
      <3>1. SUFFICES ASSUME ~reducing[t] PROVE Fine(k)
        BY <1>6
      <3>2. SUFFICES ASSUME l > M PROVE FALSE
        <4>1. CASE ~(l > M)
          <5>1. N <= M
            BY ONLY <1>5, <1>6, <3>1, <4>1
          <5>2. QED
            BY ONLY <1>6, <3>1, <5>1, k = topic[t] /\ N = Many(k) /\ l = left[t] /\ M = HistoryMax
               DEF Fine
        <4>2. QED
          BY <4>1
      <3>3. l - M \in Nat /\ l - M > 0 /\ l - M < 2^(Width - 1)
        <4> PICK h : h = 2^(Width - 1)
          OBVIOUS
        <4>1. h \in Int
          BY h = 2^(Width - 1), HistoryAssumption DEF HistoryAssumption
        <4>2. l < h
          BY ONLY <1>6, <3>1, h = 2^(Width - 1)
        <4>3. l - M \in Nat /\ l - M > 0 /\ l - M < h
          BY ONLY <1>5, <3>2, <4>1, <4>2
        <4>4. QED
          BY ONLY <4>3, h = 2^(Width - 1)
      <3> PICK d : d = l - M
        OBVIOUS
      <3>4. d \in Nat /\ d > 0 /\ d < 2^(Width - 1)
        BY ONLY <3>3, d = l - M
      <3>5. Wrap(d) = d /\ Signed(d) = d
        BY ONLY HistoryAssumption, <3>4, SmallNumber
      <3>6. Signed(Wrap(d)) = d
        BY ONLY <3>5
      <3>7. Signed(Wrap(left[t] - HistoryMax)) = d
        BY ONLY <3>6, d = l - M, k = topic[t] /\ N = Many(k) /\ l = left[t] /\ M = HistoryMax
      <3>8. Exceeds(t)
        BY ONLY <3>1, <3>2, <3>4, <3>7, k = topic[t] /\ N = Many(k) /\ l = left[t] /\ M = HistoryMax
           DEF Exceeds
      <3>9. QED
        BY ONLY <2>1, <3>8
    <2>4. ~ InAppend(t)' /\ Fine(k)'
      BY ONLY <1>7, <2>2, <2>3 DEF InAppend
    <2>6. InAppend(t)' => InHand(t)' /\ (step'[t] = "update" => WellPlaced(t)')
      BY ONLY <2>4
    <2>7. ~ InAppend(t)' => Fine(k)'
      BY ONLY <2>4
    <2>8. Sorted(topicStats') /\ \A top \in Topics : top # k /\ Fine(top) => Fine(top)'
      BY ONLY <1>1, <1>4, <1>7
    <2>9. k = topic[t]
      BY ONLY k = topic[t] /\ N = Many(k) /\ l = left[t] /\ M = HistoryMax
    <2>10. QED
      BY ONLY <1>1, <1>2, <1>3, <2>2, <2>6, <2>7, <2>8, <2>9, Typed, Alone, t \in Threads, AloneHolds
  <1>10. QED
    BY ONLY <1>8, <1>9, StatReturnMany(t) \/ StatReturn(t)
(* A topic with n messages counted has fewer counted as well.              *)
LEMMA CountedLess ==
  ASSUME NEW s \in Seq(Stat), NEW top, NEW n \in Int, NEW m \in Int, m <= n, CountedIn(s, top, n)
  PROVE  CountedIn(s, top, m)
  <1>1. CASE n <= 0
    <2>1. m <= 0
      BY ONLY <1>1, m <= n, n \in Int, m \in Int
    <2>2. QED
      BY ONLY <2>1 DEF CountedIn
  <1>2. CASE ~(n <= 0)
    <2>1. PICK i \in 1..Len(s) : s[i].topic = top /\ s[i].count >= n
      BY ONLY <1>2, CountedIn(s, top, n) DEF CountedIn
    <2>2. s[i] \in Stat
      BY ONLY <2>1, s \in Seq(Stat)
    <2>3. s[i].count \in Nat
      BY ONLY <2>2 DEF Stat
    <2> PICK c : c = s[i].count
      OBVIOUS
    <2>4. c >= m
      <3>1. c \in Nat /\ c >= n
        BY ONLY <2>1, <2>3, c = s[i].count
      <3>2. QED
        BY ONLY <3>1, m <= n, n \in Int, m \in Int
    <2>5. QED
      BY ONLY <2>1, <2>4, c = s[i].count DEF CountedIn
  <1>3. QED
    BY ONLY <1>1, <1>2
(* Alone is kept in the loop of CalReduce, which takes one message of the  *)
(* topic and one of the number to take.                                    *)
LEMMA AloneReduce ==
  ASSUME HistoryAssumption, IInv, Typed, Alone, NEW t \in Threads, Reduce(t)
  PROVE  Alone'
  <1> PICK k, O, N, l, M, old : /\ k = topic[t] /\ O = Of(k) /\ N = Many(k) /\ l = left[t]
                                /\ M = HistoryMax /\ old = Min(Of(k))
    OBVIOUS
  <1>0. /\ k = topic[t] /\ O = Of(k) /\ N = Many(k) /\ l = left[t]
        /\ M = HistoryMax /\ old = Min(Of(k))
    OBVIOUS
  <1>1. /\ step[t] = "reduce" /\ topicStats' = topicStats /\ topic' = topic
        /\ kept' = kept \ {old} /\ topicOf' = topicOf /\ overlapped' = overlapped
        /\ step' = step /\ left' = [left EXCEPT ![t] = l - 1] /\ O # {}
    BY ONLY Reduce(t), <1>0 DEF Reduce
  <1>2. SUFFICES ASSUME ~overlapped PROVE Alone'
    BY <1>1, Overlapped
  <1>3. InAppend(t)
    BY ONLY <1>1 DEF InAppend
  <1>4. Sorted(topicStats) /\ InHand(t)
    BY ONLY <1>2, <1>3, Alone, t \in Threads, AloneIs
  <1>5. N \in Nat /\ l \in Nat /\ M \in Nat /\ IsFiniteSet(O) /\ O \subseteq Nat /\ N = Cardinality(O)
    BY ONLY IInv, Typed, HistoryAssumption, ManyFinite, t \in Threads, <1>0
       DEF Typed, HistoryAssumption, Many
  <1>6. old \in O
    BY ONLY <1>0, <1>1, <1>5, NatMin
  <1>7. Of(k)' = O \ {old} /\ \A top : top # k => Of(top)' = Of(top)
    BY ONLY <1>0, <1>1, <1>6 DEF Of
  <1>8. Cardinality(O \ {old}) = N - 1
    BY ONLY <1>5, <1>6, FS_RemoveElement
  <1>9. Many(k)' = N - 1 /\ \A top : top # k => Many(top)' = Many(top)
    BY ONLY <1>7, <1>8 DEF Many
  <1>10. N <= M + l /\ Counted(k, N)
    BY ONLY <1>0, <1>1, <1>4 DEF InHand
  <1>11. CountedIn(topicStats', k, N - 1)
    <2>1. topicStats \in Seq(Stat)
      BY ONLY Typed DEF Typed
    <2>2. CountedIn(topicStats, k, N)
      BY ONLY <1>10 DEF Counted
    <2>3. N - 1 \in Int /\ N \in Int /\ N - 1 <= N
      BY ONLY <1>5
    <2>4. CountedIn(topicStats, k, N - 1)
      BY ONLY <2>1, <2>2, <2>3, CountedLess
    <2>5. QED
      BY ONLY <1>1, <2>4
  <1>12. left'[t] = l - 1 /\ N - 1 <= M + (l - 1)
    <2>1. left'[t] = l - 1
      BY ONLY Typed, <1>1, t \in Threads DEF Typed
    <2>2. QED
      BY ONLY <2>1, <1>5, <1>10
  <1>13. InHand(t)'
    <2>1. Many(k)' <= HistoryMax + left'[t]
      BY ONLY <1>0, <1>9, <1>12
    <2>2. Counted(k, Many(k))'
      BY ONLY <1>9, <1>11 DEF Counted
    <2>3. step'[t] = "reduce" /\ topic'[t] = k
      BY ONLY <1>0, <1>1
    <2>4. QED
      BY ONLY <2>1, <2>2, <2>3 DEF InHand
  <1>14. InAppend(t)' => InHand(t)' /\ (step'[t] = "update" => WellPlaced(t)')
    BY ONLY <1>1, <1>13
  <1>15. ~ InAppend(t)' => Fine(k)'
    BY ONLY <1>1 DEF InAppend
  <1>16. \A top \in Topics : top # k /\ Fine(top) => Fine(top)'
    BY ONLY <1>1, <1>9 DEF Fine, Counted
  <1>17. Sorted(topicStats') /\ k = topic[t]
    BY ONLY <1>0, <1>1, <1>4
  <1>18. \A u \in Threads : u # t => step'[u] = step[u]
    BY ONLY <1>1
  <1>19. QED
    BY ONLY <1>1, <1>2, <1>3, <1>14, <1>15, <1>16, <1>17, <1>18, Typed, Alone, t \in Threads, AloneHolds
(* Alone is kept at the end of the loop: the maximum is left, or there was *)
(* no message any more.                                                    *)
LEMMA AloneReduceEnd ==
  ASSUME HistoryAssumption, IInv, Typed, Alone, NEW t \in Threads, ReduceEnd(t)
  PROVE  Alone'
  <1> PICK k, N, l, M : k = topic[t] /\ N = Many(k) /\ l = left[t] /\ M = HistoryMax
    OBVIOUS
  <1>0. k = topic[t] /\ N = Many(k) /\ l = left[t] /\ M = HistoryMax
    OBVIOUS
  <1>1. /\ step[t] = "reduce" /\ topicStats' = topicStats /\ topic' = topic
        /\ kept' = kept /\ topicOf' = topicOf /\ overlapped' = overlapped
        /\ step' = [step EXCEPT ![t] = "find"] /\ reducing' = reducing
        /\ (l = 0 \/ Of(k) = {})
    BY ONLY ReduceEnd(t), <1>0 DEF ReduceEnd, Go, locals
  <1>2. SUFFICES ASSUME ~overlapped PROVE Alone'
    BY <1>1, Overlapped
  <1>3. InAppend(t)
    BY ONLY <1>1 DEF InAppend
  <1>4. Sorted(topicStats) /\ InHand(t)
    BY ONLY <1>2, <1>3, Alone, t \in Threads, AloneIs
  <1>5. N \in Nat /\ l \in Nat /\ M \in Nat
    BY ONLY IInv, Typed, HistoryAssumption, ManyFinite, t \in Threads, <1>0
       DEF Typed, HistoryAssumption
  <1>6. N <= M + l /\ Counted(k, N)
    BY ONLY <1>0, <1>1, <1>4 DEF InHand
  <1>7. N <= M
    <2>1. CASE l = 0
      BY ONLY <1>5, <1>6, <2>1
    <2>2. CASE Of(k) = {}
      <3>1. N = 0
        BY ONLY <1>0, <2>2, FS_EmptySet DEF Many
      <3>2. QED
        BY ONLY <1>5, <3>1
    <2>3. QED
      BY ONLY <1>1, <2>1, <2>2
  <1>8. Fine(k)
    BY ONLY <1>0, <1>6, <1>7 DEF Fine
  <1>9. \A top : Fine(top)' <=> Fine(top)
    BY ONLY <1>1 DEF Fine, Many, Of, Counted
  <1>10. /\ step'[t] = "find" /\ reducing'[t] /\ topic'[t] = k
         /\ \A u \in Threads : u # t => step'[u] = step[u]
    BY ONLY Typed, <1>0, <1>1, t \in Threads DEF Typed
  <1>11. InHand(t)'
    BY ONLY <1>8, <1>9, <1>10 DEF InHand
  <1>12. InAppend(t)' => InHand(t)' /\ (step'[t] = "update" => WellPlaced(t)')
    BY ONLY <1>10, <1>11
  <1>13. ~ InAppend(t)' => Fine(k)'
    BY ONLY <1>8, <1>9
  <1>14. Sorted(topicStats') /\ k = topic[t] /\ \A top \in Topics : top # k /\ Fine(top) => Fine(top)'
    BY ONLY <1>0, <1>1, <1>4, <1>9
  <1>15. QED
    BY ONLY <1>1, <1>2, <1>3, <1>10, <1>12, <1>13, <1>14, Typed, Alone, t \in Threads, AloneHolds
(* The update of CalStat lowers no count, and keeps the list in order.     *)
LEMMA UpdateCounts ==
  ASSUME NEW t \in Threads, NEW s, NEW p, Typed, Updated(t, s, p)
  PROVE  /\ \A top, n : n \in Int /\ Counted(top, n) => CountedIn(topicStats', top, n)
         /\ Sorted(s) => Sorted(topicStats')
  <1> PICK u, c : u = topicStats' /\ c = s[p].count + count[t]
    OBVIOUS
  <1>0. u = topicStats' /\ c = s[p].count + count[t]
    OBVIOUS
  <1>1. /\ topicStats \in Seq(Stat) /\ count[t] \in Nat /\ sp[t] \in Nat
    BY ONLY Typed, t \in Threads DEF Typed
  <1>2. /\ s \in Seq(Stat) /\ p \in 1..Len(s) /\ u \in Seq(Stat) /\ Len(u) = Len(s)
        /\ \A i \in 1..Len(s) : u[i].topic = s[i].topic
        /\ \A i \in 1..Len(s) : u[i].count = IF i = p THEN c ELSE s[i].count
        /\ s[p].count \in Nat
    BY ONLY Updated(t, s, p), <1>0 DEF Updated
  <1>3. c \in Nat /\ c >= s[p].count
    BY ONLY <1>0, <1>1, <1>2
  <1>4. /\ Sorted(s) => Sorted(u)
        /\ \A top, n : n \in Int /\ CountedIn(s, top, n) => CountedIn(u, top, n)
    BY ONLY <1>2, <1>3, PutKeeps
  <1>5. ASSUME NEW top, NEW n \in Int, Counted(top, n) PROVE CountedIn(s, top, n)
    <2>0. CountedIn(topicStats, top, n)
      BY ONLY <1>5 DEF Counted
    <2>1. CASE sp[t] = 0
      <3> PICK e : e = [topic |-> topic[t], count |-> 0]
        OBVIOUS
      <3>1. Inserted(topicStats, s, p, e)
        BY ONLY Updated(t, s, p), <2>1, e = [topic |-> topic[t], count |-> 0] DEF Updated
      <3>2. Len(s) = Len(topicStats) + 1
        BY ONLY <3>1 DEF Inserted
      <3>3. p \in 1..Len(topicStats) + 1
        BY ONLY <1>2, <3>2
      <3>4. QED
        BY ONLY <1>1, <2>0, <3>1, <3>3, InsertedKeeps
    <2>2. CASE sp[t] # 0
      <3>1. s = topicStats
        BY ONLY Updated(t, s, p), <2>2 DEF Updated
      <3>2. QED
        BY ONLY <2>0, <3>1
    <2>3. QED
      BY ONLY <2>1, <2>2
  <1>6. QED
    BY ONLY <1>0, <1>4, <1>5
(* The update of CalStat writes the entry of its topic, and a new one is   *)
(* put in its place.                                                       *)
LEMMA UpdateSorted ==
  ASSUME NEW t \in Threads, NEW s, NEW p, HistoryAssumption, Typed, InAppend(t),
         Sorted(topicStats), WellPlaced(t), Updated(t, s, p)
  PROVE  Sorted(s) /\ s[p].topic = topic[t]
  <1> PICK k, n : k = topic[t] /\ n = Len(topicStats)
    OBVIOUS
  <1>0. k = topic[t] /\ n = Len(topicStats)
    OBVIOUS
  <1>1. /\ topicStats \in Seq(Stat) /\ k \in Topics /\ k \in Nat /\ Topics \subseteq Nat
        /\ n \in Nat
    <2>1. topicStats \in Seq(Stat) /\ k \in Topics
      BY ONLY Typed, InAppend(t), t \in Threads, <1>0 DEF Typed
    <2>2. QED
      BY ONLY <2>1, HistoryAssumption, <1>0 DEF HistoryAssumption
  <1>2. CASE sp[t] = 0
    <2> PICK e : e = [topic |-> k, count |-> 0]
      OBVIOUS
    <2>1. p = FindPosition(k) /\ Inserted(topicStats, s, p, e)
      BY ONLY Updated(t, s, p), <1>0, <1>2, e = [topic |-> k, count |-> 0] DEF Updated
    <2>2. \A i \in 1..n : topicStats[i].topic # k
      BY ONLY WellPlaced(t), <1>0, <1>2 DEF WellPlaced
    <2>3. p \in 1..n + 1 /\ IsPlace(topicStats, k, p)
      <3>1. \A q \in Topics : q \in Nat
        BY ONLY <1>1
      <3>2. /\ FindPosition(k) \in 1..Len(topicStats) + 1
            /\ Sorted(topicStats) => IsPlace(topicStats, k, FindPosition(k))
        BY ONLY <1>1, <3>1, FindPositionIs
      <3>3. QED
        BY ONLY <1>0, <2>1, <3>2, Sorted(topicStats)
    <2>4. ~(p <= n /\ topicStats[p].topic = k)
      BY ONLY <1>1, <2>2, <2>3
    <2>5. /\ \A i \in 1..n : i < p => topicStats[i].topic < k
          /\ \A i \in 1..n : p <= i => k < topicStats[i].topic
      BY ONLY <1>0, <2>3, <2>4 DEF IsPlace
    <2>6. e.topic = k
      BY ONLY e = [topic |-> k, count |-> 0]
    <2>7. Sorted(s)
      <3>1. /\ \A i \in 1..Len(topicStats) : i < p => topicStats[i].topic < e.topic
            /\ \A i \in 1..Len(topicStats) : p <= i => e.topic < topicStats[i].topic
            /\ p \in 1..Len(topicStats) + 1
        BY ONLY <1>0, <2>3, <2>5, <2>6
      <3>2. QED
        BY ONLY <1>1, <2>1, <3>1, Sorted(topicStats), InsertedSorted
    <2>8. s[p] = e
      BY ONLY <2>1 DEF Inserted
    <2>9. QED
      BY ONLY <1>0, <2>6, <2>7, <2>8
  <1>3. CASE sp[t] # 0
    <2>1. s = topicStats /\ p = sp[t]
      BY ONLY Updated(t, s, p), <1>3 DEF Updated
    <2>2. topicStats[sp[t]].topic = topic[t]
      BY ONLY WellPlaced(t), <1>3 DEF WellPlaced
    <2>3. QED
      BY ONLY <2>1, <2>2, Sorted(topicStats)
  <1>4. QED
    BY ONLY <1>2, <1>3

(* A message that is not counted yet is counted by the update.             *)
LEMMA UpdateHand ==
  ASSUME NEW t \in Threads, NEW s, NEW p, NEW N \in Nat, HistoryAssumption, Typed,
         Sorted(topicStats), WellPlaced(t), Updated(t, s, p), s[p].topic = topic[t],
         count[t] = 1, Counted(topic[t], N - 1)
  PROVE  N <= s[p].count + 1 /\ CountedIn(topicStats', topic[t], N)
  <1> PICK k, c : k = topic[t] /\ c = s[p].count
    OBVIOUS
  <1>0. k = topic[t] /\ c = s[p].count
    OBVIOUS
  <1>1. c \in Nat
    BY ONLY Updated(t, s, p), <1>0 DEF Updated
  <1>2. N <= c + 1
    <2>1. CASE N - 1 <= 0
      BY ONLY <1>1, <2>1, N \in Nat
    <2>2. CASE ~(N - 1 <= 0)
      <3>1. PICK i \in 1..Len(topicStats) :
               topicStats[i].topic = k /\ topicStats[i].count >= N - 1
        BY ONLY <1>0, <2>2, Counted(topic[t], N - 1) DEF Counted, CountedIn
      <3>2. sp[t] # 0
        BY ONLY <1>0, <3>1, WellPlaced(t) DEF WellPlaced
      <3>3. sp[t] \in 1..Len(topicStats) /\ topicStats[sp[t]].topic = k
        BY ONLY <1>0, <3>2, WellPlaced(t) DEF WellPlaced
      <3>4. s = topicStats /\ p = sp[t]
        BY ONLY <3>2, Updated(t, s, p) DEF Updated
      <3>5. i = sp[t]
        <4>1. topicStats \in Seq(Stat) /\ Topics \subseteq Nat
          BY ONLY Typed, HistoryAssumption DEF Typed, HistoryAssumption
        <4>2. \A x, y \in 1..Len(topicStats) : topicStats[x].topic = topicStats[y].topic => x = y
          BY ONLY <4>1, Sorted(topicStats), OneEntry
        <4>3. QED
          BY ONLY <3>1, <3>3, <4>2
      <3>6. c >= N - 1
        BY ONLY <1>0, <3>1, <3>4, <3>5
      <3>7. QED
        BY ONLY <1>1, <3>6, N \in Nat
    <2>3. QED
      BY ONLY <2>1, <2>2
  <1>3. /\ p \in 1..Len(topicStats') /\ topicStats'[p].topic = k
        /\ topicStats'[p].count = c + 1
    <2>1. /\ p \in 1..Len(s) /\ Len(topicStats') = Len(s)
          /\ topicStats'[p].topic = s[p].topic
          /\ topicStats'[p].count = s[p].count + count[t]
      BY ONLY Updated(t, s, p) DEF Updated
    <2>2. QED
      BY ONLY <1>0, <2>1, s[p].topic = topic[t], count[t] = 1
  <1>4. c + 1 >= N
    BY ONLY <1>1, <1>2, N \in Nat
  <1>5. CountedIn(topicStats', k, N)
    BY ONLY <1>3, <1>4 DEF CountedIn
  <1>6. QED
    BY ONLY <1>0, <1>2, <1>5
(* Alone is kept when CalStat updates the count: the message it was called *)
(* for is counted.                                                         *)
LEMMA AloneUpdate ==
  ASSUME HistoryAssumption, IInv, Typed, ~wrapped', Alone, NEW t \in Threads, StatUpdate(t)
  PROVE  Alone'
  <1> PICK k, N : k = topic[t] /\ N = Many(k)
    OBVIOUS
  <1>0. k = topic[t] /\ N = Many(k)
    OBVIOUS
  <1>1. /\ step[t] = "update" /\ topic' = topic /\ kept' = kept /\ topicOf' = topicOf
        /\ overlapped' = overlapped /\ step' = [step EXCEPT ![t] = "unlock"]
        /\ reducing' = reducing
    BY ONLY StatUpdate(t) DEF StatUpdate, Go
  <1>2. SUFFICES ASSUME ~overlapped PROVE Alone'
    BY <1>1, Overlapped
  <1>3. InAppend(t)
    BY ONLY <1>1 DEF InAppend
  <1>4. Sorted(topicStats) /\ InHand(t) /\ WellPlaced(t)
    BY ONLY <1>1, <1>2, <1>3, Alone, t \in Threads, AloneIs
  <1>5. PICK s, p : Updated(t, s, p)
    BY ONLY HistoryAssumption, Typed, ~wrapped', t \in Threads, StatUpdate(t), UpdateIs
  <1>6. Sorted(s) /\ s[p].topic = k
    BY ONLY <1>0, <1>3, <1>4, <1>5, HistoryAssumption, Typed, t \in Threads, UpdateSorted
  <1>7. /\ \A top, n : n \in Int /\ Counted(top, n) => CountedIn(topicStats', top, n)
        /\ Sorted(topicStats')
    BY ONLY <1>5, <1>6, Typed, t \in Threads, UpdateCounts
  <1>8. \A top : Many(top)' = Many(top) /\ Many(top) \in Nat
    <2>1. \A top : Many(top)' = Many(top)
      BY ONLY <1>1 DEF Many, Of
    <2>2. \A top : Many(top) \in Nat
      BY ONLY IInv, ManyFinite
    <2>3. QED
      BY ONLY <2>1, <2>2
  <1>9. \A top : Fine(top) => Fine(top)'
    <2>1. SUFFICES ASSUME NEW top, Fine(top) PROVE Fine(top)'
      OBVIOUS
    <2> PICK m : m = Many(top)
      OBVIOUS
    <2>2. m <= HistoryMax /\ Counted(top, m) /\ m \in Int
      BY ONLY <1>8, <2>1, m = Many(top) DEF Fine
    <2>3. CountedIn(topicStats', top, m)
      BY ONLY <1>7, <2>2
    <2>4. QED
      BY ONLY <1>8, <2>2, <2>3, m = Many(top) DEF Fine, Counted
  <1>10. /\ step'[t] = "unlock" /\ topic'[t] = k
         /\ \A u \in Threads : u # t => step'[u] = step[u]
    BY ONLY Typed, <1>0, <1>1, t \in Threads DEF Typed
  <1>11. InHand(t)'
    <2>1. CASE reducing[t]
      <3>1. Fine(k)
        BY ONLY <1>0, <1>1, <1>4, <2>1 DEF InHand
      <3>2. reducing'[t] /\ Fine(k)'
        BY ONLY <1>1, <1>9, <2>1, <3>1
      <3>3. QED
        BY ONLY <1>10, <3>2 DEF InHand
    <2>2. CASE ~reducing[t]
      <3>1. count[t] = 1
        BY ONLY Typed, <1>1, <2>2, t \in Threads DEF Typed
      <3>2. Counted(topic[t], N - 1) /\ N \in Nat
        BY ONLY <1>0, <1>1, <1>4, <1>8, <2>2 DEF InHand
      <3>3. s[p].topic = topic[t]
        BY ONLY <1>0, <1>6
      <3>4. N <= s[p].count + 1 /\ CountedIn(topicStats', topic[t], N)
        BY ONLY <1>4, <1>5, <3>1, <3>2, <3>3, HistoryAssumption, Typed, t \in Threads, UpdateHand
      <3>5. left'[t] = s[p].count + 1 /\ s[p].count + 1 < 2^(Width - 1)
        <4>1. /\ left' = [left EXCEPT ![t] = s[p].count + count[t]]
              /\ s[p].count + count[t] < 2^(Width - 1)
          BY ONLY <1>5 DEF Updated
        <4>2. left \in [Threads -> Nat]
          BY ONLY Typed DEF Typed
        <4>3. QED
          BY ONLY <3>1, <4>1, <4>2, t \in Threads
      <3>6. left'[t] < 2^(Width - 1) /\ Many(k)' <= left'[t] /\ Counted(k, Many(k))'
        <4>1. Many(k)' = N
          BY ONLY <1>0, <1>8
        <4>2. CountedIn(topicStats', k, N)
          BY ONLY <1>0, <3>4
        <4>3. Counted(k, Many(k))'
          BY ONLY <4>1, <4>2 DEF Counted
        <4>4. QED
          BY ONLY <3>4, <3>5, <4>1, <4>3
      <3>7. ~reducing'[t]
        BY ONLY <1>1, <2>2
      <3>8. QED
        BY ONLY <1>10, <3>6, <3>7 DEF InHand
    <2>3. QED
      BY ONLY <2>1, <2>2
  <1>12. InAppend(t)' => InHand(t)' /\ (step'[t] = "update" => WellPlaced(t)')
    BY ONLY <1>10, <1>11
  <1>13. ~ InAppend(t)' => Fine(k)'
    BY ONLY <1>10 DEF InAppend
  <1>14. /\ Sorted(topicStats') /\ k = topic[t]
         /\ \A top \in Topics : top # k /\ Fine(top) => Fine(top)'
    BY ONLY <1>0, <1>7, <1>9
  <1>15. QED
    BY ONLY <1>1, <1>2, <1>3, <1>10, <1>12, <1>13, <1>14, Typed, Alone, t \in Threads, AloneHolds
(* A message that is appended is the one that is not counted yet.          *)
LEMMA AloneAppend ==
  ASSUME HistoryAssumption, IInv, Typed, Alone,
         NEW t \in Threads, NEW top \in Topics, Append_(t, top)
  PROVE  Alone'
  <1> PICK new, O, N : new = Len(topicOf) + 1 /\ O = Of(top) /\ N = Many(top)
    OBVIOUS
  <1>0. new = Len(topicOf) + 1 /\ O = Of(top) /\ N = Many(top)
    OBVIOUS
  <1>1. /\ step' = [step EXCEPT ![t] = "find"]
        /\ topicOf' = Append(topicOf, top) /\ kept' = kept \cup {new}
        /\ topic' = [topic EXCEPT ![t] = top]
        /\ reducing' = [reducing EXCEPT ![t] = FALSE]
        /\ topicStats' = topicStats
    BY ONLY Append_(t, top), <1>0 DEF Append_, Go, CalStat
  <1>2. overlapped' = (overlapped \/ \E u \in Threads : step[u] \notin {"idle", "read"})
    BY ONLY Append_(t, top) DEF Append_
  <1>3. CASE overlapped'
    BY ONLY <1>3, Zenon DEF Alone
  <1>4. CASE ~overlapped'
    <2>1. ~overlapped /\ \A u \in Threads : step[u] \in {"idle", "read"}
      BY ONLY <1>2, <1>4
    <2>2. \A u \in Threads : ~InAppend(u)
      BY ONLY <2>1 DEF InAppend
    <2>3. Sorted(topicStats) /\ \A q \in Topics : Fine(q)
      BY ONLY Alone, <2>1, <2>2 DEF Alone
    <2>4. \A u \in Threads : step'[u] = IF u = t THEN "find" ELSE step[u]
      BY ONLY Typed, <1>1, t \in Threads DEF Typed
    <2>5. topic'[t] = top /\ ~reducing'[t]
      BY ONLY Typed, <1>1, t \in Threads DEF Typed
    <2>6. \A u \in Threads : InAppend(u)' => u = t
      BY ONLY <2>1, <2>4 DEF InAppend
    <2>7. /\ Len(topicOf) \in Nat /\ kept \subseteq 1..Len(topicOf) /\ topicOf \in Seq(Topics)
      BY ONLY IInv DEF IInv
    <2>8. topicOf'[new] = top /\ \A m \in kept : topicOf'[m] = topicOf[m]
      <3>1. \A m \in 1..Len(topicOf) : Append(topicOf, top)[m] = topicOf[m]
        BY ONLY <2>7, top \in Topics
      <3>2. Append(topicOf, top)[new] = top
        BY ONLY <1>0, <2>7, top \in Topics
      <3>3. QED
        BY ONLY <1>1, <2>7, <3>1, <3>2
    <2>9. Of(top)' = O \cup {new} /\ \A q : q # top => Of(q)' = Of(q)
      BY ONLY <1>0, <1>1, <2>8 DEF Of
    <2>10. IsFiniteSet(O) /\ new \notin O /\ N = Cardinality(O) /\ N \in Nat
      <3>1. new \notin kept
        BY ONLY <1>0, IInv, KeptFinite
      <3>2. new \notin O
        BY ONLY <1>0, <3>1 DEF Of
      <3>3. IsFiniteSet(Of(top)) /\ Many(top) \in Nat
        BY ONLY IInv, ManyFinite
      <3>4. QED
        BY ONLY <1>0, <3>2, <3>3 DEF Many
    <2>11. Cardinality(O \cup {new}) = N + 1
      BY ONLY <2>10, FS_AddElement
    <2>12. Many(top)' = N + 1 /\ \A q : q # top => Many(q)' = Many(q)
      BY ONLY <2>9, <2>11 DEF Many
    <2>13. Counted(top, Many(top) - 1)'
      <3>1. Counted(top, N)
        BY ONLY <1>0, <2>3, top \in Topics DEF Fine
      <3>2. CountedIn(topicStats', top, N)
        BY ONLY <1>1, <3>1 DEF Counted
      <3>3. (N + 1) - 1 = N
        BY ONLY <2>10
      <3>4. QED
        BY ONLY <2>12, <3>2, <3>3 DEF Counted
    <2>14. InHand(t)'
      <3>1. step'[t] = "find"
        BY ONLY <2>4, t \in Threads
      <3>2. QED
        BY ONLY <2>5, <2>13, <3>1 DEF InHand
    <2>15. \A u, v \in Threads : InAppend(u)' /\ InAppend(v)' => u = v
      BY ONLY <2>6
    <2>16. \A u \in Threads : step'[u] = "update" => WellPlaced(u)'
      BY ONLY <2>1, <2>4
    <2>17. \A u \in Threads : InAppend(u)' => InHand(u)'
      BY ONLY <2>6, <2>14
    <2>18. ASSUME NEW q \in Topics, \A u \in Threads : InAppend(u)' => topic'[u] # q
           PROVE  Fine(q)'
      <3>1. InAppend(t)'
        BY ONLY <2>4, t \in Threads DEF InAppend
      <3>2. q # top
        BY ONLY <2>5, <2>18, <3>1, t \in Threads
      <3>3. Fine(q)
        BY ONLY <2>3, q \in Topics
      <3>4. Many(q)' = Many(q)
        BY ONLY <2>12, <3>2
      <3>5. QED
        BY ONLY <1>1, <3>3, <3>4 DEF Fine, Counted
    <2>19. Sorted(topicStats')
      BY ONLY <1>1, <2>3
    <2>20. QED
      BY ONLY <2>15, <2>16, <2>17, <2>18, <2>19, Zenon DEF Alone
  <1>5. QED
    BY ONLY <1>3, <1>4
(* Alone is kept by the steps that only lock, read or look up the history. *)
LEMMA AloneStill ==
  ASSUME Alone, Still
  PROVE  Alone'
  <1>1. /\ overlapped' = overlapped /\ topicOf' = topicOf /\ kept' = kept
        /\ topicStats' = topicStats /\ topic' = topic /\ sp' = sp
        /\ reducing' = reducing /\ left' = left
    BY ONLY Still DEF Still, locals
  <1>2. SUFFICES ASSUME ~overlapped PROVE Alone'
    BY <1>1, Overlapped
  <1>3. /\ \A t, u \in Threads : InAppend(t) /\ InAppend(u) => t = u
        /\ Sorted(topicStats)
        /\ \A t \in Threads : step[t] = "update" => WellPlaced(t)
        /\ \A t \in Threads : InAppend(t) => InHand(t)
        /\ \A top \in Topics : (\A t \in Threads : InAppend(t) => topic[t] # top) => Fine(top)
    BY ONLY Alone, <1>2 DEF Alone
  <1>4. \A t \in Threads : step'[t] = step[t] \/ {step[t], step'[t]} \subseteq {"idle", "read"}
    BY ONLY Still DEF Still
  <1>5. \A t \in Threads : InAppend(t)' <=> InAppend(t)
    BY ONLY <1>4 DEF InAppend
  <1>6. \A t \in Threads : InAppend(t) => step'[t] = step[t]
    BY ONLY <1>4 DEF InAppend
  <1>7. \A top : Fine(top)' <=> Fine(top)
    BY ONLY <1>1 DEF Fine, Many, Of, Counted
  <1>8. \A t, u \in Threads : InAppend(t)' /\ InAppend(u)' => t = u
    BY ONLY <1>3, <1>5
  <1>9. ASSUME NEW t \in Threads, step'[t] = "update" PROVE WellPlaced(t)'
    <2>1. step[t] = "update"
      BY ONLY <1>4, <1>9
    <2>2. WellPlaced(t)
      BY ONLY <1>3, <2>1
    <2>3. QED
      BY ONLY <1>1, <2>2 DEF WellPlaced
  <1>10. ASSUME NEW t \in Threads, InAppend(t)' PROVE InHand(t)'
    <2>1. InHand(t) /\ step'[t] = step[t]
      BY ONLY <1>3, <1>5, <1>6, <1>10
    <2>2. \A top : Many(top)' = Many(top)
      BY ONLY <1>1 DEF Many, Of
    <2>3. QED
      BY ONLY <1>1, <1>7, <2>1, <2>2 DEF InHand, Counted
  <1>11. ASSUME NEW top \in Topics, \A t \in Threads : InAppend(t)' => topic'[t] # top
         PROVE  Fine(top)'
    BY ONLY <1>1, <1>3, <1>5, <1>7, <1>11
  <1>12. Sorted(topicStats')
    BY ONLY <1>1, <1>3
  <1>13. QED
    BY ONLY <1>8, <1>9, <1>10, <1>11, <1>12, Zenon DEF Alone
(* Alone is kept by every step.                                            *)
LEMMA AloneStep ==
  ASSUME HistoryAssumption, IInv, Typed, ~wrapped', Alone, [Next]_vars
  PROVE  Alone'
  BY ONLY HistoryAssumption, IInv, Typed, ~wrapped', Alone, [Next]_vars, NextCases,
          AloneAppend, AloneFind, AloneUpdate, AloneReturn, AloneReduce, AloneReduceEnd,
          AloneStill
(* Alone holds at the start, where nothing is kept and no thread is in a   *)
(* call.                                                                   *)
LEMMA InitAlone ==
  ASSUME HistoryAssumption, Init
  PROVE  Alone
  <1>1. kept = {} /\ topicStats = <<>> /\ step = [t \in Threads |-> "idle"]
    BY ONLY Init DEF Init
  <1>2. \A t \in Threads : step[t] = "idle"
    BY ONLY <1>1
  <1>3. Sorted(topicStats)
    BY ONLY <1>1 DEF Sorted
  <1>4. ASSUME NEW top \in Topics PROVE Fine(top)
    <2>1. Of(top) = {}
      BY ONLY <1>1 DEF Of
    <2>2. Many(top) = 0
      BY ONLY <2>1, FS_EmptySet DEF Many
    <2>3. HistoryMax \in Nat
      BY ONLY HistoryAssumption DEF HistoryAssumption
    <2>4. QED
      BY ONLY <2>2, <2>3 DEF Fine, Counted, CountedIn
  <1>5. QED
    BY ONLY <1>2, <1>3, <1>4 DEF Alone, InAppend

(* AtMostMax: as long as no two Appends have run at the same time, no      *)
(* topic keeps more than HISTORY_TOPIC_MSG_MAX messages at rest, although  *)
(* CalReduce adds to the count what it should take from it.  It is so in   *)
(* every behaviour, up to the step in which a sum of CalStat first comes   *)
(* to half the range of TMQSize, where Append takes the excess for         *)
(* negative and does not reduce.                                           *)
THEOREM AtMostMaxAlways == Spec => [](~wrapped => AtMostMax)
  <1> DEFINE Inv == IInv /\ Typed /\ Alone
  <1>1. Init => Inv
    <2>1. Init => IInv
      BY DEF Init, IInv, NewestKept
    <2>2. QED
      BY <2>1, InitCounts, InitAlone, HistoryAssumption
  <1> DEFINE UpToThere == wrapped \/ Inv
  <1>2. UpToThere /\ [Next]_vars => UpToThere'
    BY ONLY NextIInv, TypedStep, AloneStep, WrappedStays, HistoryAssumption
  <1>3. Inv => AtMostMax
    <2> SUFFICES ASSUME Alone, ~overlapped, AtRest, NEW top \in Topics
                 PROVE  Cardinality(Of(top)) <= HistoryMax
      BY DEF AtMostMax, AtMostEver
    <2>1. \A t \in Threads : ~InAppend(t)
      BY ONLY AtRest DEF AtRest, InAppend
    <2>2. Fine(top)
      BY ONLY Alone, ~overlapped, <2>1, top \in Topics DEF Alone
    <2>3. QED
      BY ONLY <2>2 DEF Fine, Many
  <1>4. QED
    BY <1>1, <1>2, <1>3, PTL DEF Spec
=============================================================================
