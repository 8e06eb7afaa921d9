----------------------------- MODULE PipeProofs -----------------------------
(***************************************************************************)
(* Proofs about the server of the pipe, for every size of the ring, every  *)
(* set of plugins, topics and payloads and every number of messages, as    *)
(* long as PSend was given no frame that is longer than its buffer.        *)
(*                                                                         *)
(* One stream has to be seen: the bytes of all the messages sent, in the   *)
(* order of their writes.  A first part of it the server has dispatched, a *)
(* second is in the ring between start and end, the rest is in the fifo    *)
(* (Flow), and what is published is what the dispatched messages ask for   *)
(* (Link).  A read moves the bound between the ring and the fifo, however  *)
(* it cuts the frames and wherever it wraps (RingReads), and what          *)
(* DetectMessages then cuts out of the ring are bodies of whole frames of  *)
(* the stream, because a zero in a body is doubled (DetectsFrames).  What  *)
(* is left in the ring is less than a frame, so the next read finds room.  *)
(* The ff 00 that closes a frame stays behind when its body is taken; with *)
(* the next frame it makes an empty message, which OnPipeMessage drops     *)
(* (the second case of Behind).                                            *)
(***************************************************************************)
EXTENDS PipeService, FiniteSetTheorems, SequenceTheorems, WellFoundedInduction, TLAPS

(* A set of numbers that is not empty has a least one. *)
LEMMA NatMin ==
  ASSUME NEW S, S \subseteq Nat, S # {}
  PROVE  Min(S) \in S /\ \A y \in S : Min(S) <= y
  <1> DEFINE Less == {ss \in Nat \X Nat : ss[1] < ss[2]}
  <1>0. IsWellFoundedOn(Less, Nat)
    BY NatLessThanWellFounded DEF OpToRel
  <1>1. PICK x \in S : \A y \in S : ~ (<<y, x>> \in Less)
    <2> HIDE DEF Less
    <2> QED BY <1>0, WFMin
  <1>2. \A y \in S : x <= y
    <2>1. ASSUME NEW y \in S PROVE ~(y < x)
      BY <1>1
    <2>2. QED
      BY <2>1
  <1>3. QED
    BY <1>2 DEF Min

(* Among some things with a rank one has the least rank.                   *)
LEMMA LeastRank ==
  ASSUME NEW D, NEW C, C \subseteq D, C # {}, NEW rank \in [D -> Nat]
  PROVE  \E n \in C : \A m \in C : rank[n] <= rank[m]
  <1> DEFINE A == {rank[n] : n \in C}
  <1>1. A \subseteq Nat /\ A # {}
    OBVIOUS
  <1>2. PICK x \in A : \A y \in A : x <= y
    BY <1>1, NatMin
  <1>3. PICK n \in C : rank[n] = x
    BY Zenon
  <1>4. QED
    BY <1>2, <1>3

(* A recursion over D that goes from n to next[n], which has a lower rank, *)
(* and ends in Stop; op makes the result at n of that at next[n].          *)
Recursion(D, V, Stop, next, base, op, rank, B) ==
  /\ B \in Nat
  /\ rank \in [D -> Nat]
  /\ \A n \in D : rank[n] <= B
  /\ \A n \in D : n \in Stop => base[n] \in V
  /\ \A n \in D : n \notin Stop => next[n] \in D /\ rank[next[n]] < rank[n]
  /\ op \in [D \X V -> V]

(* Such a recursion defines a function: its equation has a solution.       *)
LEMMA RecursionExists ==
  ASSUME NEW D, NEW V, NEW Stop, NEW next, NEW base, NEW op, NEW B, NEW rank,
         Recursion(D, V, Stop, next, base, op, rank, B)
  PROVE  \E f \in [D -> V] :
           f = [n \in D |-> IF n \in Stop THEN base[n] ELSE op[<<n, f[next[n]]>>]]
  <1> DEFINE Eq(f, n) == f[n] = IF n \in Stop THEN base[n] ELSE op[<<n, f[next[n]]>>]
             Bad == {k \in Nat : ~ \E f \in [D -> V] : \A n \in D : rank[n] < k => Eq(f, n)}
  <1>a. /\ B \in Nat
        /\ rank \in [D -> Nat]
        /\ \A n \in D : rank[n] <= B
        /\ \A n \in D : n \in Stop => base[n] \in V
        /\ \A n \in D : n \notin Stop => next[n] \in D /\ rank[next[n]] < rank[n]
        /\ op \in [D \X V -> V]
    BY DEF Recursion
  <1> USE <1>a
  <1>0. CASE D = {}
    <2>1. [n \in D |-> n] \in [D -> V]
      BY <1>0
    <2>2. \A f \in [D -> V] : f = [n \in D |-> IF n \in Stop THEN base[n] ELSE op[<<n, f[next[n]]>>]]
      BY <1>0
    <2>3. QED
      BY <2>1, <2>2
  <1>1. CASE D # {}
    <2>1. \E v : v \in V
      <3>1. PICK n \in D : \A m \in D : rank[n] <= rank[m]
        BY <1>1, LeastRank
      <3>2. n \in Stop
        <4>1. SUFFICES ASSUME n \notin Stop PROVE FALSE
          OBVIOUS
        <4>2. next[n] \in D /\ rank[next[n]] < rank[n]
          BY <4>1
        <4>3. rank[n] <= rank[next[n]] /\ rank[n] \in Nat /\ rank[next[n]] \in Nat
          BY <3>1, <4>2
        <4>4. QED
          BY <4>2, <4>3
      <3>3. QED
        BY <3>2
    <2>2. Bad = {}
      <3>1. SUFFICES ASSUME Bad # {} PROVE FALSE
        OBVIOUS
      <3>2. PICK k \in Bad : \A j \in Bad : k <= j
        <4>1. Bad \subseteq Nat
          OBVIOUS
        <4>2. QED
          BY <3>1, <4>1, NatMin
      <3>3. PICK v : v \in V
        BY <2>1
      <3>4. k # 0
        <4>1. [n \in D |-> v] \in [D -> V]
          BY <3>3
        <4>2. \A n \in D : ~(rank[n] < 0)
          OBVIOUS
        <4>3. QED
          BY <4>1, <4>2
      <3>5. k - 1 \in Nat /\ ~(k <= k - 1)
        BY <3>4
      <3>6. k - 1 \notin Bad
        BY <3>2, <3>5
      <3>7. PICK f \in [D -> V] : \A n \in D : rank[n] < k - 1 => Eq(f, n)
        BY <3>5, <3>6
      <3> DEFINE g == [n \in D |-> IF n \in Stop THEN base[n] ELSE op[<<n, f[next[n]]>>]]
      <3>8. g \in [D -> V]
        <4>1. ASSUME NEW n \in D, n \notin Stop PROVE op[<<n, f[next[n]]>>] \in V
          <5>1. next[n] \in D
            BY <4>1
          <5>2. f[next[n]] \in V
            BY <5>1, <3>7
          <5>3. <<n, f[next[n]]>> \in D \X V
            BY <5>2
          <5>4. QED
            BY <5>3
        <4> DEFINE At(n) == IF n \in Stop THEN base[n] ELSE op[<<n, f[next[n]]>>]
        <4>2. \A n \in D : At(n) \in V
          BY <4>1
        <4>3. g = [n \in D |-> At(n)]
          OBVIOUS
        <4>4. QED
          <5> HIDE DEF At, g
          <5> QED BY ONLY <4>2, <4>3
      <3>9. ASSUME NEW n \in D, rank[n] < k PROVE Eq(g, n)
        <4>1. CASE n \in Stop
          BY <4>1
        <4>2. CASE n \notin Stop
          <5>1. next[n] \in D /\ rank[next[n]] < rank[n]
            BY <4>2
          <5>2. rank[next[n]] \in Nat /\ rank[n] \in Nat
            BY <5>1
          <5>3. rank[next[n]] < k - 1
            BY <5>1, <5>2, <3>9, k \in Nat
          <5>4. Eq(f, next[n])
            BY <5>1, <5>3, <3>7
          <5>5. g[next[n]] = f[next[n]]
            BY <5>1, <5>4
          <5>6. QED
            BY <5>5, <4>2
        <4>3. QED
          BY <4>1, <4>2
      <3>10. k \notin Bad
        <4> HIDE DEF g
        <4>1. \A n \in D : rank[n] < k => Eq(g, n)
          BY <3>9
        <4>2. QED
          BY <3>8, <4>1
      <3>11. QED
        BY <3>10
    <2>3. PICK j \in Nat : j \notin Bad /\ \A n \in D : rank[n] < j
      <3>1. B + 1 \in Nat /\ \A n \in D : rank[n] < B + 1
        OBVIOUS
      <3>2. PICK j \in Nat : \A n \in D : rank[n] < j
        BY <3>1
      <3>3. j \notin Bad
        BY <2>2, Zenon
      <3>4. QED
        <4> HIDE DEF Bad
        <4> QED BY <3>2, <3>3
    <2>a. \E f \in [D -> V] : \A n \in D : rank[n] < j => Eq(f, n)
      BY <2>3
    <2>b. \E f \in [D -> V] : \A n \in D : Eq(f, n)
      <3> HIDE DEF Eq, Bad
      <3> QED BY <2>a, <2>3
    <2>4. PICK f \in [D -> V] : \A n \in D : Eq(f, n)
      <3> HIDE DEF Eq, Bad
      <3> QED BY <2>b
    <2>5. f = [n \in D |-> IF n \in Stop THEN base[n] ELSE op[<<n, f[next[n]]>>]]
      BY <2>4
    <2>6. QED
      BY <2>5
  <1>2. QED
    BY <1>0, <1>1

-----------------------------------------------------------------------------
(* The coding of bytes.                                                    *)

(* What is left of a sequence from place i on.                             *)
From(s, i) == SubSeq(s, i, Len(s))

(* The code of one byte.                                                   *)
Cell(x) == IF x \in Doubled THEN <<x, x>> ELSE <<x>>

(* b is the code of s, of n bytes: that of s[i] begins at c[i] and goes up *)
(* to c[i + 1], the codes are one behind the other and fill b.             *)
Codes(b, s, c, i) ==
  /\ c[i] \in 1..Len(b) /\ b[c[i]] = s[i]
  /\ c[i + 1] = c[i] + (IF s[i] \in Doubled THEN 2 ELSE 1)
  /\ s[i] \in Doubled => c[i] + 1 \in 1..Len(b) /\ b[c[i] + 1] = s[i]
CodesBehind(c, n) == \A i, j \in 1..n : i < j => c[i + 1] <= c[j]
CodesFill(b, s, c, n) ==
  \A k \in 1..Len(b) : \E i \in 1..n : k = c[i] \/ (k = c[i] + 1 /\ s[i] \in Doubled)

IsCode(b, s, c) ==
  /\ s \in Seq(Byte) /\ b \in Seq(Byte)
  /\ c \in [1..Len(s) + 1 -> Nat]
  /\ c[1] = 1 /\ c[Len(s) + 1] = Len(b) + 1
  /\ \A i \in 1..Len(s) : Codes(b, s, c, i)
  /\ CodesBehind(c, Len(s))
  /\ CodesFill(b, s, c, Len(s))

(* Nothing is the code of nothing.                                         *)
LEMMA CodeOfNothing == IsCode(<<>>, <<>>, [i \in 1..1 |-> 1])
  <1> DEFINE c == [i \in 1..1 |-> 1]
  <1>1. c \in [1..Len(<<>>) + 1 -> Nat] /\ c[1] = 1
    OBVIOUS
  <1>2. QED
    BY <1>1 DEF IsCode, Codes, CodesBehind, CodesFill

(* The code of a byte is that of a sequence of one.                        *)
LEMMA CodeOfOne ==
  ASSUME NEW x \in Byte
  PROVE  IsCode(Cell(x), <<x>>, [i \in 1..2 |-> IF i = 1 THEN 1 ELSE Len(Cell(x)) + 1])
  <1> DEFINE c == [i \in 1..2 |-> IF i = 1 THEN 1 ELSE Len(Cell(x)) + 1]
             b == Cell(x)
             s == <<x>>
  <1>1. s \in Seq(Byte) /\ Len(s) = 1 /\ s[1] = x
    OBVIOUS
  <1>2. CASE x \in Doubled
    <2>1. b \in Seq(Byte) /\ Len(b) = 2 /\ b[1] = x /\ b[2] = x
      BY <1>2 DEF Cell
    <2>2. c \in [1..Len(s) + 1 -> Nat] /\ c[1] = 1 /\ c[2] = 3
      BY <2>1, <1>1
    <2> HIDE DEF c, b, s
    <2>3. \A i \in 1..Len(s) : i = 1
      BY <1>1
    <2>4. \A k \in 1..Len(b) : k = 1 \/ k = 2
      BY <2>1
    <2>5. 1 \in 1..Len(s) /\ 1 \in 1..Len(b) /\ 2 \in 1..Len(b)
      BY <1>1, <2>1
    <2>6. CodesBehind(c, Len(s)) /\ \A i \in 1..Len(s) : Codes(b, s, c, i)
      <3>1. Codes(b, s, c, 1)
        BY ONLY <1>1, <1>2, <2>1, <2>2, <2>5 DEF Codes
      <3>2. \A i, j \in 1..Len(s) : ~(i < j)
        BY ONLY <2>3
      <3>3. QED
        BY ONLY <3>1, <3>2, <2>3 DEF CodesBehind
    <2>7. CodesFill(b, s, c, Len(s))
      <3>1. \A k \in 1..Len(b) : k = c[1] \/ (k = c[1] + 1 /\ s[1] \in Doubled)
        BY ONLY <1>1, <1>2, <2>2, <2>4
      <3>2. QED
        BY ONLY <3>1, <2>5 DEF CodesFill
    <2>8. c[Len(s) + 1] = Len(b) + 1
      BY ONLY <1>1, <2>1, <2>2
    <2>9. IsCode(b, s, c)
      <3>1. s \in Seq(Byte) /\ b \in Seq(Byte)
        BY ONLY <1>1, <2>1
      <3>2. c \in [1..Len(s) + 1 -> Nat] /\ c[1] = 1
        BY ONLY <2>2
      <3>3. QED
        BY ONLY <3>1, <3>2, <2>6, <2>7, <2>8, Zenon DEF IsCode
    <2>10. QED
      BY <2>9 DEF b, s, c
  <1>3. CASE x \notin Doubled
    <2>1. b \in Seq(Byte) /\ Len(b) = 1 /\ b[1] = x
      BY <1>3 DEF Cell
    <2>2. c \in [1..Len(s) + 1 -> Nat] /\ c[1] = 1 /\ c[2] = 2
      BY <2>1, <1>1
    <2> HIDE DEF c, b, s
    <2>3. \A i \in 1..Len(s) : i = 1
      BY <1>1
    <2>4. \A k \in 1..Len(b) : k = 1
      BY <2>1
    <2>5. 1 \in 1..Len(s) /\ 1 \in 1..Len(b)
      BY <1>1, <2>1
    <2>6. CodesBehind(c, Len(s)) /\ \A i \in 1..Len(s) : Codes(b, s, c, i)
      <3>1. Codes(b, s, c, 1)
        BY ONLY <1>1, <1>3, <2>1, <2>2, <2>5 DEF Codes
      <3>2. \A i, j \in 1..Len(s) : ~(i < j)
        BY ONLY <2>3
      <3>3. QED
        BY ONLY <3>1, <3>2, <2>3 DEF CodesBehind
    <2>7. CodesFill(b, s, c, Len(s))
      <3>1. \A k \in 1..Len(b) : k = c[1]
        BY ONLY <2>2, <2>4
      <3>2. QED
        BY ONLY <3>1, <2>5 DEF CodesFill
    <2>8. c[Len(s) + 1] = Len(b) + 1
      BY ONLY <1>1, <2>1, <2>2
    <2>9. IsCode(b, s, c)
      <3>1. s \in Seq(Byte) /\ b \in Seq(Byte)
        BY ONLY <1>1, <2>1
      <3>2. c \in [1..Len(s) + 1 -> Nat] /\ c[1] = 1
        BY ONLY <2>2
      <3>3. QED
        BY ONLY <3>1, <3>2, <2>6, <2>7, <2>8, Zenon DEF IsCode
    <2>10. QED
      BY <2>9 DEF b, s, c
  <1>4. QED
    <2> HIDE DEF c, b, s
    <2> QED BY <1>2, <1>3
(* Codes put one behind the other are the code of what they are codes of,  *)
(* put together.                                                           *)
LEMMA CodesTogether ==
  ASSUME NEW b, NEW s, NEW c, IsCode(b, s, c),
         NEW d, NEW r, NEW e, IsCode(d, r, e)
  PROVE  IsCode(b \o d, s \o r, [i \in 1..Len(s) + Len(r) + 1 |->
                                   IF i <= Len(s) THEN c[i] ELSE Len(b) + e[i - Len(s)]])
  <1> PICK m, n, k, l : m = Len(s) /\ n = Len(r) /\ k = Len(b) /\ l = Len(d)
    OBVIOUS
  <1>0. m = Len(s) /\ n = Len(r) /\ k = Len(b) /\ l = Len(d)
    OBVIOUS
  <1>1. /\ s \in Seq(Byte) /\ b \in Seq(Byte) /\ m \in Nat /\ k \in Nat
        /\ c \in [1..m + 1 -> Nat] /\ c[1] = 1 /\ c[m + 1] = k + 1
    BY ONLY IsCode(b, s, c), <1>0 DEF IsCode
  <1>b. \A i \in 1..m : Codes(b, s, c, i)
    BY ONLY IsCode(b, s, c), <1>0 DEF IsCode
  <1>c. CodesBehind(c, m) /\ CodesFill(b, s, c, m)
    BY ONLY IsCode(b, s, c), <1>0 DEF IsCode
  <1>d. \A i \in 1..m : c[i] \in 1..k
    BY ONLY <1>b, <1>0 DEF Codes
  <1>2. /\ r \in Seq(Byte) /\ d \in Seq(Byte) /\ n \in Nat /\ l \in Nat
        /\ e \in [1..n + 1 -> Nat] /\ e[1] = 1 /\ e[n + 1] = l + 1
    BY ONLY IsCode(d, r, e), <1>0 DEF IsCode
  <1>e. \A i \in 1..n : Codes(d, r, e, i)
    BY ONLY IsCode(d, r, e), <1>0 DEF IsCode
  <1>f. CodesBehind(e, n) /\ CodesFill(d, r, e, n)
    BY ONLY IsCode(d, r, e), <1>0 DEF IsCode
  <1>g. \A i \in 1..n : e[i] \in 1..l
    BY ONLY <1>e, <1>0 DEF Codes
  <1>a. m \in Nat /\ n \in Nat /\ k \in Nat /\ l \in Nat
    BY ONLY <1>1, <1>2
  <1>h. e \in [1..n + 1 -> Nat]
    BY ONLY <1>2
  <1> PICK t, o, f : /\ t = s \o r /\ o = b \o d
                     /\ f = [i \in 1..m + n + 1 |-> IF i <= m THEN c[i] ELSE k + e[i - m]]
    OBVIOUS
  <1>3. /\ t = s \o r /\ o = b \o d
        /\ f = [i \in 1..m + n + 1 |-> IF i <= m THEN c[i] ELSE k + e[i - m]]
    OBVIOUS
  <1>4. /\ t \in Seq(Byte) /\ Len(t) = m + n
        /\ \A i \in 1..m : t[i] = s[i]
        /\ \A i \in 1..n : t[m + i] = r[i]
    BY ONLY <1>0, <1>1, <1>2, <1>3
  <1>5. /\ o \in Seq(Byte) /\ Len(o) = k + l
        /\ \A i \in 1..k : o[i] = b[i]
        /\ \A i \in 1..l : o[k + i] = d[i]
    <2>1. b \in Seq(Byte) /\ d \in Seq(Byte) /\ k = Len(b) /\ l = Len(d) /\ o = b \o d
      <3>1. b \in Seq(Byte) /\ d \in Seq(Byte) /\ k = Len(b) /\ l = Len(d)
        BY ONLY <1>0, <1>1, <1>2
      <3>2. QED
        BY ONLY <3>1, <1>3
    <2>2. QED
      BY ONLY <2>1
  <1>6. \A i \in 1..m : f[i] = c[i] /\ f[i] \in Nat
    <2>1. \A i \in 1..m : c[i] \in Nat
      BY ONLY <1>1
    <2>2. ASSUME NEW i \in 1..m PROVE f[i] = c[i]
      <3>1. i \in 1..m + n + 1 /\ i <= m
        BY ONLY <1>a, i \in 1..m
      <3>2. f[i] = IF i <= m THEN c[i] ELSE k + e[i - m]
        BY ONLY <3>1, <1>3
      <3>3. QED
        BY ONLY <3>1, <3>2
    <2>3. QED
      BY ONLY <2>1, <2>2
  <1>7. \A i \in 1..n + 1 : f[m + i] = k + e[i] /\ e[i] \in Nat
    <2>1. \A i \in 1..n + 1 : m + i \in 1..m + n + 1 /\ ~(m + i <= m) /\ m + i - m = i
      BY ONLY <1>a
    <2>2. \A i \in 1..m + n + 1 : f[i] = IF i <= m THEN c[i] ELSE k + e[i - m]
      BY ONLY <1>3
    <2>3. \A i \in 1..n + 1 : e[i] \in Nat
      BY ONLY <1>h
    <2>4. ASSUME NEW i \in 1..n + 1 PROVE f[m + i] = k + e[i]
      <3>1. PICK j : j = m + i
        OBVIOUS
      <3>2. j \in 1..m + n + 1 /\ ~(j <= m) /\ j - m = i
        BY ONLY <1>a, <3>1, i \in 1..n + 1
      <3>3. f[j] = k + e[j - m]
        <4>1. f[j] = IF j <= m THEN c[j] ELSE k + e[j - m]
          BY ONLY <3>2, <2>2, Zenon
        <4>2. QED
          BY ONLY <3>2, <4>1, Zenon
      <3>4. QED
        BY ONLY <3>1, <3>2, <3>3, Zenon
    <2>5. QED
      BY ONLY <2>3, <2>4
  <1>8. \A i \in 1..m + n + 1 : i \in 1..m \/ (i - m \in 1..n + 1 /\ i = m + (i - m))
    BY ONLY <1>a
  <1>9. \A i \in 1..m + n + 1 : f[i] \in Nat
    BY ONLY <1>6, <1>7, <1>8, <1>1
  <1>10. f \in [1..m + n + 1 -> Nat]
    <2>1. f = [i \in 1..m + n + 1 |-> f[i]]
      BY ONLY <1>3
    <2>2. QED
      BY ONLY <2>1, <1>9
  <1>11. f[1] = 1 /\ f[m + n + 1] = k + l + 1
    <2>1. f[m + n + 1] = k + l + 1
      <3>1. n + 1 \in 1..n + 1 /\ m + (n + 1) = m + n + 1
        BY ONLY <1>a
      <3>2. QED
        BY ONLY <3>1, <1>7, <1>2, <1>1
    <2>2. f[1] = 1
      <3>1. CASE m = 0
        <4>1. 1 \in 1..n + 1 /\ m + 1 = 1 /\ k = 0
          BY ONLY <3>1, <1>1, <1>2
        <4>2. QED
          BY ONLY <4>1, <1>7, <1>2
      <3>2. CASE m # 0
        <4>1. 1 \in 1..m
          BY ONLY <3>2, <1>1
        <4>2. QED
          BY ONLY <4>1, <1>6, <1>1
      <3>3. QED
        BY ONLY <3>1, <3>2
    <2>3. QED
      BY ONLY <2>1, <2>2
  <1>12. f[m + 1] = k + 1
    <2>1. 1 \in 1..n + 1
      BY ONLY <1>2
    <2>2. QED
      BY ONLY <2>1, <1>7, <1>2
  <1>13. \A i \in 1..m + n : i \in 1..m \/ \E j \in 1..n : i = m + j
    <2>1. \A i \in 1..m + n : i \in 1..m \/ (i - m \in 1..n /\ i = m + (i - m))
      BY ONLY <1>a
    <2>2. QED
      BY ONLY <2>1
  <1>14. \A i \in 1..m : Codes(o, t, f, i)
    <2> TAKE i \in 1..m
    <2>1. /\ c[i] \in 1..k /\ b[c[i]] = s[i]
          /\ c[i + 1] = c[i] + (IF s[i] \in Doubled THEN 2 ELSE 1)
          /\ s[i] \in Doubled => c[i] + 1 \in 1..k /\ b[c[i] + 1] = s[i]
      BY ONLY <1>b, <1>0, i \in 1..m DEF Codes
    <2>2. f[i + 1] = c[i + 1]
      <3>1. CASE i = m
        BY ONLY <3>1, <1>12, <1>1
      <3>2. CASE i # m
        <4>1. i + 1 \in 1..m
          BY ONLY <3>2, i \in 1..m, <1>1
        <4>2. QED
          BY ONLY <4>1, <1>6
      <3>3. QED
        BY ONLY <3>1, <3>2
    <2>3. f[i] = c[i] /\ t[i] = s[i]
      BY ONLY <1>6, <1>4, i \in 1..m
    <2>4. \A x \in 1..k : x \in 1..k + l /\ o[x] = b[x]
      <3>1. \A x \in 1..k : x \in 1..k + l
        BY ONLY <1>a
      <3>2. QED
        BY ONLY <3>1, <1>5
    <2>5. QED
      BY ONLY <2>1, <2>2, <2>3, <2>4, <1>5 DEF Codes
  <1>15. \A j \in 1..n : Codes(o, t, f, m + j)
    <2> TAKE j \in 1..n
    <2>1. /\ e[j] \in 1..l /\ d[e[j]] = r[j]
          /\ e[j + 1] = e[j] + (IF r[j] \in Doubled THEN 2 ELSE 1)
          /\ r[j] \in Doubled => e[j] + 1 \in 1..l /\ d[e[j] + 1] = r[j]
      BY ONLY <1>e, <1>0, j \in 1..n DEF Codes
    <2>2. f[m + j] = k + e[j] /\ f[m + j + 1] = k + e[j + 1] /\ t[m + j] = r[j]
      <3>1. j \in 1..n + 1 /\ j + 1 \in 1..n + 1 /\ m + (j + 1) = m + j + 1
        BY ONLY j \in 1..n, <1>1, <1>2
      <3>2. QED
        BY ONLY <3>1, <1>7, <1>4, j \in 1..n
    <2>3. \A x \in 1..l : k + x \in 1..k + l /\ o[k + x] = d[x]
      BY ONLY <1>1, <1>2, <1>5
    <2>4. k + (e[j] + 1) = k + e[j] + 1
      BY ONLY <2>1, <1>a
    <2>5. o[k + e[j]] = r[j] /\ k + e[j] \in 1..k + l
      BY ONLY <2>1, <2>3
    <2>6. r[j] \in Doubled => k + e[j] + 1 \in 1..k + l /\ o[k + e[j] + 1] = r[j]
      BY ONLY <2>1, <2>3, <2>4
    <2>7. k + e[j + 1] = k + e[j] + (IF r[j] \in Doubled THEN 2 ELSE 1)
      BY ONLY <2>1, <1>a
    <2>8. QED
      BY ONLY <2>2, <2>5, <2>6, <2>7, <1>5 DEF Codes
  <1>16. \A i \in 1..m + n : Codes(o, t, f, i)
    BY ONLY <1>13, <1>14, <1>15
  <1>17. CodesBehind(f, m + n)
    <2> SUFFICES ASSUME NEW i \in 1..m + n, NEW j \in 1..m + n, i < j
                 PROVE  f[i + 1] <= f[j]
      BY DEF CodesBehind
    <2>1. CASE i \in 1..m /\ j \in 1..m
      <3>1. f[i + 1] = c[i + 1] /\ f[j] = c[j] /\ c[i + 1] <= c[j]
        <4>1. i + 1 \in 1..m
          BY ONLY <2>1, i < j, <1>1
        <4>2. QED
          BY ONLY <4>1, <2>1, i < j, <1>c, <1>6 DEF CodesBehind
      <3>2. QED
        BY ONLY <3>1
    <2>2. CASE i \in 1..m /\ \E y \in 1..n : j = m + y
      <3>1. PICK y \in 1..n : j = m + y
        BY <2>2
      <3>2. f[j] = k + e[y] /\ e[y] \in 1..l
        <4>1. y \in 1..n + 1
          BY ONLY y \in 1..n, <1>2
        <4>2. QED
          BY ONLY <4>1, y \in 1..n, <3>1, <1>g, <1>7
      <3>3. f[i + 1] <= k + 1 /\ f[i + 1] \in Nat
        <4>1. CASE i = m
          BY ONLY <4>1, <1>12, <1>1
        <4>2. CASE i # m
          <5>1. i + 1 \in 1..m
            BY ONLY <4>2, <2>2, <1>1
          <5>2. f[i + 1] = c[i + 1] /\ c[i + 1] \in 1..k
            BY ONLY <5>1, <1>6, <1>d
          <5>3. QED
            BY ONLY <5>2, <1>a
        <4>3. QED
          BY ONLY <4>1, <4>2
      <3>4. QED
        BY ONLY <3>2, <3>3, <1>a
    <2>3. CASE \E x \in 1..n : i = m + x
      <3>1. PICK x \in 1..n : i = m + x
        BY <2>3
      <3>2. PICK y \in 1..n : j = m + y
        BY ONLY <1>13, <3>1, i < j, j \in 1..m + n, x \in 1..n, <1>1, <1>2
      <3>3. x < y
        BY ONLY <3>1, <3>2, i < j, <1>1, <1>2, x \in 1..n, y \in 1..n
      <3>4. e[x + 1] <= e[y] /\ e[x + 1] \in Nat /\ e[y] \in Nat
        <4>1. x + 1 \in 1..n + 1 /\ y \in 1..n + 1
          BY ONLY x \in 1..n, y \in 1..n, <1>2
        <4>2. QED
          BY ONLY <4>1, <3>3, x \in 1..n, y \in 1..n, <1>2, <1>f DEF CodesBehind
      <3>5. f[i + 1] = k + e[x + 1] /\ f[j] = k + e[y]
        <4> PICK z, w : z = x + 1 /\ w = i + 1
          OBVIOUS
        <4>0. z = x + 1 /\ w = i + 1
          OBVIOUS
        <4>1. z \in 1..n + 1 /\ y \in 1..n + 1 /\ w = m + z /\ j = m + y
          BY ONLY <4>0, x \in 1..n, y \in 1..n, <1>a, <3>1, <3>2
        <4>2. f[w] = k + e[z]
          BY ONLY <4>1, <1>7
        <4>3. f[j] = k + e[y]
          BY ONLY <4>1, <1>7
        <4>4. QED
          BY ONLY <4>0, <4>2, <4>3
      <3>6. k \in Nat
        BY ONLY <1>a
      <3>7. QED
        BY ONLY <3>4, <3>5, <3>6
    <2>4. QED
      BY ONLY <1>13, <2>1, <2>2, <2>3, i \in 1..m + n, j \in 1..m + n
  <1>18. CodesFill(o, t, f, m + n)
    <2> SUFFICES ASSUME NEW x \in 1..k + l
                 PROVE  \E i \in 1..m + n : x = f[i] \/ (x = f[i] + 1 /\ t[i] \in Doubled)
      <3>1. Len(o) = k + l
        BY ONLY <1>5
      <3>2. QED
        BY <3>1, Zenon DEF CodesFill
    <2>1. CASE x \in 1..k
      <3>1. PICK i \in 1..m : x = c[i] \/ (x = c[i] + 1 /\ s[i] \in Doubled)
        BY ONLY <2>1, <1>c, <1>0 DEF CodesFill
      <3>2. i \in 1..m + n /\ f[i] = c[i] /\ t[i] = s[i]
        BY ONLY <1>1, <1>2, <1>4, <1>6, i \in 1..m
      <3>3. QED
        BY ONLY <3>1, <3>2
    <2>2. CASE x \notin 1..k
      <3>0. x - k \in 1..l
        BY ONLY <2>2, x \in 1..k + l, <1>a
      <3>1. PICK i \in 1..n : x - k = e[i] \/ (x - k = e[i] + 1 /\ r[i] \in Doubled)
        BY ONLY <3>0, <1>f, <1>0 DEF CodesFill
      <3>2. m + i \in 1..m + n /\ f[m + i] = k + e[i] /\ t[m + i] = r[i] /\ e[i] \in Nat
        <4>1. i \in 1..n + 1 /\ m + i \in 1..m + n
          BY ONLY i \in 1..n, <1>1, <1>2
        <4>2. QED
          BY ONLY <4>1, <1>4, <1>7, i \in 1..n
      <3>3. x = f[m + i] \/ (x = f[m + i] + 1 /\ t[m + i] \in Doubled)
        BY ONLY <3>1, <3>2, x \in 1..k + l, <1>a
      <3>4. QED
        BY ONLY <3>2, <3>3
    <2>3. QED
      BY ONLY <2>1, <2>2
  <1>19. IsCode(o, t, f)
    BY ONLY <1>4, <1>5, <1>10, <1>11, <1>16, <1>17, <1>18 DEF IsCode
  <1>20. QED
    BY ONLY <1>0, <1>3, <1>19
(* Encode is such a code.                                                  *)
LEMMA EncodeIs ==
  ASSUME NEW s \in Seq(Byte)
  PROVE  \E c : IsCode(Encode(s), s, c)
  <1> PICK n : n = Len(s)
    OBVIOUS
  <1>0. n = Len(s) /\ n \in Nat
    OBVIOUS
  <1> DEFINE D    == 1..n + 1
             Stop == {n + 1}
             next == [i \in D |-> i + 1]
             base == [i \in D |-> <<>>]
             op   == [y \in D \X Seq(Byte) |-> IF y[1] \in 1..n THEN Cell(s[y[1]]) \o y[2] ELSE <<>>]
             rank == [i \in D |-> n + 1 - i]
  <1>1. \A i \in 1..n : s[i] \in Byte /\ Cell(s[i]) \in Seq(Byte)
    <2>1. \A i \in 1..n : s[i] \in Byte
      BY ONLY s \in Seq(Byte), <1>0
    <2>2. \A x \in Byte : Cell(x) \in Seq(Byte)
      BY DEF Cell
    <2>3. QED
      BY ONLY <2>1, <2>2
  <1>2. op \in [D \X Seq(Byte) -> Seq(Byte)]
    <2> DEFINE At(y) == IF y[1] \in 1..n THEN Cell(s[y[1]]) \o y[2] ELSE <<>>
    <2>1. ASSUME NEW y \in D \X Seq(Byte) PROVE At(y) \in Seq(Byte)
      <3>1. y[2] \in Seq(Byte)
        OBVIOUS
      <3>2. CASE y[1] \in 1..n
        <4>1. Cell(s[y[1]]) \in Seq(Byte)
          BY ONLY <3>2, <1>1
        <4>2. Cell(s[y[1]]) \o y[2] \in Seq(Byte)
          BY ONLY <4>1, <3>1
        <4>3. QED
          BY ONLY <3>2, <4>2
      <3>3. CASE y[1] \notin 1..n
        BY ONLY <3>3
      <3>4. QED
        BY ONLY <3>2, <3>3
    <2>2. op = [y \in D \X Seq(Byte) |-> At(y)]
      OBVIOUS
    <2>3. QED
      <3> HIDE DEF At, op, D
      <3> QED BY ONLY <2>1, <2>2
  <1>3. Recursion(D, Seq(Byte), Stop, next, base, op, rank, n)
    <2>1. rank \in [D -> Nat] /\ \A i \in D : rank[i] <= n
      BY ONLY <1>0
    <2>2. \A i \in D : i \in Stop => base[i] \in Seq(Byte)
      OBVIOUS
    <2>3. \A i \in D : i \notin Stop => next[i] \in D /\ rank[next[i]] < rank[i]
      BY ONLY <1>0
    <2> HIDE DEF D, Stop, next, base, op, rank
    <2>4. QED
      BY ONLY <1>0, <1>2, <2>1, <2>2, <2>3 DEF Recursion
  <1>4. \E f \in [D -> Seq(Byte)] :
          f = [i \in D |-> IF i \in Stop THEN base[i] ELSE op[<<i, f[next[i]]>>]]
    <2> HIDE DEF D, Stop, next, base, op, rank
    <2> QED BY ONLY <1>3, RecursionExists
  <1> DEFINE Eq(f) == f = [i \in 1..n + 1 |->
                             IF i > n THEN <<>>
                             ELSE (IF s[i] \in Doubled THEN <<s[i], s[i]>> ELSE <<s[i]>>) \o f[i + 1]]
  <1>5. \E f : Eq(f)
    <2>1. PICK f \in [D -> Seq(Byte)] :
            f = [i \in D |-> IF i \in Stop THEN base[i] ELSE op[<<i, f[next[i]]>>]]
      <3> HIDE DEF D, Stop, next, base, op, rank
      <3> QED BY ONLY <1>4
    <2>2. ASSUME NEW i \in D
          PROVE  (IF i \in Stop THEN base[i] ELSE op[<<i, f[next[i]]>>])
                   = IF i > n THEN <<>> ELSE Cell(s[i]) \o f[i + 1]
      <3>1. CASE i \in Stop
        BY ONLY <3>1, <1>0, i \in D
      <3>2. CASE i \notin Stop
        <4>1. i \in 1..n /\ i + 1 \in D /\ ~(i > n)
          BY ONLY <3>2, <1>0, i \in D
        <4>2. f[i + 1] \in Seq(Byte) /\ next[i] = i + 1
          BY ONLY <4>1, f \in [D -> Seq(Byte)]
        <4>3. <<i, f[i + 1]>> \in D \X Seq(Byte)
          BY ONLY <4>2, i \in D
        <4>4. op[<<i, f[i + 1]>>] = Cell(s[i]) \o f[i + 1]
          BY ONLY <4>1, <4>3
        <4>5. QED
          <5> HIDE DEF op, next, Stop, D, base
          <5> QED BY ONLY <3>2, <4>1, <4>2, <4>4
      <3>3. QED
        BY ONLY <3>1, <3>2
    <2>3. f = [i \in D |-> IF i > n THEN <<>> ELSE Cell(s[i]) \o f[i + 1]]
      <3> HIDE DEF op, next, Stop, base, D
      <3> QED BY ONLY <2>1, <2>2
    <2>4. QED
      BY ONLY <2>3 DEF Cell
  <1> DEFINE f == CHOOSE g : Eq(g)
  <1>6. Eq(f)
    <2> HIDE DEF Eq
    <2> QED BY ONLY <1>5
  <1>7. Encode(s) = f[1]
    BY ONLY <1>0 DEF Encode
  <1>8. f[n + 1] = <<>> /\ \A i \in 1..n : f[i] = Cell(s[i]) \o f[i + 1]
    <2> PICK g : g = f
      OBVIOUS
    <2>1. g = [i \in 1..n + 1 |-> IF i > n THEN <<>> ELSE Cell(s[i]) \o g[i + 1]]
      BY ONLY <1>6, g = f DEF Cell
    <2>2. n + 1 \in 1..n + 1 /\ n + 1 > n /\ \A i \in 1..n : i \in 1..n + 1 /\ ~(i > n)
      BY ONLY <1>0
    <2>3. g[n + 1] = <<>> /\ \A i \in 1..n : g[i] = Cell(s[i]) \o g[i + 1]
      BY ONLY <2>1, <2>2
    <2>4. QED
      BY ONLY <2>3, g = f
  <1> HIDE DEF f
  <1> DEFINE Good(i) == \E c : IsCode(f[i], From(s, i), c)
             Bad == {k \in 0..n : ~Good(n + 1 - k)}
  <1>9. Good(n + 1)
    <2>1. From(s, n + 1) = <<>>
      BY <1>0 DEF From
    <2>2. QED
      BY ONLY <2>1, <1>8, CodeOfNothing
  <1>10. ASSUME NEW i \in 1..n, Good(i + 1) PROVE Good(i)
    <2>1. PICK c : IsCode(f[i + 1], From(s, i + 1), c)
      BY <1>10
    <2>2. PICK d : IsCode(Cell(s[i]), <<s[i]>>, d)
      BY ONLY <1>1, CodeOfOne, i \in 1..n
    <2>3. \E e : IsCode(Cell(s[i]) \o f[i + 1], <<s[i]>> \o From(s, i + 1), e)
      BY ONLY <2>1, <2>2, CodesTogether
    <2>4. <<s[i]>> \o From(s, i + 1) = From(s, i)
      BY ONLY s \in Seq(Byte), <1>0, i \in 1..n DEF From
    <2>5. QED
      BY ONLY <2>3, <2>4, <1>8, i \in 1..n
  <1>11. Bad = {}
    <2>1. SUFFICES ASSUME Bad # {} PROVE FALSE
      OBVIOUS
    <2>2. PICK k \in Bad : \A j \in Bad : k <= j
      <3>1. Bad \subseteq Nat
        OBVIOUS
      <3>2. QED
        <4> HIDE DEF Bad
        <4> QED BY <2>1, <3>1, NatMin
    <2>3. k \in 0..n /\ ~Good(n + 1 - k)
      <3> HIDE DEF Good
      <3> QED OBVIOUS
    <2> HIDE DEF Good
    <2>4. k # 0
      <3>1. k = 0 => n + 1 - k = n + 1
        BY ONLY <1>0
      <3>2. QED
        BY ONLY <2>3, <1>9, <3>1
    <2>5. n + 1 - k \in 1..n /\ n + 1 - k + 1 = n + 1 - (k - 1) /\ k - 1 \in 0..n /\ ~(k <= k - 1)
      BY ONLY <2>3, <2>4, <1>0
    <2>6. Good(n + 1 - (k - 1))
      BY <2>2, <2>5
    <2>7. Good(n + 1 - k)
      BY ONLY <2>5, <2>6, <1>10
    <2>8. QED
      BY ONLY <2>3, <2>7
  <1>12. Good(1)
    <2>1. n \in 0..n /\ n + 1 - n = 1
      BY ONLY <1>0
    <2>2. n \notin Bad
      BY ONLY <1>11
    <2> HIDE DEF Good
    <2>3. QED
      BY <2>1, <2>2
  <1>13. From(s, 1) = s
    BY ONLY s \in Seq(Byte), <1>0 DEF From
  <1>14. QED
    BY ONLY <1>12, <1>13, <1>7
(* A code has an even number of bytes that are doubled, and no code but    *)
(* that of nothing is empty.                                               *)
LEMMA CodeIsEven ==
  ASSUME NEW b, NEW s, NEW c, IsCode(b, s, c), s # <<>>
  PROVE  GetDecodeLength(b) > 0
  <1> PICK n, L : n = Len(s) /\ L = Len(b)
    OBVIOUS
  <1>0. n = Len(s) /\ L = Len(b)
    OBVIOUS
  <1>1. /\ n \in Nat /\ L \in Nat /\ n > 0
        /\ c \in [1..n + 1 -> Nat] /\ c[1] = 1 /\ c[n + 1] = L + 1
    <2>1. s \in Seq(Byte) /\ b \in Seq(Byte)
      BY ONLY IsCode(b, s, c) DEF IsCode
    <2>2. n \in Nat /\ L \in Nat /\ n > 0
      BY ONLY <2>1, <1>0, s # <<>>
    <2>3. QED
      BY ONLY IsCode(b, s, c), <1>0, <2>2 DEF IsCode
  <1>2. \A i \in 1..n :
          /\ c[i] \in 1..L /\ b[c[i]] = s[i]
          /\ s[i] \in Doubled => c[i + 1] = c[i] + 2 /\ c[i] + 1 \in 1..L /\ b[c[i] + 1] = s[i]
    BY ONLY IsCode(b, s, c), <1>0 DEF IsCode, Codes
  <1>3. \A i, j \in 1..n : i < j => c[i + 1] <= c[j]
    BY ONLY IsCode(b, s, c), <1>0 DEF IsCode, CodesBehind
  <1>4. \A k \in 1..L : \E i \in 1..n : k = c[i] \/ (k = c[i] + 1 /\ s[i] \in Doubled)
    BY ONLY IsCode(b, s, c), <1>0 DEF IsCode, CodesFill
  <1> DEFINE Z == {i \in 1..n : s[i] \in Doubled}
             A == {c[i] : i \in Z}
             B == {c[i] + 1 : i \in Z}
             All == {k \in 1..L : b[k] \in Doubled}
  <1>5. All = A \cup B
    <2>1. ASSUME NEW k \in All PROVE k \in A \cup B
      <3>1. k \in 1..L /\ b[k] \in Doubled
        OBVIOUS
      <3>2. PICK i \in 1..n : k = c[i] \/ (k = c[i] + 1 /\ s[i] \in Doubled)
        BY ONLY <3>1, <1>4
      <3>3. s[i] \in Doubled
        BY ONLY <3>1, <3>2, <1>2
      <3>4. QED
        BY ONLY <3>2, <3>3
    <2>2. ASSUME NEW k \in A PROVE k \in All
      <3>1. PICK i \in Z : k = c[i]
        OBVIOUS
      <3>2. k \in 1..L /\ b[k] = s[i] /\ s[i] \in Doubled
        BY ONLY <3>1, <1>2, i \in Z
      <3>3. QED
        BY ONLY <3>2
    <2>3. ASSUME NEW k \in B PROVE k \in All
      <3>1. PICK i \in Z : k = c[i] + 1
        OBVIOUS
      <3>2. k \in 1..L /\ b[k] = s[i] /\ s[i] \in Doubled
        BY ONLY <3>1, <1>2, i \in Z
      <3>3. QED
        BY ONLY <3>2
    <2>4. QED
      <3> HIDE DEF A, B, All
      <3> QED BY ONLY <2>1, <2>2, <2>3
  <1>6. A \cap B = {}
    <2> SUFFICES ASSUME NEW i \in Z, NEW j \in Z, c[i] = c[j] + 1 PROVE FALSE
      OBVIOUS
    <2>1. /\ i \in 1..n /\ j \in 1..n /\ c[i] \in Nat /\ c[j] \in Nat
          /\ c[i + 1] = c[i] + 2 /\ c[j + 1] = c[j] + 2
      <3>1. \A x \in 1..L : x \in Nat
        BY ONLY <1>1
      <3>2. QED
        BY ONLY <3>1, i \in Z, j \in Z, <1>2
    <2>2. i < j \/ j < i \/ i = j
      BY ONLY <2>1
    <2>3. CASE i < j
      BY ONLY <2>1, <2>3, <1>3, c[i] = c[j] + 1
    <2>4. CASE j < i
      BY ONLY <2>1, <2>4, <1>3, c[i] = c[j] + 1
    <2>5. CASE i = j
      BY ONLY <2>1, <2>5, c[i] = c[j] + 1
    <2>6. QED
      BY ONLY <2>2, <2>3, <2>4, <2>5
  <1>7. IsFiniteSet(A) /\ IsFiniteSet(B) /\ Cardinality(A) = Cardinality(B)
    <2>0. A \subseteq 1..L /\ B \subseteq 1..L
      BY ONLY <1>2
    <2>1. IsFiniteSet(1..L)
      BY ONLY <1>1, FS_Interval, L \in Int, 1 \in Int
    <2>2. IsFiniteSet(A) /\ IsFiniteSet(B)
      <3> HIDE DEF A, B
      <3> QED BY ONLY <2>0, <2>1, FS_Subset
    <2> DEFINE up == [x \in A |-> x + 1]
    <2>3. up \in Bijection(A, B)
      <3>1. \A x \in A : x \in Nat
        BY ONLY <2>0, <1>1
      <3>2. \A x \in A : x + 1 \in B
        OBVIOUS
      <3>3. \A y \in B : \E x \in A : x + 1 = y
        OBVIOUS
      <3>4. up \in [A -> B]
        <4> HIDE DEF A, B
        <4> QED BY ONLY <3>2
      <3>5. \A x, y \in A : up[x] = up[y] => x = y
        <4> HIDE DEF A, B
        <4> QED BY ONLY <3>1
      <3>6. \A y \in B : \E x \in A : up[x] = y
        <4> HIDE DEF A, B
        <4> QED BY ONLY <3>3
      <3>7. QED
        <4> HIDE DEF A, B, up
        <4> QED BY ONLY <3>4, <3>5, <3>6, Zenon DEF Bijection, Injection, Surjection, IsInjective
    <2>4. QED
      <3> HIDE DEF A, B, up
      <3>1. ExistsBijection(A, B)
        BY ONLY <2>3 DEF ExistsBijection
      <3>2. QED
        BY ONLY <2>2, <3>1, FS_Bijection
  <1>8. Cardinality(All) = Cardinality(A) + Cardinality(A) /\ Cardinality(A) \in Nat
    <2> HIDE DEF A, B, All
    <2>1. /\ Cardinality(A) \in Nat /\ Cardinality(B) \in Nat /\ Cardinality(A \cap B) = 0
          /\ Cardinality(A \cup B) = Cardinality(A) + Cardinality(B) - Cardinality(A \cap B)
      BY ONLY <1>6, <1>7, FS_Union, FS_CardinalityType, FS_EmptySet
    <2>2. QED
      BY ONLY <2>1, <1>5, <1>7
  <1>9. Cardinality(All) <= L
    <2>0. L \in Int /\ 1 \in Int /\ L = IF 1 > L THEN 0 ELSE L - 1 + 1
      BY ONLY <1>1
    <2>1. IsFiniteSet(1..L) /\ Cardinality(1..L) = L
      BY ONLY <2>0, FS_Interval
    <2>2. All \subseteq 1..L
      OBVIOUS
    <2>3. QED
      <3> HIDE DEF All
      <3> QED BY ONLY <2>1, <2>2, FS_Subset
  <1>10. CountDoubled(b) = Cardinality(All)
    BY ONLY <1>0 DEF CountDoubled
  <1>11. L > 0
    <2>1. 1 \in 1..n
      BY ONLY <1>1
    <2>2. QED
      BY ONLY <2>1, <1>1, <1>2
  <1>12. QED
    <2> PICK k, a : k = CountDoubled(b) /\ a = Cardinality(A)
      OBVIOUS
    <2>1. k = a + a /\ a \in Nat /\ k <= L
      BY ONLY <1>8, <1>9, <1>10, k = CountDoubled(b) /\ a = Cardinality(A)
    <2>2. k % 2 = 0 /\ k \div 2 = a
      BY ONLY <2>1
    <2>3. L - a > 0
      BY ONLY <2>1, <1>11, <1>1
    <2>4. QED
      BY ONLY <2>2, <2>3, <1>0, k = CountDoubled(b) DEF GetDecodeLength
(* Decode gives back what the code was made of.                            *)
LEMMA DecodeIs ==
  ASSUME NEW b, NEW s, NEW c, IsCode(b, s, c), s # <<>>
  PROVE  Decode(b) = s
  <1> PICK n, L : n = Len(s) /\ L = Len(b)
    OBVIOUS
  <1>0. n = Len(s) /\ L = Len(b)
    OBVIOUS
  <1>a. s \in Seq(Byte) /\ b \in Seq(Byte)
    BY ONLY IsCode(b, s, c) DEF IsCode
  <1>b. n \in Nat /\ L \in Nat
    BY ONLY <1>0, <1>a
  <1>c. c \in [1..n + 1 -> Nat] /\ c[1] = 1 /\ c[n + 1] = L + 1
    BY ONLY IsCode(b, s, c), <1>0, <1>b DEF IsCode
  <1>d. \A i \in 1..n :
          /\ c[i] \in 1..L /\ b[c[i]] = s[i]
          /\ c[i + 1] = c[i] + (IF s[i] \in Doubled THEN 2 ELSE 1)
          /\ s[i] \in Doubled => c[i] + 1 \in 1..L /\ b[c[i] + 1] = s[i]
    BY ONLY IsCode(b, s, c), <1>0 DEF IsCode, Codes
  <1> DEFINE IsPair(i) == i < L /\ b[i] \in Doubled /\ b[i + 1] = b[i]
             Step(i)   == IF IsPair(i) THEN i + 2 ELSE i + 1
             D    == 1..L + 2
             Stop == {i \in D : i > L}
             next == [i \in D |-> Step(i)]
             base == [i \in D |-> <<>>]
             op   == [y \in D \X Seq(Byte) |-> IF y[1] \in 1..L THEN <<b[y[1]]>> \o y[2] ELSE <<>>]
             rank == [i \in D |-> L + 2 - i]
  <1>1. \A i \in 1..L : b[i] \in Byte
    BY ONLY <1>0, <1>a
  <1>2. op \in [D \X Seq(Byte) -> Seq(Byte)]
    <2> DEFINE At(y) == IF y[1] \in 1..L THEN <<b[y[1]]>> \o y[2] ELSE <<>>
    <2>1. ASSUME NEW y \in D \X Seq(Byte) PROVE At(y) \in Seq(Byte)
      <3>1. y[2] \in Seq(Byte)
        OBVIOUS
      <3>2. CASE y[1] \in 1..L
        <4>1. <<b[y[1]]>> \in Seq(Byte)
          BY ONLY <3>2, <1>1
        <4>2. <<b[y[1]]>> \o y[2] \in Seq(Byte)
          BY ONLY <4>1, <3>1
        <4>3. QED
          BY ONLY <3>2, <4>2
      <3>3. CASE y[1] \notin 1..L
        BY ONLY <3>3
      <3>4. QED
        BY ONLY <3>2, <3>3
    <2>2. op = [y \in D \X Seq(Byte) |-> At(y)]
      OBVIOUS
    <2>3. QED
      <3> HIDE DEF At, op, D
      <3> QED BY ONLY <2>1, <2>2
  <1>e. \A i \in D : i \notin Stop => i \in 1..L /\ Step(i) \in D /\ Step(i) > i /\ ~(i > L)
    <2> TAKE i \in D
    <2>1. HAVE i \notin Stop
    <2>2. i \in 1..L /\ ~(i > L)
      BY ONLY <2>1, i \in D, <1>b
    <2>3. Step(i) = i + 1 \/ Step(i) = i + 2
      OBVIOUS
    <2>4. QED
      <3> HIDE DEF Step
      <3> QED BY ONLY <2>2, <2>3, <1>b
  <1>3. Recursion(D, Seq(Byte), Stop, next, base, op, rank, L + 1)
    <2>1. rank \in [D -> Nat] /\ \A i \in D : rank[i] <= L + 1
      BY ONLY <1>b
    <2>2. \A i \in D : i \in Stop => base[i] \in Seq(Byte)
      OBVIOUS
    <2>3. \A i \in D : i \notin Stop => next[i] \in D /\ rank[next[i]] < rank[i]
      <3> HIDE DEF Step, Stop
      <3> QED BY ONLY <1>b, <1>e
    <2> HIDE DEF D, Stop, next, base, op, rank
    <2>4. QED
      BY ONLY <1>b, <1>2, <2>1, <2>2, <2>3 DEF Recursion
  <1>4. \E f \in [D -> Seq(Byte)] :
          f = [i \in D |-> IF i \in Stop THEN base[i] ELSE op[<<i, f[next[i]]>>]]
    <2> HIDE DEF D, Stop, next, base, op, rank
    <2> QED BY ONLY <1>3, RecursionExists
  <1> DEFINE Eq(f) == f = [i \in 1..L + 2 |->
                             IF i > L THEN <<>>
                             ELSE <<b[i]>> \o f[IF IsPair(i) THEN i + 2 ELSE i + 1]]
  <1>5. \E f : Eq(f)
    <2>1. PICK f \in [D -> Seq(Byte)] :
            f = [i \in D |-> IF i \in Stop THEN base[i] ELSE op[<<i, f[next[i]]>>]]
      <3> HIDE DEF D, Stop, next, base, op, rank
      <3> QED BY ONLY <1>4
    <2>2. ASSUME NEW i \in D
          PROVE  (IF i \in Stop THEN base[i] ELSE op[<<i, f[next[i]]>>])
                   = IF i > L THEN <<>> ELSE <<b[i]>> \o f[Step(i)]
      <3>1. CASE i \in Stop
        BY ONLY <3>1, <1>b, i \in D
      <3>2. CASE i \notin Stop
        <4>1. i \in 1..L /\ Step(i) \in D /\ ~(i > L)
          <5> HIDE DEF Step, Stop, D
          <5> QED BY ONLY <3>2, <1>e, i \in D
        <4>2. f[Step(i)] \in Seq(Byte) /\ next[i] = Step(i)
          <5> HIDE DEF Step, Stop
          <5> QED BY ONLY <4>1, i \in D, f \in [D -> Seq(Byte)]
        <4>3. <<i, f[Step(i)]>> \in D \X Seq(Byte)
          <5> HIDE DEF Step, D
          <5> QED BY ONLY <4>2, i \in D
        <4>4. op[<<i, f[Step(i)]>>] = <<b[i]>> \o f[Step(i)]
          <5> HIDE DEF Step
          <5> QED BY ONLY <4>1, <4>3
        <4>5. QED
          <5> HIDE DEF op, next, Stop, D, base, Step
          <5> QED BY ONLY <3>2, <4>1, <4>2, <4>4
      <3>3. QED
        BY ONLY <3>1, <3>2
    <2>3. f = [i \in D |-> IF i > L THEN <<>> ELSE <<b[i]>> \o f[Step(i)]]
      <3> HIDE DEF op, next, Stop, base, D, Step
      <3> QED BY ONLY <2>1, <2>2
    <2>4. QED
      BY ONLY <2>3
  <1> DEFINE f == CHOOSE g : Eq(g)
  <1>6. Eq(f)
    <2> HIDE DEF Eq
    <2> QED BY ONLY <1>5
  <1>7. Decode(b) = f[1]
    <2>1. GetDecodeLength(b) > 0
      BY ONLY IsCode(b, s, c), s # <<>>, CodeIsEven
    <2>2. Decode(b) = IF GetDecodeLength(b) > 0 THEN f[1] ELSE <<>>
      BY ONLY <1>0 DEF Decode
    <2> HIDE DEF f
    <2>3. QED
      BY ONLY <2>1, <2>2
  <1>8. /\ f[L + 1] = <<>>
        /\ \A i \in 1..L : f[i] = <<b[i]>> \o f[Step(i)]
    <2> PICK g : g = f
      OBVIOUS
    <2>1. g = [i \in 1..L + 2 |-> IF i > L THEN <<>> ELSE <<b[i]>> \o g[Step(i)]]
      BY ONLY <1>6, g = f
    <2>2. L + 1 \in 1..L + 2 /\ L + 1 > L /\ \A i \in 1..L : i \in 1..L + 2 /\ ~(i > L)
      BY ONLY <1>b
    <2>3. g[L + 1] = <<>> /\ \A i \in 1..L : g[i] = <<b[i]>> \o g[Step(i)]
      <3> HIDE DEF Step
      <3> QED BY ONLY <2>1, <2>2
    <2>4. QED
      <3> HIDE DEF Step, f
      <3> QED BY ONLY <2>3, g = f
  <1> HIDE DEF f
  <1> DEFINE Good(i) == f[c[i]] = From(s, i)
             Bad == {k \in 0..n : ~Good(n + 1 - k)}
  <1>9. Good(n + 1)
    <2>1. From(s, n + 1) = <<>>
      BY ONLY <1>0, <1>a, <1>b DEF From
    <2>2. QED
      BY ONLY <2>1, <1>8, <1>c
  <1>10. ASSUME NEW i \in 1..n, Good(i + 1) PROVE Good(i)
    <2>1. c[i] \in 1..L /\ c[i] \in Nat /\ b[c[i]] = s[i]
      BY ONLY <1>b, <1>d, i \in 1..n
    <2>2. Step(c[i]) = c[i + 1]
      <3>1. CASE s[i] \in Doubled
        <4>1. c[i] + 1 \in 1..L /\ b[c[i] + 1] = s[i] /\ c[i + 1] = c[i] + 2
          BY ONLY <3>1, <1>d, i \in 1..n
        <4>2. c[i] < L
          BY ONLY <4>1, <2>1, <1>b
        <4>3. QED
          BY ONLY <3>1, <4>1, <4>2, <2>1
      <3>2. CASE s[i] \notin Doubled
        BY ONLY <3>2, <1>d, i \in 1..n
      <3>3. QED
        BY ONLY <3>1, <3>2
    <2> HIDE DEF Step
    <2>3. f[c[i]] = <<s[i]>> \o From(s, i + 1)
      BY ONLY <2>1, <2>2, <1>8, <1>10
    <2>4. <<s[i]>> \o From(s, i + 1) = From(s, i)
      BY ONLY <1>a, <1>0, <1>b, i \in 1..n DEF From
    <2>5. QED
      BY ONLY <2>3, <2>4
  <1>11. Bad = {}
    <2>1. SUFFICES ASSUME Bad # {} PROVE FALSE
      OBVIOUS
    <2>2. PICK k \in Bad : \A j \in Bad : k <= j
      <3>1. Bad \subseteq Nat
        OBVIOUS
      <3>2. QED
        <4> HIDE DEF Bad
        <4> QED BY ONLY <2>1, <3>1, NatMin
    <2>3. k \in 0..n /\ ~Good(n + 1 - k)
      <3> HIDE DEF Good
      <3> QED OBVIOUS
    <2> HIDE DEF Good
    <2>4. k # 0
      <3>1. k = 0 => n + 1 - k = n + 1
        BY ONLY <1>b
      <3>2. QED
        BY ONLY <2>3, <1>9, <3>1
    <2>5. n + 1 - k \in 1..n /\ n + 1 - k + 1 = n + 1 - (k - 1) /\ k - 1 \in 0..n /\ ~(k <= k - 1)
      BY ONLY <2>3, <2>4, <1>b
    <2>6. Good(n + 1 - (k - 1))
      BY ONLY <2>2, <2>5
    <2>7. Good(n + 1 - k)
      BY ONLY <2>5, <2>6, <1>10
    <2>8. QED
      BY ONLY <2>3, <2>7
  <1>12. Good(1)
    <2>1. n \in 0..n /\ n + 1 - n = 1
      BY ONLY <1>b
    <2>2. n \notin Bad
      BY ONLY <1>11
    <2> HIDE DEF Good
    <2>3. QED
      BY ONLY <2>1, <2>2
  <1>13. From(s, 1) = s
    BY ONLY <1>a, <1>0 DEF From
  <1>14. QED
    BY ONLY <1>12, <1>13, <1>7, <1>c
-----------------------------------------------------------------------------
(* Frames.                                                                 *)

(* What SendMessage is given.                                              *)
Sendable(m) ==
  /\ m.type \in {TYPE_MESSAGE, TYPE_REGISTER}
  /\ Header(m) \in Seq(Byte) /\ Len(Header(m)) = HeaderLen /\ Header(m)[1] = m.type
  /\ m.data \in Seq(Byte) /\ m.data # <<>>

(* What is between the mark and the end of a frame, and what it is made of.*)
Content(m) == Header(m) \o m.data
Body(m) == Encode(Header(m)) \o Encode(m.data)

(* Two sequences of bytes, one after the other.                            *)
LEMMA Together ==
  ASSUME NEW x \in Seq(Byte), NEW y \in Seq(Byte)
  PROVE  /\ x \o y \in Seq(Byte) /\ Len(x \o y) = Len(x) + Len(y)
         /\ \A i \in 1..Len(x) : (x \o y)[i] = x[i]
         /\ \A i \in 1..Len(y) : (x \o y)[Len(x) + i] = y[i]
  <1> PICK n, m, z : n = Len(x) /\ m = Len(y) /\ z = x \o y
    OBVIOUS
  <1>0. n = Len(x) /\ m = Len(y) /\ z = x \o y
    OBVIOUS
  <1>1. /\ z \in Seq(Byte) /\ Len(z) = n + m
        /\ \A i \in 1..n + m : z[i] = IF i <= n THEN x[i] ELSE y[i - n]
    <2>1. /\ x \o y \in Seq(Byte) /\ Len(x \o y) = Len(x) + Len(y)
          /\ \A i \in 1..Len(x) + Len(y) : (x \o y)[i] = IF i <= Len(x) THEN x[i] ELSE y[i - Len(x)]
      BY ONLY ConcatProperties, x \in Seq(Byte), y \in Seq(Byte), Zenon
    <2>2. QED
      BY ONLY <2>1, <1>0, Zenon
  <1>2. n \in Nat /\ m \in Nat
    BY ONLY <1>0, x \in Seq(Byte), y \in Seq(Byte)
  <1>3. ASSUME NEW i \in 1..n PROVE z[i] = x[i]
    <2>1. i \in 1..n + m /\ i <= n
      BY ONLY <1>2, i \in 1..n
    <2>2. QED
      BY ONLY <2>1, <1>1, Zenon
  <1>4. ASSUME NEW i \in 1..m PROVE z[n + i] = y[i]
    <2>0. PICK j : j = n + i
      OBVIOUS
    <2>1. j \in 1..n + m /\ ~(j <= n) /\ j - n = i
      BY ONLY <2>0, <1>2, i \in 1..m
    <2>2. z[j] = y[j - n]
      BY ONLY <2>1, <1>1, Zenon
    <2>3. QED
      BY ONLY <2>0, <2>1, <2>2
  <1>5. QED
    BY ONLY <1>0, <1>1, <1>3, <1>4, Zenon

(* The header of a message has seven bytes, the first of which is its type.*)
LEMMA HeaderIs ==
  ASSUME NEW type \in {TYPE_MESSAGE, TYPE_REGISTER}, NEW sender \in Nat, NEW number \in Nat,
         NEW data \in Seq(Byte), data # <<>>
  PROVE  Sendable(PMessage(type, sender, number, data))
  <1> DEFINE m == PMessage(type, sender, number, data)
  <1>1. m.type = type /\ m.sender = sender /\ m.mid = number /\ m.data = data
    BY DEF PMessage
  <1>2. type \in Byte /\ number \div 65536 \in Nat
    BY DEF TYPE_MESSAGE, TYPE_REGISTER, Byte
  <1>3. \A v \in Nat : WriteShort(v) \in Seq(Byte) /\ Len(WriteShort(v)) = 2
    <2> TAKE v \in Nat
    <2>1. (v \div 256) % 256 \in Byte /\ v % 256 \in Byte
      BY DEF Byte
    <2>2. QED
      BY ONLY <2>1 DEF WriteShort
  <1>4. WriteInt(number) \in Seq(Byte) /\ Len(WriteInt(number)) = 4
    <2>1. /\ WriteShort(number \div 65536) \in Seq(Byte) /\ WriteShort(number) \in Seq(Byte)
          /\ Len(WriteShort(number \div 65536)) = 2 /\ Len(WriteShort(number)) = 2
      BY ONLY <1>2, <1>3, number \in Nat
    <2> PICK u, v : u = WriteShort(number \div 65536) /\ v = WriteShort(number)
      OBVIOUS
    <2>2. u \in Seq(Byte) /\ v \in Seq(Byte) /\ Len(u) = 2 /\ Len(v) = 2
      BY ONLY <2>1, u = WriteShort(number \div 65536) /\ v = WriteShort(number)
    <2>3. u \o v \in Seq(Byte) /\ Len(u \o v) = 4
      <3>1. u \o v \in Seq(Byte) /\ Len(u \o v) = Len(u) + Len(v)
        BY ONLY <2>2, Together, Zenon
      <3>2. QED
        BY ONLY <3>1, <2>2
    <2>4. WriteInt(number) = u \o v
      BY ONLY u = WriteShort(number \div 65536) /\ v = WriteShort(number) DEF WriteInt
    <2>5. QED
      BY ONLY <2>3, <2>4
  <1>5. WriteShort(sender) \in Seq(Byte) /\ Len(WriteShort(sender)) = 2
    BY ONLY <1>3, sender \in Nat
  <1>6. /\ <<type>> \o WriteShort(sender) \o WriteInt(number) \in Seq(Byte)
        /\ Len(<<type>> \o WriteShort(sender) \o WriteInt(number)) = 7
        /\ (<<type>> \o WriteShort(sender) \o WriteInt(number))[1] = type
    <2> PICK t, u, v : t = <<type>> /\ u = WriteShort(sender) /\ v = WriteInt(number)
      OBVIOUS
    <2>0. t = <<type>> /\ u = WriteShort(sender) /\ v = WriteInt(number)
      OBVIOUS
    <2>1. t \in Seq(Byte) /\ Len(t) = 1 /\ t[1] = type
      BY ONLY <1>2, <2>0
    <2>2. u \in Seq(Byte) /\ Len(u) = 2 /\ v \in Seq(Byte) /\ Len(v) = 4
      BY ONLY <1>4, <1>5, <2>0
    <2>3. t \o u \in Seq(Byte) /\ Len(t \o u) = 3 /\ (t \o u)[1] = type
      <3>1. /\ t \o u \in Seq(Byte) /\ Len(t \o u) = Len(t) + Len(u)
            /\ \A i \in 1..Len(t) : (t \o u)[i] = t[i]
        BY ONLY <2>1, <2>2, Together, Zenon
      <3>2. QED
        BY ONLY <3>1, <2>1, <2>2
    <2>4. /\ (t \o u) \o v \in Seq(Byte) /\ Len((t \o u) \o v) = 7
          /\ ((t \o u) \o v)[1] = type
      <3>1. /\ (t \o u) \o v \in Seq(Byte) /\ Len((t \o u) \o v) = Len(t \o u) + Len(v)
            /\ \A i \in 1..Len(t \o u) : ((t \o u) \o v)[i] = (t \o u)[i]
        BY ONLY <2>3, <2>2, Together, Zenon
      <3>2. QED
        BY ONLY <3>1, <2>2, <2>3
    <2>5. QED
      BY ONLY <2>0, <2>4
  <1>7. Header(m) = <<type>> \o WriteShort(sender) \o WriteInt(number)
    BY ONLY <1>1 DEF Header
  <1> HIDE DEF m
  <1>8. Sendable(m)
    BY ONLY <1>1, <1>6, <1>7, type \in {TYPE_MESSAGE, TYPE_REGISTER}, data \in Seq(Byte),
            data # <<>> DEF Sendable, HeaderLen
  <1>9. QED
    BY <1>8 DEF m

(* The body is the code of the content, and begins with the type.          *)
LEMMA BodyIs ==
  ASSUME NEW m, Sendable(m)
  PROVE  /\ \E c : IsCode(Body(m), Content(m), c)
         /\ Body(m) \in Seq(Byte) /\ Len(Body(m)) > 0 /\ Body(m)[1] \in Byte \ Doubled
         /\ Content(m) \in Seq(Byte) /\ Len(Content(m)) = HeaderLen + Len(m.data)
         /\ Content(m)[1] = m.type /\ SubSeq(Content(m), HeaderLen + 1, Len(Content(m))) = m.data
  <1> PICK h, a : h = Header(m) /\ a = m.data
    OBVIOUS
  <1>0. h = Header(m) /\ a = m.data
    OBVIOUS
  <1>1. h \in Seq(Byte) /\ Len(h) = 7 /\ h[1] = m.type /\ a \in Seq(Byte) /\ a # <<>>
    BY ONLY <1>0, Sendable(m) DEF Sendable, HeaderLen
  <1>2. PICK c : IsCode(Encode(h), h, c)
    BY ONLY <1>1, EncodeIs
  <1>3. PICK d : IsCode(Encode(a), a, d)
    BY ONLY <1>1, EncodeIs
  <1>4. PICK e : IsCode(Body(m), Content(m), e)
    BY ONLY <1>0, <1>2, <1>3, CodesTogether DEF Body, Content
  <1>5. /\ Content(m) \in Seq(Byte) /\ Len(Content(m)) = 7 + Len(a) /\ Content(m)[1] = m.type
        /\ SubSeq(Content(m), 7 + 1, Len(Content(m))) = a
    <2> PICK t : t = h \o a
      OBVIOUS
    <2>0. /\ t \in Seq(Byte) /\ Len(t) = 7 + Len(a)
          /\ \A i \in 1..7 : t[i] = h[i]
          /\ \A i \in 1..Len(a) : t[7 + i] = a[i]
      <3>1. /\ h \o a \in Seq(Byte) /\ Len(h \o a) = Len(h) + Len(a)
            /\ \A i \in 1..Len(h) : (h \o a)[i] = h[i]
            /\ \A i \in 1..Len(a) : (h \o a)[Len(h) + i] = a[i]
        BY ONLY <1>1, Together, Zenon
      <3>2. Len(h) = 7
        BY ONLY <1>1
      <3>3. QED
        BY ONLY <3>1, <3>2, t = h \o a, Zenon
    <2>1. t[1] = m.type
      BY ONLY <1>1, <2>0
    <2>2. SubSeq(t, 7 + 1, Len(t)) = a
      <3> PICK z, r : z = Len(a) /\ r = SubSeq(t, 7 + 1, 7 + z)
        OBVIOUS
      <3>1. z = Len(a) /\ r = SubSeq(t, 7 + 1, 7 + z) /\ z \in Nat
        BY ONLY <1>1, z = Len(a) /\ r = SubSeq(t, 7 + 1, 7 + z)
      <3>2. r \in Seq(Byte) /\ Len(r) = z /\ \A i \in 1..z : r[i] = t[7 + i]
        BY ONLY <3>1, <2>0
      <3>3. r = a
        BY ONLY <3>1, <3>2, <2>0, <1>1, SeqEqual
      <3>4. QED
        BY ONLY <3>1, <3>3, <2>0
    <2>3. QED
      BY ONLY <2>0, <2>1, <2>2, t = h \o a, <1>0 DEF Content
  <1>6. Body(m) \in Seq(Byte)
    BY ONLY <1>4 DEF IsCode
  <1>7. 1 \in 1..Len(Body(m)) /\ Body(m)[1] = m.type
    <2>1. 1 \in 1..Len(Content(m))
      BY ONLY <1>1, <1>5
    <2>2. Codes(Body(m), Content(m), e, 1) /\ e[1] = 1
      BY ONLY <2>1, <1>4 DEF IsCode
    <2>3. QED
      BY ONLY <2>2, <1>5 DEF Codes
  <1>8. m.type \in Byte \ Doubled
    BY ONLY Sendable(m) DEF Sendable, TYPE_MESSAGE, TYPE_REGISTER, Byte, Doubled
  <1>9. QED
    BY ONLY <1>0, <1>4, <1>5, <1>6, <1>7, <1>8 DEF HeaderLen

(* The bytes of a frame.                                                   *)
IsFrame(f, b) ==
  /\ f \in Seq(Byte) /\ Len(f) = Len(b) + 4
  /\ f[1] = 255
  /\ \A j \in 1..Len(b) : f[1 + j] = b[j]
  /\ f[Len(b) + 2] = 0 /\ f[Len(b) + 3] = 255 /\ f[Len(b) + 4] = 0

(* PSend makes such a frame.                                               *)
LEMMA PSendIs ==
  ASSUME NEW m, Sendable(m)
  PROVE  IsFrame(PSend(m), Body(m))
  <1> PICK b, p, q : b = Body(m) /\ p = Encode(Header(m)) /\ q = Encode(m.data)
    OBVIOUS
  <1>0. b = Body(m) /\ p = Encode(Header(m)) /\ q = Encode(m.data)
    OBVIOUS
  <1>1. p \in Seq(Byte) /\ q \in Seq(Byte)
    BY ONLY <1>0, Sendable(m), EncodeIs DEF Sendable, IsCode
  <1>2. b = p \o q /\ b \in Seq(Byte)
    BY ONLY <1>0, <1>1 DEF Body
  <1> PICK l : l = Len(b)
    OBVIOUS
  <1>3. l = Len(b) /\ l \in Nat
    BY ONLY <1>2, l = Len(b)
  <1>4. PSend(m) = <<255>> \o b \o <<0, 255, 0>>
    <2>1. PSend(m) = <<255>> \o p \o q \o <<0, 255, 0>>
      BY ONLY <1>0 DEF PSend
    <2>2. <<255>> \in Seq(Byte)
      BY DEF Byte
    <2>3. <<255>> \o p \o q = <<255>> \o (p \o q)
      BY ONLY <2>2, <1>1
    <2>4. QED
      BY ONLY <2>1, <2>3, <1>2
  <1> PICK g, f : g = <<255>> \o b /\ f = g \o <<0, 255, 0>>
    OBVIOUS
  <1>5. g \in Seq(Byte) /\ Len(g) = l + 1 /\ g[1] = 255 /\ \A j \in 1..l : g[1 + j] = b[j]
    <2>1. <<255>> \in Seq(Byte) /\ Len(<<255>>) = 1
      BY DEF Byte
    <2>2. QED
      BY ONLY <2>1, <1>2, <1>3, g = <<255>> \o b
  <1>6. /\ f \in Seq(Byte) /\ Len(f) = l + 4
        /\ \A j \in 1..l + 1 : f[j] = g[j]
        /\ f[l + 2] = 0 /\ f[l + 3] = 255 /\ f[l + 4] = 0
    <2>1. <<0, 255, 0>> \in Seq(Byte) /\ Len(<<0, 255, 0>>) = 3
      BY DEF Byte
    <2>2. f \in Seq(Byte) /\ Len(f) = l + 4 /\ \A j \in 1..l + 1 : f[j] = g[j]
      BY ONLY <2>1, <1>3, <1>5, f = g \o <<0, 255, 0>>
    <2>3. \A j \in 1..3 : f[l + 1 + j] = <<0, 255, 0>>[j]
      BY ONLY <2>1, <1>3, <1>5, f = g \o <<0, 255, 0>>
    <2>4. l + 2 = l + 1 + 1 /\ l + 3 = l + 1 + 2 /\ l + 4 = l + 1 + 3
      BY ONLY <1>3
    <2>5. f[l + 1 + 1] = 0 /\ f[l + 1 + 2] = 255 /\ f[l + 1 + 3] = 0
      BY ONLY <2>3
    <2>6. QED
      BY ONLY <2>2, <2>4, <2>5
  <1>7. f[1] = 255 /\ \A j \in 1..l : f[1 + j] = b[j]
    <2>1. 1 \in 1..l + 1 /\ \A j \in 1..l : 1 + j \in 1..l + 1
      BY ONLY <1>3
    <2>2. QED
      BY ONLY <2>1, <1>5, <1>6
  <1>8. PSend(m) = f
    BY ONLY <1>4, g = <<255>> \o b /\ f = g \o <<0, 255, 0>>
  <1>9. QED
    BY ONLY <1>0, <1>3, <1>6, <1>7, <1>8 DEF IsFrame
(* Where the loop of OnExecute looks at a body: of a doubled zero at the   *)
(* first byte only, of everything else at every byte.                      *)
Track(b, T) ==
  /\ T \subseteq 1..Len(b) + 1 /\ 1 \in T
  /\ \A k \in T : k <= Len(b) =>
       IF b[k] = 0 THEN k + 1 <= Len(b) /\ b[k + 1] = 0 /\ k + 2 \in T
                   ELSE k + 1 \in T

(* A code has such a track.                                                *)
LEMMA TrackIs ==
  ASSUME NEW b, NEW s, NEW c, IsCode(b, s, c)
  PROVE  \E T : Track(b, T)
  <1> PICK n, L : n = Len(s) /\ L = Len(b)
    OBVIOUS
  <1>0. n = Len(s) /\ L = Len(b)
    OBVIOUS
  <1>a. s \in Seq(Byte) /\ b \in Seq(Byte)
    BY ONLY IsCode(b, s, c) DEF IsCode
  <1>b. n \in Nat /\ L \in Nat
    BY ONLY <1>0, <1>a
  <1>c. c \in [1..n + 1 -> Nat] /\ c[1] = 1 /\ c[n + 1] = L + 1
    BY ONLY IsCode(b, s, c), <1>0, <1>b DEF IsCode
  <1>d. \A i \in 1..n :
          /\ c[i] \in 1..L /\ b[c[i]] = s[i]
          /\ c[i + 1] = c[i] + (IF s[i] \in Doubled THEN 2 ELSE 1)
          /\ s[i] \in Doubled => c[i] + 1 \in 1..L /\ b[c[i] + 1] = s[i]
    BY ONLY IsCode(b, s, c), <1>0 DEF IsCode, Codes
  <1> DEFINE T == {k \in 1..L + 1 : \/ k = L + 1
                                    \/ \E i \in 1..n : k = c[i] \/ (k = c[i] + 1 /\ s[i] = 255)}
  <1>1. ASSUME NEW i \in 1..n PROVE c[i] \in T
    <2>1. c[i] \in 1..L + 1
      BY ONLY <1>d, <1>b
    <2>2. QED
      BY ONLY <2>1
  <1>2. ASSUME NEW i \in 1..n PROVE c[i + 1] \in T
    <2>1. CASE i = n
      <3>1. c[i + 1] = L + 1 /\ L + 1 \in 1..L + 1
        BY ONLY <2>1, <1>c, <1>b
      <3>2. QED
        BY ONLY <3>1
    <2>2. CASE i # n
      <3>1. PICK j \in 1..n : j = i + 1
        BY ONLY <2>2, <1>b, i \in 1..n
      <3>2. c[j] \in T
        BY ONLY <1>1
      <3>3. QED
        BY ONLY <3>1, <3>2
    <2>3. QED
      BY ONLY <2>1, <2>2
  <1>3. ASSUME NEW i \in 1..n, s[i] = 255 PROVE c[i] + 1 \in T
    <2>1. s[i] \in Doubled
      BY ONLY s[i] = 255 DEF Doubled
    <2>2. c[i] + 1 \in 1..L + 1
      BY ONLY <2>1, <1>d, <1>b
    <2>3. QED
      BY ONLY <2>2, s[i] = 255
  <1>4. 1 \in T
    <2>1. CASE n = 0
      <3>1. 1 = L + 1 /\ 1 \in 1..L + 1
        BY ONLY <2>1, <1>c, <1>b
      <3>2. QED
        BY ONLY <3>1
    <2>2. CASE n # 0
      <3>1. 1 \in 1..n
        BY ONLY <2>2, <1>b
      <3>2. c[1] \in T
        BY ONLY <1>1, <3>1
      <3>3. QED
        BY ONLY <3>2, <1>c
    <2>3. QED
      BY ONLY <2>1, <2>2
  <1>5. ASSUME NEW k \in T, k <= L
        PROVE  IF b[k] = 0 THEN k + 1 <= L /\ b[k + 1] = 0 /\ k + 2 \in T ELSE k + 1 \in T
    <2>1. k \in 1..L /\ \E i \in 1..n : k = c[i] \/ (k = c[i] + 1 /\ s[i] = 255)
      BY ONLY <1>5, <1>b
    <2>2. PICK i \in 1..n : k = c[i] \/ (k = c[i] + 1 /\ s[i] = 255)
      BY ONLY <2>1
    <2>3. /\ c[i] \in 1..L /\ b[c[i]] = s[i]
          /\ c[i + 1] = c[i] + (IF s[i] \in Doubled THEN 2 ELSE 1)
          /\ s[i] \in Doubled => c[i] + 1 \in 1..L /\ b[c[i] + 1] = s[i]
      BY ONLY <1>d
    <2>a. c[i] \in T /\ c[i + 1] \in T
      BY ONLY <1>1, <1>2
    <2> HIDE DEF T
    <2>4. CASE k = c[i] /\ s[i] = 0
      <3>1. s[i] \in Doubled
        BY ONLY <2>4 DEF Doubled
      <3>2. k + 1 \in 1..L /\ b[k] = 0 /\ b[k + 1] = 0 /\ c[i + 1] = k + 2
        BY ONLY <3>1, <2>3, <2>4
      <3>3. QED
        BY ONLY <3>2, <2>a, <1>b
    <2>5. CASE s[i] = 255
      <3>1. s[i] \in Doubled
        BY ONLY <2>5 DEF Doubled
      <3>2. c[i + 1] = c[i] + 2 /\ b[c[i]] = 255 /\ b[c[i] + 1] = 255
        BY ONLY <3>1, <2>3, <2>5
      <3>3. c[i] + 1 \in T
        BY ONLY <1>3, <2>5
      <3>4. CASE k = c[i]
        BY ONLY <3>2, <3>3, <3>4
      <3>5. CASE k = c[i] + 1
        <4>1. c[i + 1] = k + 1
          BY ONLY <3>2, <3>5, <2>3
        <4>2. QED
          BY ONLY <4>1, <3>2, <3>5, <2>a
      <3>6. QED
        BY ONLY <3>4, <3>5, <2>2
    <2>6. CASE k = c[i] /\ s[i] # 0 /\ s[i] # 255
      <3>1. s[i] \notin Doubled
        BY ONLY <2>6 DEF Doubled
      <3>2. c[i + 1] = k + 1 /\ b[k] # 0
        BY ONLY <3>1, <2>3, <2>6
      <3>3. QED
        BY ONLY <3>2, <2>a
    <2>7. QED
      BY ONLY <2>2, <2>4, <2>5, <2>6
  <1>6. T \subseteq 1..L + 1
    OBVIOUS
  <1> HIDE DEF T
  <1>7. Track(b, T)
    BY ONLY <1>0, <1>4, <1>5, <1>6 DEF Track
  <1>8. QED
    BY ONLY <1>7-----------------------------------------------------------------------------
(* The loop of OnExecute over the frames in its ring.                      *)

(* The body b in its frame, from a position of X on.                       *)
Placed(b, from, X) ==
  /\ X[from + 1] = 255
  /\ \A j \in 1..Len(b) : X[from + 1 + j] = b[j]
  /\ X[from + Len(b) + 2] = 0 /\ X[from + Len(b) + 3] = 255 /\ X[from + Len(b) + 4] = 0

(* X is N frames, one after the other, with the bodies bs; frame d ends at *)
(* B[d].                                                                   *)
IsBody(b) == b \in Seq(Byte) /\ b # <<>> /\ b[1] \notin Doubled /\ \E T : Track(b, T)
Rising(N, B) == \A i, j \in 0..N : i <= j => B[i] <= B[j]
Stream(bs, N, B, X) ==
  /\ N \in Nat /\ B \in [0..N -> Nat] /\ B[0] = 0
  /\ X \in Seq(Byte) /\ Len(X) = B[N]
  /\ \A d \in 1..N : /\ IsBody(bs[d]) /\ B[d] = B[d - 1] + Len(bs[d]) + 4
                     /\ Placed(bs[d], B[d - 1], X)
  /\ Rising(N, B)

(* W is L bytes of X behind the position S.                                *)
Window(W, X, S, L) ==
  /\ W \in Seq(Byte) /\ Len(W) = L /\ S \in Nat /\ S + L <= Len(X)
  /\ \A i \in 1..L : W[i] = X[S + i]

(* What went out since the frame D: the bodies up to d, and nothings.      *)
Delivers(out, n, bs, i) ==
  \/ out[i] = <<>> /\ n[i] = n[i - 1]
  \/ out[i] = bs[n[i]] /\ n[i] = n[i - 1] + 1
Delivered(out, D, d, bs, n) ==
  /\ n \in [0..Len(out) -> D..d] /\ n[0] = D /\ n[Len(out)] = d
  /\ \A i \in 1..Len(out) : Delivers(out, n, bs, i)

(* Where the loop is: at the mark of frame d + 1, in its body, or at the   *)
(* ff or the second zero of the end of frame d.                            *)
ScanStates == [at : Nat \ {0}, found : BOOLEAN, data : Seq(Byte), done : Nat, out : Seq(Seq(Byte))]
AtMark(s, S, B, d) ==
  S + s.at = B[d] + 1 /\ ~s.found /\ s.data = <<>> /\ S + s.done = B[d]
InBody(s, S, B, bs, d, k) ==
  /\ S + s.at = B[d] + 1 + k /\ s.found /\ s.data = SubSeq(bs[d + 1], 1, k - 1)
  /\ S + s.done = B[d]
  /\ \E T : Track(bs[d + 1], T) /\ k \in T
AtEnd(s, S, B, d) ==
  S + s.at = B[d] - 1 /\ ~s.found /\ s.data = <<>> /\ S + s.done = B[d] - 2
AtZero(s, S, B, d) ==
  S + s.at = B[d] /\ s.found /\ s.data = <<>> /\ S + s.done = B[d] - 2
ScanAt(s, S, B, bs, N, d) ==
  \/ AtMark(s, S, B, d)
  \/ d < N /\ \E k \in Nat : InBody(s, S, B, bs, d, k)
  \/ d >= 1 /\ (AtEnd(s, S, B, d) \/ AtZero(s, S, B, d))
Scan(s, S, L, bs, N, B, D) ==
  /\ s \in ScanStates /\ s.at <= L
  /\ \E d \in D..N : ScanAt(s, S, B, bs, N, d) /\ \E n : Delivered(s.out, D, d, bs, n)

(* What a step from s to t does, by the byte x and the one after it.       *)
DetectStep(s, t, x, y) ==
  /\ t \in ScanStates /\ (t.at = s.at + 1 \/ t.at = s.at + 2)
  /\ x = 255 /\ y # 255 =>
       /\ t.at = s.at + 1 /\ t.found = TRUE /\ t.done = s.done /\ t.out = s.out
       /\ t.data = IF s.found THEN Append(s.data, x) ELSE s.data
  /\ s.found /\ x = 0 /\ y = 0 =>
       /\ t.at = s.at + 2 /\ t.found = s.found /\ t.done = s.done /\ t.out = s.out
       /\ t.data = s.data \o <<0, 0>>
  /\ x = 0 /\ y # 0 =>
       /\ t.at = s.at + 1 /\ t.found = FALSE /\ t.done = s.at
       /\ t.out = Append(s.out, s.data) /\ t.data = <<>>
  /\ s.found /\ x # 0 /\ ~(x = 255 /\ y # 255) =>
       /\ t.at = s.at + 1 /\ t.found = s.found /\ t.done = s.done /\ t.out = s.out
       /\ t.data = Append(s.data, x)

(* One step of the loop, by its cases.                                     *)
LEMMA DetectIs ==
  ASSUME NEW W \in Seq(Byte), NEW s \in ScanStates, NEW t, t = Detect(W, s),
         s.at <= Len(W) - 2, NEW x, NEW y, x = W[s.at], y = W[s.at + 1]
  PROVE  DetectStep(s, t, x, y)
  <1>1. /\ s.at \in Nat \ {0} /\ s.found \in BOOLEAN /\ s.data \in Seq(Byte)
        /\ s.done \in Nat /\ s.out \in Seq(Seq(Byte))
    BY ONLY s \in ScanStates DEF ScanStates
  <1>2. x \in Byte /\ y \in Byte
    BY ONLY <1>1, W \in Seq(Byte), s.at <= Len(W) - 2, x = W[s.at], y = W[s.at + 1]
  <1>3. s.at + 1 \in Nat \ {0} /\ s.at + 2 \in Nat \ {0} /\ s.at \in Nat
    BY ONLY <1>1
  <1>4. Append(s.data, x) \in Seq(Byte)
    BY ONLY <1>1, <1>2
  <1>5. s.data \o <<0, 0>> \in Seq(Byte)
    <2>1. 0 \in Byte
      BY DEF Byte
    <2>2. <<0, 0>> \in Seq(Byte)
      BY ONLY <2>1
    <2>3. QED
      BY ONLY <2>2, <1>1, Together, Zenon
  <1>6. Append(s.out, s.data) \in Seq(Seq(Byte)) /\ <<>> \in Seq(Byte)
    BY ONLY <1>1
  <1>7. CASE x = 255 /\ y # 255
    <2>1. t = [s EXCEPT !.at = @ + 1, !.found = TRUE,
                        !.data = IF s.found THEN Append(@, x) ELSE @]
      <3>1. W[s.at] = 255 /\ W[s.at + 1] # 255
        BY ONLY <1>7, x = W[s.at], y = W[s.at + 1]
      <3>2. Detect(W, s) = [s EXCEPT !.at = @ + 1, !.found = TRUE,
                                     !.data = IF s.found THEN Append(@, W[s.at]) ELSE @]
        BY ONLY <3>1 DEF Detect
      <3>3. QED
        BY ONLY <3>2, t = Detect(W, s), x = W[s.at]
    <2> PICK z : z = IF s.found THEN Append(s.data, x) ELSE s.data
      OBVIOUS
    <2>2. /\ t = [s EXCEPT !.at = s.at + 1, !.found = TRUE, !.data = z] /\ z \in Seq(Byte)
          /\ z = IF s.found THEN Append(s.data, x) ELSE s.data
      BY ONLY <2>1, z = IF s.found THEN Append(s.data, x) ELSE s.data, <1>1, <1>4
    <2>3. /\ t.at = s.at + 1 /\ t.found = TRUE /\ t.done = s.done /\ t.out = s.out
          /\ t.data = z
      BY ONLY <2>2, s \in ScanStates DEF ScanStates
    <2>5. t \in ScanStates
      <3> PICK U, V : U = Seq(Byte) /\ V = Seq(Seq(Byte))
        OBVIOUS
      <3>1. z \in U /\ s \in [at : Nat \ {0}, found : BOOLEAN, data : U, done : Nat, out : V]
        BY ONLY <2>2, U = Seq(Byte) /\ V = Seq(Seq(Byte)), s \in ScanStates DEF ScanStates
      <3>2. t \in [at : Nat \ {0}, found : BOOLEAN, data : U, done : Nat, out : V]
        BY ONLY <2>2, <3>1, <1>3
      <3>3. QED
        BY ONLY <3>2, U = Seq(Byte) /\ V = Seq(Seq(Byte)) DEF ScanStates
    <2>4. QED
      <3>1. ~(x = 0)
        BY ONLY <1>7
      <3>2. QED
        BY ONLY <3>1, <2>2, <2>3, <2>5, <1>7, Zenon DEF DetectStep
  <1>8. CASE s.found /\ x = 0 /\ y = 0
    <2>1. t = [s EXCEPT !.at = @ + 2, !.data = @ \o <<0, 0>>]
      BY ONLY <1>8, t = Detect(W, s), x = W[s.at], y = W[s.at + 1] DEF Detect
    <2> PICK z : z = s.data \o <<0, 0>>
      OBVIOUS
    <2>2. t = [s EXCEPT !.at = s.at + 2, !.data = z] /\ z = s.data \o <<0, 0>> /\ z \in Seq(Byte)
      BY ONLY <2>1, z = s.data \o <<0, 0>>, <1>5
    <2>3. /\ t.at = s.at + 2 /\ t.found = s.found /\ t.done = s.done /\ t.out = s.out
          /\ t.data = z /\ t \in ScanStates
      BY ONLY <2>2, <1>1, <1>3, s \in ScanStates DEF ScanStates
    <2>4. QED
      BY ONLY <2>2, <2>3, <1>8 DEF DetectStep
  <1>9. CASE x = 0 /\ y # 0
    <2>1. t = [s EXCEPT !.at = @ + 1, !.found = FALSE, !.data = <<>>, !.done = s.at,
                        !.out = Append(@, s.data)]
      BY ONLY <1>9, t = Detect(W, s), x = W[s.at], y = W[s.at + 1] DEF Detect
    <2> PICK z, e : z = Append(s.out, s.data) /\ e = <<>>
      OBVIOUS
    <2>2. /\ t = [s EXCEPT !.at = s.at + 1, !.found = FALSE, !.data = e, !.done = s.at, !.out = z]
          /\ z \in Seq(Seq(Byte)) /\ z = Append(s.out, s.data) /\ e \in Seq(Byte) /\ e = <<>>
      BY ONLY <2>1, z = Append(s.out, s.data) /\ e = <<>>, <1>6
    <2> HIDE DEF Byte
    <2>3. /\ t.at = s.at + 1 /\ t.found = FALSE /\ t.done = s.at /\ t.out = z
          /\ t.data = e
      BY ONLY <2>2, s \in ScanStates DEF ScanStates
    <2>4. t \in ScanStates
      <3> PICK U, V : U = Seq(Byte) /\ V = Seq(Seq(Byte))
        OBVIOUS
      <3>1. e \in U /\ z \in V /\ s \in [at : Nat \ {0}, found : BOOLEAN, data : U, done : Nat, out : V]
        BY ONLY <2>2, U = Seq(Byte) /\ V = Seq(Seq(Byte)), s \in ScanStates DEF ScanStates
      <3>2. t \in [at : Nat \ {0}, found : BOOLEAN, data : U, done : Nat, out : V]
        BY ONLY <2>2, <3>1, <1>3
      <3>3. QED
        BY ONLY <3>2, U = Seq(Byte) /\ V = Seq(Seq(Byte)) DEF ScanStates
    <2>5. QED
      <3>1. ~(x = 255)
        BY ONLY <1>9
      <3>2. QED
        BY ONLY <3>1, <2>2, <2>3, <2>4, <1>9, Zenon DEF DetectStep
  <1>10. CASE ~(x = 255 /\ y # 255) /\ ~(s.found /\ x = 0 /\ y = 0) /\ ~(x = 0 /\ y # 0)
    <2>1. t = [s EXCEPT !.at = @ + 1, !.data = IF s.found THEN Append(@, x) ELSE @]
      BY ONLY <1>10, t = Detect(W, s), x = W[s.at], y = W[s.at + 1] DEF Detect
    <2>2. QED
      BY ONLY <2>1, <1>10, <1>1, <1>3, <1>4, s \in ScanStates DEF ScanStates, DetectStep
  <1>11. QED
    BY ONLY <1>7, <1>8, <1>9, <1>10, <1>1

(* A sequence of bytes with one more.                                      *)
LEMMA Appended ==
  ASSUME NEW x \in Seq(Byte), NEW e \in Byte
  PROVE  /\ Append(x, e) \in Seq(Byte) /\ Len(Append(x, e)) = Len(x) + 1
         /\ \A i \in 1..Len(x) : Append(x, e)[i] = x[i]
         /\ Append(x, e)[Len(x) + 1] = e
  BY ONLY x \in Seq(Byte), e \in Byte, AppendProperties

(* And a sequence of bytes is made of its beginnings, one byte at a time.  *)
LEMMA PrefixGrows ==
  ASSUME NEW b \in Seq(Byte)
  PROVE  /\ SubSeq(b, 1, 0) = <<>> /\ SubSeq(b, 1, Len(b)) = b
         /\ \A k \in 1..Len(b) : /\ SubSeq(b, 1, k - 1) \in Seq(Byte)
                                 /\ Append(SubSeq(b, 1, k - 1), b[k]) = SubSeq(b, 1, k)
  <1> PICK n : n = Len(b)
    OBVIOUS
  <1>0. n = Len(b) /\ n \in Nat
    BY ONLY n = Len(b), b \in Seq(Byte)
  <1>1. SubSeq(b, 1, 0) = <<>>
    OBVIOUS
  <1>2. \A k \in 0..n : /\ SubSeq(b, 1, k) \in Seq(Byte) /\ Len(SubSeq(b, 1, k)) = k
                        /\ \A i \in 1..k : SubSeq(b, 1, k)[i] = b[i]
    BY ONLY <1>0, b \in Seq(Byte)
  <1>3. SubSeq(b, 1, n) = b
    <2> PICK u : u = SubSeq(b, 1, n)
      OBVIOUS
    <2>1. u \in Seq(Byte) /\ Len(u) = n /\ \A i \in 1..n : u[i] = b[i]
      BY ONLY <1>2, <1>0, u = SubSeq(b, 1, n)
    <2>2. u = b
      BY ONLY <2>1, <1>0, b \in Seq(Byte), SeqEqual
    <2>3. QED
      BY ONLY <2>2, u = SubSeq(b, 1, n)
  <1>4. ASSUME NEW k \in 1..n
        PROVE  /\ SubSeq(b, 1, k - 1) \in Seq(Byte)
               /\ Append(SubSeq(b, 1, k - 1), b[k]) = SubSeq(b, 1, k)
    <2> PICK h, u, v : h = k - 1 /\ u = SubSeq(b, 1, h) /\ v = SubSeq(b, 1, k)
      OBVIOUS
    <2>0. h = k - 1 /\ u = SubSeq(b, 1, h) /\ v = SubSeq(b, 1, k)
      OBVIOUS
    <2>1. h \in 0..n /\ k \in 0..n
      BY ONLY <2>0, <1>0, k \in 1..n
    <2>2. u \in Seq(Byte) /\ Len(u) = h /\ \A i \in 1..h : u[i] = b[i]
      BY ONLY <1>2, <2>0, <2>1
    <2>3. v \in Seq(Byte) /\ Len(v) = k /\ \A i \in 1..k : v[i] = b[i]
      BY ONLY <1>2, <2>0, <2>1
    <2>4. b[k] \in Byte
      BY ONLY <1>0, b \in Seq(Byte), k \in 1..n
    <2>a. /\ Append(u, b[k]) \in Seq(Byte) /\ Len(Append(u, b[k])) = h + 1
          /\ \A i \in 1..h : Append(u, b[k])[i] = u[i]
          /\ Append(u, b[k])[h + 1] = b[k]
      <3>0. u \in Seq(Byte)
        BY ONLY <2>2
      <3>1. /\ Append(u, b[k]) \in Seq(Byte) /\ Len(Append(u, b[k])) = Len(u) + 1
            /\ \A i \in 1..Len(u) : Append(u, b[k])[i] = u[i]
            /\ Append(u, b[k])[Len(u) + 1] = b[k]
        BY ONLY <3>0, <2>4, Appended, Zenon
      <3>2. QED
        BY ONLY <3>1, <2>2, Zenon
    <2>5. PICK a : a = Append(u, b[k])
      OBVIOUS
    <2>6. /\ a \in Seq(Byte) /\ Len(a) = k
          /\ \A i \in 1..h : a[i] = u[i]
          /\ a[k] = b[k]
      BY ONLY <2>a, <2>5, <2>0, <2>1
    <2>7. \A i \in 1..k : a[i] = v[i]
      BY ONLY <2>0, <2>2, <2>3, <2>6, k \in 1..n
    <2>8. a = v
      BY ONLY <2>3, <2>6, <2>7, SeqEqual
    <2>9. QED
      BY ONLY <2>0, <2>2, <2>5, <2>8
  <1>5. QED
    BY ONLY <1>0, <1>1, <1>3, <1>4

(* One more thing goes out.                                                *)
LEMMA DeliveredMore ==
  ASSUME NEW out \in Seq(Seq(Byte)), NEW D \in Nat, NEW d \in Nat, D <= d, NEW bs, NEW n,
         Delivered(out, D, d, bs, n), NEW e \in Seq(Byte), NEW d2 \in Nat,
         (e = <<>> /\ d2 = d) \/ (e = bs[d2] /\ d2 = d + 1)
  PROVE  \E n2 : Delivered(Append(out, e), D, d2, bs, n2)
  <1> PICK l, o, m : l = Len(out) /\ o = Append(out, e) /\ m = l + 1
    OBVIOUS
  <1>0. l = Len(out) /\ o = Append(out, e) /\ m = l + 1 /\ l \in Nat /\ m \in Nat
    BY ONLY l = Len(out) /\ o = Append(out, e) /\ m = l + 1, out \in Seq(Seq(Byte))
  <1>1. o \in Seq(Seq(Byte)) /\ Len(o) = m /\ (\A i \in 1..l : o[i] = out[i]) /\ o[m] = e
    BY ONLY <1>0, out \in Seq(Seq(Byte)), e \in Seq(Byte), AppendProperties
  <1> DEFINE n2 == [i \in 0..m |-> IF i <= l THEN n[i] ELSE d2]
  <1>2. /\ n \in [0..l -> D..d] /\ n[0] = D /\ n[l] = d
        /\ \A i \in 1..l : Delivers(out, n, bs, i)
    BY ONLY <1>0, Delivered(out, D, d, bs, n) DEF Delivered
  <1>3. n2 \in [0..m -> D..d2]
    BY ONLY <1>0, <1>2, D \in Nat, d \in Nat, d2 \in Nat, D <= d,
            (e = <<>> /\ d2 = d) \/ (e = bs[d2] /\ d2 = d + 1)
  <1>4. (\A i \in 0..l : n2[i] = n[i]) /\ n2[m] = d2
    BY ONLY <1>0
  <1>5. n2[0] = D
    BY ONLY <1>0, <1>2, <1>4
  <1>6. ASSUME NEW i \in 1..m PROVE Delivers(o, n2, bs, i)
    <2>1. CASE i \in 1..l
      <3>1. Delivers(out, n, bs, i) /\ o[i] = out[i]
        BY ONLY <2>1, <1>1, <1>2
      <3>2. n2[i] = n[i] /\ n2[i - 1] = n[i - 1]
        BY ONLY <2>1, <1>0, <1>4
      <3> HIDE DEF n2
      <3>3. QED
        BY ONLY <3>1, <3>2 DEF Delivers
    <2>2. CASE i = m
      <3>1. n2[i] = d2 /\ n2[i - 1] = d
        BY ONLY <2>2, <1>0, <1>2, <1>4
      <3>2. o[i] = e
        BY ONLY <2>2, <1>1
      <3> HIDE DEF n2
      <3>3. QED
        BY ONLY <3>1, <3>2, (e = <<>> /\ d2 = d) \/ (e = bs[d2] /\ d2 = d + 1) DEF Delivers
    <2>3. QED
      BY ONLY <2>1, <2>2, <1>0
  <1> HIDE DEF n2
  <1>7. Delivered(o, D, d2, bs, n2)
    BY ONLY <1>1, <1>3, <1>4, <1>5, <1>6 DEF Delivered
  <1>8. QED
    BY ONLY <1>0, <1>7
(* A step of the loop keeps to the frames.                                 *)
LEMMA DetectKeeps ==
  ASSUME NEW bs, NEW N, NEW B, NEW X, Stream(bs, N, B, X),
         NEW W, NEW S, NEW L, Window(W, X, S, L), NEW D \in 0..N,
         NEW s, Scan(s, S, L, bs, N, B, D), s.at <= L - 2
  PROVE  Scan(Detect(W, s), S, L, bs, N, B, D)
  <1>a. /\ N \in Nat /\ B \in [0..N -> Nat] /\ X \in Seq(Byte) /\ Len(X) = B[N]
        /\ Rising(N, B)
    BY ONLY Stream(bs, N, B, X) DEF Stream
  <1>b. /\ W \in Seq(Byte) /\ Len(W) = L /\ S \in Nat /\ L \in Nat /\ S + L <= B[N]
        /\ \A i \in 1..L : W[i] = X[S + i]
    BY ONLY Window(W, X, S, L), <1>a DEF Window
  <1>c. s \in ScanStates /\ s.at <= L
    BY ONLY Scan(s, S, L, bs, N, B, D) DEF Scan
  <1>d. PICK d \in D..N : ScanAt(s, S, B, bs, N, d) /\ \E n : Delivered(s.out, D, d, bs, n)
    BY ONLY Scan(s, S, L, bs, N, B, D) DEF Scan
  <1>e. PICK n : Delivered(s.out, D, d, bs, n)
    BY ONLY <1>d
  <1> PICK t, x, y, at, P, c, Z : /\ t = Detect(W, s) /\ x = W[s.at] /\ y = W[s.at + 1] /\ at = s.at
                                  /\ P = S + s.at /\ c = B[d] /\ Z = B[N]
    OBVIOUS
  <1>0. /\ t = Detect(W, s) /\ x = W[s.at] /\ y = W[s.at + 1] /\ at = s.at
        /\ P = S + s.at /\ c = B[d] /\ Z = B[N]
    OBVIOUS
  <1>1. /\ at \in Nat \ {0} /\ s.found \in BOOLEAN /\ s.data \in Seq(Byte)
        /\ s.done \in Nat /\ s.out \in Seq(Seq(Byte))
    BY ONLY <1>c, <1>0 DEF ScanStates
  <1>2. d \in Nat /\ D \in Nat /\ D <= d /\ d <= N /\ c \in Nat /\ Z \in Nat
    BY ONLY <1>a, <1>0, D \in 0..N, d \in D..N
  <1>3. P \in Nat /\ P = S + at /\ x = X[P] /\ y = X[P + 1] /\ P + 2 <= Z
    <2>1. at \in 1..L /\ at + 1 \in 1..L /\ S + (at + 1) = P + 1 /\ P \in Nat /\ P + 2 <= Z
      <3>1. at <= L - 2 /\ P = S + at /\ S + L <= Z
        BY ONLY <1>0, <1>b, s.at <= L - 2
      <3>2. QED
        BY ONLY <3>1, <1>1, <1>2, <1>b
    <2>2. W[at] = X[S + at] /\ W[at + 1] = X[S + (at + 1)]
      BY ONLY <2>1, <1>b, Zenon
    <2>3. x = W[at] /\ y = W[at + 1] /\ P = S + at
      BY ONLY <1>0
    <2>4. QED
      BY ONLY <2>1, <2>2, <2>3
  <1>4. d = N => c = Z
    BY ONLY <1>0
  <1>D. /\ t \in ScanStates
        /\ x = 255 /\ y # 255 =>
              /\ t.at = at + 1 /\ t.found = TRUE /\ t.done = s.done /\ t.out = s.out
              /\ t.data = IF s.found THEN Append(s.data, x) ELSE s.data
        /\ s.found /\ x = 0 /\ y = 0 =>
              /\ t.at = at + 2 /\ t.found = s.found /\ t.done = s.done /\ t.out = s.out
              /\ t.data = s.data \o <<0, 0>>
        /\ x = 0 /\ y # 0 =>
              /\ t.at = at + 1 /\ t.found = FALSE /\ t.done = at
              /\ t.out = Append(s.out, s.data) /\ t.data = <<>>
        /\ s.found /\ x # 0 /\ ~(x = 255 /\ y # 255) =>
              /\ t.at = at + 1 /\ t.found = s.found /\ t.done = s.done /\ t.out = s.out
              /\ t.data = Append(s.data, x)
    <2>1. s.at <= Len(W) - 2
      BY ONLY <1>b, s.at <= L - 2
    <2>2. QED
      <3>1. t = Detect(W, s) /\ x = W[s.at] /\ y = W[s.at + 1] /\ at = s.at
        BY ONLY <1>0
      <3>2. W \in Seq(Byte) /\ s \in ScanStates
        BY ONLY <1>b, <1>c
      <3>3. DetectStep(s, t, x, y)
        BY ONLY <2>1, <3>1, <3>2, DetectIs, Zenon
      <3>4. QED
        BY ONLY <3>1, <3>3 DEF DetectStep
  <1>p. P = S + at /\ S \in Nat /\ at \in Nat /\ P \in Nat /\ c = B[d] /\ c \in Nat
    BY ONLY <1>0, <1>1, <1>2, <1>3, <1>b
  <1>5. ASSUME NEW e \in Seq(Byte), NEW d2 \in Nat,
               (e = <<>> /\ d2 = d) \/ (e = bs[d2] /\ d2 = d + 1)
        PROVE  \E n2 : Delivered(Append(s.out, e), D, d2, bs, n2)
    BY ONLY <1>1, <1>2, <1>e, <1>5, DeliveredMore
  (* The frame that begins behind B[d].                                    *)
  <1>F. ASSUME d < N
        PROVE  /\ d + 1 \in 1..N /\ IsBody(bs[d + 1])
               /\ B[d + 1] = c + Len(bs[d + 1]) + 4 /\ Placed(bs[d + 1], c, X)
    <2>1. PICK f \in 1..N : f = d + 1
      BY ONLY <1>F, <1>2, <1>a
    <2>2. IsBody(bs[f]) /\ B[f] = B[f - 1] + Len(bs[f]) + 4 /\ Placed(bs[f], B[f - 1], X)
      BY ONLY Stream(bs, N, B, X) DEF Stream
    <2>3. f - 1 = d
      BY ONLY <2>1, <1>2
    <2>4. QED
      BY ONLY <2>1, <2>2, <2>3, <1>0
  <1>6. CASE AtMark(s, S, B, d)
    <2>1. P = c + 1 /\ ~s.found /\ s.data = <<>> /\ S + s.done = c
      BY ONLY <1>6, <1>0 DEF AtMark
    <2>2. d < N
      BY ONLY <2>1, <1>2, <1>3, <1>4, <1>a
    <2>3. PICK b : b = bs[d + 1]
      OBVIOUS
    <2>4. IsBody(b) /\ Placed(b, c, X)
      BY ONLY <2>2, <2>3, <1>F
    <2>5. b \in Seq(Byte) /\ b # <<>> /\ b[1] \notin Doubled
      BY ONLY <2>4 DEF IsBody
    <2>6. X[c + 1] = 255 /\ X[c + 1 + 1] = b[1]
      <3>1. 1 \in 1..Len(b)
        BY ONLY <2>5
      <3>2. QED
        BY ONLY <3>1, <2>4 DEF Placed
    <2>7. x = 255 /\ y # 255
      BY ONLY <2>1, <2>5, <2>6, <1>3 DEF Doubled
    <2>8. /\ t.at = at + 1 /\ t.found = TRUE /\ t.done = s.done /\ t.out = s.out
          /\ t.data = <<>>
      BY ONLY <1>D, <2>7, <2>1
    <2>9. PICK T : Track(b, T)
      BY ONLY <2>4 DEF IsBody
    <2>10. InBody(t, S, B, bs, d, 1)
      <3>1. S + t.at = B[d] + 1 + 1
        <4>1. t.at = at + 1 /\ B[d] = c /\ S + at = c + 1
          BY ONLY <2>8, <2>1, <1>0
        <4>2. S \in Nat /\ at \in Nat /\ c \in Nat
          BY ONLY <1>1, <1>2, <1>b
        <4>3. QED
          BY ONLY <4>1, <4>2
      <3>2. 1 \in T
        BY ONLY <2>9 DEF Track
      <3>3. SubSeq(b, 1, 1 - 1) = <<>>
        BY ONLY <2>5
      <3>4. QED
        BY ONLY <2>1, <2>3, <2>8, <2>9, <3>1, <3>2, <3>3, <1>0 DEF InBody
    <2>11. ScanAt(t, S, B, bs, N, d)
      BY ONLY <2>2, <2>10 DEF ScanAt
    <2>12. t.at <= L
      BY ONLY <2>8, <1>0, <1>1, <1>b, s.at <= L - 2
    <2>13. Delivered(t.out, D, d, bs, n)
      BY ONLY <2>8, <1>e
    <2>14. QED
      BY ONLY <1>0, <1>D, <2>11, <2>12, <2>13 DEF Scan
  <1>7. CASE d >= 1 /\ AtEnd(s, S, B, d)
    <2>1. P = c - 1 /\ ~s.found /\ s.data = <<>> /\ S + s.done = c - 2
      BY ONLY <1>7, <1>0 DEF AtEnd
    <2>2. X[c - 1] = 255 /\ X[c] = 0
      <3>1. d \in 1..N /\ d - 1 \in 0..N
        BY ONLY <1>7, <1>2, <1>a
      <3>2. PICK b, p : b = bs[d] /\ p = B[d - 1]
        OBVIOUS
      <3>3. IsBody(b) /\ c = p + Len(b) + 4 /\ Placed(b, p, X)
        BY ONLY <3>1, <3>2, <1>0, Stream(bs, N, B, X) DEF Stream
      <3>4. p \in Nat /\ Len(b) \in Nat
        <4>1. p \in Nat
          BY ONLY <3>1, <3>2, <1>a
        <4>2. b \in Seq(Byte)
          BY ONLY <3>3 DEF IsBody
        <4>3. QED
          BY ONLY <4>1, <4>2
      <3>5. p + Len(b) + 3 = c - 1 /\ p + Len(b) + 4 = c
        BY ONLY <3>3, <3>4
      <3>6. X[p + Len(b) + 3] = 255 /\ X[p + Len(b) + 4] = 0
        BY ONLY <3>3 DEF Placed
      <3>7. QED
        BY ONLY <3>5, <3>6
    <2>3. x = 255 /\ y # 255
      <3>1. P + 1 = c
        BY ONLY <2>1, <1>2
      <3>2. QED
        BY ONLY <3>1, <2>1, <2>2, <1>3
    <2>4. /\ t.at = at + 1 /\ t.found = TRUE /\ t.done = s.done /\ t.out = s.out
          /\ t.data = <<>>
      BY ONLY <1>D, <2>3, <2>1
    <2>5. AtZero(t, S, B, d)
      <3>1. S + t.at = B[d]
        BY ONLY <2>4, <2>1, <1>p
      <3>2. QED
        BY ONLY <2>1, <2>4, <3>1, <1>0 DEF AtZero
    <2>6. ScanAt(t, S, B, bs, N, d)
      BY ONLY <2>5, <1>7 DEF ScanAt
    <2>7. t.at <= L
      BY ONLY <2>4, <1>0, <1>1, <1>b, s.at <= L - 2
    <2>8. Delivered(t.out, D, d, bs, n)
      BY ONLY <2>4, <1>e
    <2>9. QED
      BY ONLY <1>0, <1>D, <2>6, <2>7, <2>8 DEF Scan
  <1>8. CASE d >= 1 /\ AtZero(s, S, B, d)
    <2>1. P = c /\ s.found /\ s.data = <<>> /\ S + s.done = c - 2
      BY ONLY <1>8, <1>0 DEF AtZero
    <2>2. d < N
      BY ONLY <2>1, <1>2, <1>3, <1>4, <1>a
    <2>3. X[c + 1] = 255
      BY ONLY <2>2, <1>F DEF Placed
    <2>4. X[c] = 0
      <3>1. d \in 1..N /\ d - 1 \in 0..N
        BY ONLY <1>8, <1>2, <1>a
      <3>2. PICK b, p : b = bs[d] /\ p = B[d - 1]
        OBVIOUS
      <3>3. IsBody(b) /\ c = p + Len(b) + 4 /\ Placed(b, p, X)
        BY ONLY <3>1, <3>2, <1>0, Stream(bs, N, B, X) DEF Stream
      <3>4. X[p + Len(b) + 4] = 0
        BY ONLY <3>3 DEF Placed
      <3>5. QED
        BY ONLY <3>3, <3>4
    <2>5. x = 0 /\ y # 0
      BY ONLY <2>1, <2>3, <2>4, <1>3
    <2>6. /\ t.at = at + 1 /\ t.found = FALSE /\ t.done = at
          /\ t.out = Append(s.out, s.data) /\ t.data = <<>>
      BY ONLY <1>D, <2>5
    <2>7. AtMark(t, S, B, d)
      <3>1. S + t.at = B[d] + 1 /\ S + t.done = B[d]
        <4>1. t.at = at + 1 /\ t.done = at /\ P = c
          BY ONLY <2>6, <2>1
        <4>2. S + at = B[d]
          BY ONLY <4>1, <1>p
        <4>3. S + (at + 1) = B[d] + 1
          BY ONLY <4>2, <1>p
        <4>4. QED
          BY ONLY <4>1, <4>2, <4>3, Zenon
      <3>2. QED
        BY ONLY <2>6, <3>1 DEF AtMark
    <2>8. ScanAt(t, S, B, bs, N, d)
      BY ONLY <2>7 DEF ScanAt
    <2>9. t.at <= L
      BY ONLY <2>6, <1>0, <1>1, <1>b, s.at <= L - 2
    <2>10. PICK n2 : Delivered(Append(s.out, s.data), D, d, bs, n2)
      <3>1. s.data \in Seq(Byte) /\ d \in Nat /\ s.data = <<>>
        BY ONLY <1>1, <1>2, <2>1
      <3>2. QED
        BY ONLY <3>1, <1>5
    <2>11. QED
      BY ONLY <1>0, <1>D, <2>6, <2>8, <2>9, <2>10 DEF Scan
  <1>9. CASE d < N /\ \E k \in Nat : InBody(s, S, B, bs, d, k)
    <2>1. PICK k \in Nat : InBody(s, S, B, bs, d, k)
      BY ONLY <1>9
    <2> PICK b, l : b = bs[d + 1] /\ l = Len(b)
      OBVIOUS
    <2>2. b = bs[d + 1] /\ l = Len(b)
      OBVIOUS
    <2>3. /\ P = c + 1 + k /\ s.found /\ s.data = SubSeq(b, 1, k - 1)
          /\ S + s.done = c
      BY ONLY <2>1, <2>2, <1>0 DEF InBody
    <2>4. PICK T : Track(b, T) /\ k \in T
      BY ONLY <2>1, <2>2 DEF InBody
    <2>5. d + 1 \in 1..N /\ IsBody(b) /\ B[d + 1] = c + l + 4 /\ Placed(b, c, X)
      BY ONLY <1>9, <1>F, <2>2
    <2>6. b \in Seq(Byte) /\ l \in Nat
      BY ONLY <2>2, <2>5 DEF IsBody
    <2>7. /\ T \subseteq 1..l + 1
          /\ k <= l => IF b[k] = 0 THEN k + 1 <= l /\ b[k + 1] = 0 /\ k + 2 \in T ELSE k + 1 \in T
      BY ONLY <2>2, <2>4 DEF Track
    <2>8. k \in 1..l + 1
      BY ONLY <2>4, <2>7
    <2>9. /\ \A j \in 1..l : X[c + 1 + j] = b[j]
          /\ X[c + l + 2] = 0 /\ X[c + l + 3] = 255
      BY ONLY <2>5, <2>2 DEF Placed
    <2>10. CASE k = l + 1
      <3>1. x = 0 /\ y # 0
        <4>1. P = c + l + 2 /\ P + 1 = c + l + 3
          BY ONLY <2>3, <2>10, <2>6, <1>2
        <4>2. QED
          BY ONLY <4>1, <2>9, <1>3
      <3>2. /\ t.at = at + 1 /\ t.found = FALSE /\ t.done = at
            /\ t.out = Append(s.out, s.data) /\ t.data = <<>>
        BY ONLY <1>D, <3>1
      <3>3. AtEnd(t, S, B, d + 1)
        <4>1. S + t.at = B[d + 1] - 1 /\ S + t.done = B[d + 1] - 2
          BY ONLY <3>2, <2>3, <2>5, <2>6, <2>10, <1>1, <1>2, <1>3, <1>b
        <4>2. QED
          BY ONLY <3>2, <4>1 DEF AtEnd
      <3>4. d + 1 \in D..N /\ d + 1 >= 1 /\ d + 1 \in Nat
        BY ONLY <1>9, <1>2, <1>a
      <3>5. ScanAt(t, S, B, bs, N, d + 1)
        BY ONLY <3>3, <3>4 DEF ScanAt
      <3>6. t.at <= L
        BY ONLY <3>2, <1>0, <1>1, <1>b, s.at <= L - 2
      <3>7. s.data = b
        <4>1. k - 1 = l
          BY ONLY <2>10, <2>6
        <4>2. QED
          BY ONLY <4>1, <2>2, <2>3, <2>6, PrefixGrows
      <3>8. PICK n2 : Delivered(Append(s.out, s.data), D, d + 1, bs, n2)
        <4>1. s.data = bs[d + 1] /\ s.data \in Seq(Byte)
          BY ONLY <3>7, <2>2, <2>6
        <4>2. QED
          BY ONLY <4>1, <3>4, <1>5
      <3>9. QED
        BY ONLY <1>0, <1>D, <3>2, <3>4, <3>5, <3>6, <3>8 DEF Scan
    <2>11. CASE k <= l
      <3>1. k \in 1..l /\ x = b[k]
        BY ONLY <2>11, <2>8, <2>9, <2>3, <2>6, <1>3
      <3>2. /\ SubSeq(b, 1, k - 1) \in Seq(Byte)
            /\ Append(SubSeq(b, 1, k - 1), b[k]) = SubSeq(b, 1, k)
        BY ONLY <3>1, <2>2, <2>6, PrefixGrows
      <3>3. CASE x = 0
        <4>1. k + 1 \in 1..l /\ b[k + 1] = 0 /\ k + 2 \in T
          BY ONLY <3>1, <3>3, <2>7, <2>6
        <4>2. y = 0
          <5>1. P + 1 = c + 1 + (k + 1)
            BY ONLY <2>3, <1>2, <3>1
          <5>2. X[c + 1 + (k + 1)] = b[k + 1]
            BY ONLY <2>9, <4>1, Zenon
          <5>3. QED
            BY ONLY <5>1, <5>2, <4>1, <1>3
        <4>3. /\ t.at = at + 2 /\ t.found = s.found /\ t.done = s.done /\ t.out = s.out
              /\ t.data = s.data \o <<0, 0>>
          BY ONLY <1>D, <2>3, <3>3, <4>2
        <4>4. t.data = SubSeq(b, 1, k + 2 - 1)
          <5> PICK u : u = SubSeq(b, 1, k - 1)
            OBVIOUS
          <5>1. Append(u, 0) = SubSeq(b, 1, k) /\ u \in Seq(Byte)
            BY ONLY <3>2, <3>1, <3>3, u = SubSeq(b, 1, k - 1)
          <5>2. PICK j \in 1..l : j = k + 1
            BY ONLY <4>1
          <5>3. Append(SubSeq(b, 1, j - 1), b[j]) = SubSeq(b, 1, j)
            BY ONLY <2>2, <2>6, PrefixGrows
          <5>4. j - 1 = k /\ b[j] = 0 /\ k + 2 - 1 = j
            BY ONLY <5>2, <4>1, <3>1
          <5>5. Append(Append(u, 0), 0) = SubSeq(b, 1, j)
            BY ONLY <5>1, <5>3, <5>4
          <5>6. u \o <<0, 0>> = Append(Append(u, 0), 0)
            BY ONLY <5>1
          <5>7. QED
            BY ONLY <5>4, <5>5, <5>6, <4>3, <2>3, u = SubSeq(b, 1, k - 1)
        <4>5. InBody(t, S, B, bs, d, k + 2)
          <5>1. S + t.at = B[d] + 1 + (k + 2)
            <6>1. t.at = at + 2 /\ P = c + 1 + k
              BY ONLY <4>3, <2>3
            <6>2. QED
              BY ONLY <6>1, <1>p, k \in Nat
          <5>2. t.found /\ S + t.done = B[d] /\ Track(b, T) /\ k + 2 \in T
            BY ONLY <4>1, <4>3, <2>3, <2>4, <1>0
          <5>3. QED
            BY ONLY <5>1, <5>2, <4>4, <2>2 DEF InBody
        <4>6. ScanAt(t, S, B, bs, N, d)
          <5>1. k + 2 \in Nat
            OBVIOUS
          <5>2. QED
            BY ONLY <5>1, <4>5, <1>9 DEF ScanAt
        <4>7. t.at <= L
          BY ONLY <4>3, <1>0, <1>1, <1>b, s.at <= L - 2
        <4>8. Delivered(t.out, D, d, bs, n)
          BY ONLY <4>3, <1>e
        <4>9. QED
          BY ONLY <1>0, <1>D, <4>6, <4>7, <4>8 DEF Scan
      <3>4. CASE x # 0
        <4>1. k + 1 \in T
          BY ONLY <3>1, <3>4, <2>7, <2>11
        <4>2. /\ t.at = at + 1 /\ t.found /\ t.done = s.done /\ t.out = s.out
              /\ t.data = Append(s.data, x)
          <5>1. CASE x = 255 /\ y # 255
            BY ONLY <5>1, <1>D, <2>3
          <5>2. CASE ~(x = 255 /\ y # 255)
            BY ONLY <5>2, <3>4, <1>D, <2>3
          <5>3. QED
            BY ONLY <5>1, <5>2
        <4>4. t.data = SubSeq(b, 1, k + 1 - 1)
          <5>1. k + 1 - 1 = k
            OBVIOUS
          <5>2. QED
            BY ONLY <5>1, <4>2, <3>1, <3>2, <2>3
        <4>5. InBody(t, S, B, bs, d, k + 1)
          <5>1. S + t.at = B[d] + 1 + (k + 1)
            <6>1. t.at = at + 1 /\ P = c + 1 + k
              BY ONLY <4>2, <2>3
            <6>2. QED
              BY ONLY <6>1, <1>p, k \in Nat
          <5>2. t.found /\ S + t.done = B[d] /\ Track(b, T) /\ k + 1 \in T
            BY ONLY <4>1, <4>2, <2>3, <2>4, <1>0
          <5>3. QED
            BY ONLY <5>1, <5>2, <4>4, <2>2 DEF InBody
        <4>6. ScanAt(t, S, B, bs, N, d)
          <5>1. k + 1 \in Nat
            OBVIOUS
          <5>2. QED
            BY ONLY <5>1, <4>5, <1>9 DEF ScanAt
        <4>7. t.at <= L
          BY ONLY <4>2, <1>0, <1>1, <1>b, s.at <= L - 2
        <4>8. Delivered(t.out, D, d, bs, n)
          BY ONLY <4>2, <1>e
        <4>9. QED
          BY ONLY <1>0, <1>D, <4>6, <4>7, <4>8 DEF Scan
      <3>5. QED
        BY ONLY <3>3, <3>4
    <2>12. QED
      BY ONLY <2>8, <2>10, <2>11, <2>6
  <1>10. QED
    BY ONLY <1>6, <1>7, <1>8, <1>9, <1>d DEF ScanAt
(* A loop over D that goes on from n to next[n] until it is in Stop.       *)
Loop(D, Stop, next, rank, B) ==
  /\ B \in Nat /\ rank \in [D -> Nat] /\ \A n \in D : rank[n] <= B
  /\ \A n \in D : n \notin Stop => next[n] \in D /\ rank[next[n]] < rank[n]

(* There is a function that tells where it stops.                          *)
LEMMA LoopExists ==
  ASSUME NEW D, NEW Stop, NEW next, NEW rank, NEW B, Loop(D, Stop, next, rank, B)
  PROVE  \E f : f = [n \in D |-> IF n \in Stop THEN n ELSE f[next[n]]]
  <1> DEFINE base == [n \in D |-> n]
             op == [y \in D \X D |-> y[2]]
  <1>1. Recursion(D, D, Stop, next, base, op, rank, B)
    <2>1. op \in [D \X D -> D] /\ \A n \in D : n \in Stop => base[n] \in D
      OBVIOUS
    <2> HIDE DEF op, base
    <2>2. QED
      BY ONLY <2>1, Loop(D, Stop, next, rank, B) DEF Loop, Recursion
  <1>2. PICK f \in [D -> D] : f = [n \in D |-> IF n \in Stop THEN base[n] ELSE op[<<n, f[next[n]]>>]]
    <2> HIDE DEF op, base
    <2> QED BY ONLY <1>1, RecursionExists
  <1>3. ASSUME NEW n \in D
        PROVE  (IF n \in Stop THEN base[n] ELSE op[<<n, f[next[n]]>>])
                 = IF n \in Stop THEN n ELSE f[next[n]]
    <2>1. CASE n \in Stop
      BY ONLY <2>1, n \in D
    <2>2. CASE n \notin Stop
      <3>1. next[n] \in D
        BY ONLY <2>2, n \in D, Loop(D, Stop, next, rank, B) DEF Loop
      <3>2. f[next[n]] \in D
        BY ONLY <3>1, f \in [D -> D]
      <3>3. op[<<n, f[next[n]]>>] = f[next[n]]
        BY ONLY <3>2, n \in D
      <3> HIDE DEF op, base
      <3>4. QED
        BY ONLY <2>2, <3>3
    <2>3. QED
      BY ONLY <2>1, <2>2
  <1>4. f = [n \in D |-> IF n \in Stop THEN n ELSE f[next[n]]]
    <2> HIDE DEF op, base
    <2> QED BY ONLY <1>2, <1>3
  <1>5. QED
    BY ONLY <1>4

(* What each turn keeps holds where it stops.                              *)
LEMMA LoopKeeps ==
  ASSUME NEW D, NEW Stop, NEW next, NEW rank, NEW B, Loop(D, Stop, next, rank, B),
         NEW f, f = [n \in D |-> IF n \in Stop THEN n ELSE f[next[n]]],
         NEW G, G \subseteq D, \A n \in G : n \notin Stop => next[n] \in G, NEW a \in G
  PROVE  f[a] \in G /\ f[a] \in Stop
  <1> DEFINE C == {n \in G : ~(f[n] \in G /\ f[n] \in Stop)}
  <1>1. SUFFICES ASSUME C # {} PROVE FALSE
    OBVIOUS
  <1>2. PICK n \in C : \A m \in C : rank[n] <= rank[m]
    <2>1. C \subseteq D /\ rank \in [D -> Nat]
      BY ONLY G \subseteq D, Loop(D, Stop, next, rank, B) DEF Loop
    <2> HIDE DEF C
    <2>2. QED
      BY ONLY <1>1, <2>1, LeastRank
  <1>3. n \in D /\ n \in G
    BY ONLY G \subseteq D, n \in C
  <1>4. f[n] = IF n \in Stop THEN n ELSE f[next[n]]
    BY ONLY <1>3, f = [m \in D |-> IF m \in Stop THEN m ELSE f[next[m]]]
  <1>5. n \notin Stop
    BY ONLY <1>3, <1>4, n \in C
  <1>6. next[n] \in G /\ rank[next[n]] < rank[n] /\ next[n] \in D
    BY ONLY <1>3, <1>5, Loop(D, Stop, next, rank, B), \A m \in G : m \notin Stop => next[m] \in G DEF Loop
  <1>7. next[n] \in C
    BY ONLY <1>4, <1>5, <1>6, n \in C
  <1>8. rank[n] <= rank[next[n]] /\ rank[n] \in Nat /\ rank[next[n]] \in Nat
    <2> HIDE DEF C
    <2> QED BY ONLY <1>2, <1>3, <1>6, <1>7, Loop(D, Stop, next, rank, B) DEF Loop
  <1>9. QED
    BY ONLY <1>6, <1>8

(* What the loop of OnExecute leaves: it has given away every frame that   *)
(* is whole, and less than a frame is left in the ring.                    *)
Left3(S, L, r, B, d) == S + r.done = B[d] - 2 /\ L <= r.done + 3
Detected(r, S, L, bs, N, B, D, d) ==
  /\ r.out \in Seq(Seq(Byte)) /\ r.done \in 0..L
  /\ \E n : Delivered(r.out, D, d, bs, n)
  /\ S + r.done = B[d] \/ (d >= 1 /\ Left3(S, L, r, B, d))
  /\ d < N => S + L < B[d + 1]

(* On a window of the stream DetectMessages cuts out whole frames.         *)
LEMMA DetectsFrames ==
  ASSUME NEW bs, NEW N, NEW B, NEW X, Stream(bs, N, B, X),
         NEW W, NEW S, NEW L, Window(W, X, S, L), L >= 1, NEW D \in 0..N,
         S = B[D] \/ (D >= 1 /\ S = B[D] - 2)
  PROVE  \E d \in D..N : Detected(DetectMessages(W), S, L, bs, N, B, D, d)
  <1>a. /\ N \in Nat /\ B \in [0..N -> Nat] /\ X \in Seq(Byte) /\ Len(X) = B[N]
    BY ONLY Stream(bs, N, B, X) DEF Stream
  <1>b. W \in Seq(Byte) /\ Len(W) = L /\ S \in Nat /\ L \in Nat
    BY ONLY Window(W, X, S, L) DEF Window
  <1> DEFINE Stop == {s \in ScanStates : s.at > L - 2}
             next == [s \in ScanStates |-> Detect(W, s)]
             rank == [s \in ScanStates |-> IF s.at > L - 2 THEN 0 ELSE L - s.at]
             first == [at |-> 1, found |-> FALSE, data |-> <<>>, done |-> 0, out |-> <<>>]
             Eq(g) == g = [s \in ScanStates |-> IF s.at > L - 2 THEN s ELSE g[Detect(W, s)]]
             run == CHOOSE g : Eq(g)
             G == {s \in ScanStates : Scan(s, S, L, bs, N, B, D)}
  <1>1. Loop(ScanStates, Stop, next, rank, L)
    <2>0. \A s \in ScanStates : s.at \in Nat \ {0}
      BY DEF ScanStates
    <2>1. rank \in [ScanStates -> Nat] /\ \A s \in ScanStates : rank[s] <= L
      BY ONLY <2>0, <1>b
    <2>2. ASSUME NEW s \in ScanStates, s \notin Stop
          PROVE  next[s] \in ScanStates /\ rank[next[s]] < rank[s]
      <3>1. s.at <= L - 2 /\ s.at \in Nat \ {0}
        BY ONLY <2>2, <2>0, <1>b
      <3>2. PICK t, x, y : t = Detect(W, s) /\ x = W[s.at] /\ y = W[s.at + 1]
        OBVIOUS
      <3>3. DetectStep(s, t, x, y)
        BY ONLY <3>1, <3>2, <1>b, DetectIs, s \in ScanStates
      <3>4. t \in ScanStates /\ (t.at = s.at + 1 \/ t.at = s.at + 2)
        BY ONLY <3>3 DEF DetectStep
      <3>5. rank[s] = L - s.at
        BY ONLY <3>1, <1>b, s \in ScanStates
      <3>6. rank[t] = IF t.at > L - 2 THEN 0 ELSE L - t.at
        BY ONLY <3>4
      <3>7. next[s] = t
        BY ONLY <3>2, s \in ScanStates
      <3> HIDE DEF rank, next
      <3>8. QED
        BY ONLY <3>1, <3>4, <3>5, <3>6, <3>7, <1>b
    <2> HIDE DEF Stop, next, rank
    <2>3. QED
      BY ONLY <1>b, <2>1, <2>2 DEF Loop
  <1>2. Eq(run)
    <2>1. PICK f : f = [s \in ScanStates |-> IF s \in Stop THEN s ELSE f[next[s]]]
      <3> HIDE DEF Stop, next, rank
      <3> QED BY ONLY <1>1, LoopExists
    <2>2. \A s \in ScanStates : (IF s \in Stop THEN s ELSE f[next[s]])
                                = IF s.at > L - 2 THEN s ELSE f[Detect(W, s)]
      OBVIOUS
    <2>3. Eq(f)
      <3> HIDE DEF Stop, next
      <3> QED BY ONLY <2>1, <2>2
    <2> HIDE DEF Eq
    <2>4. QED
      BY ONLY <2>3
  <1>3. run = [s \in ScanStates |-> IF s \in Stop THEN s ELSE run[next[s]]]
    <2>0. PICK g : g = run
      OBVIOUS
    <2>1. \A s \in ScanStates : (IF s \in Stop THEN s ELSE g[next[s]])
                                = IF s.at > L - 2 THEN s ELSE g[Detect(W, s)]
      OBVIOUS
    <2>2. g = [s \in ScanStates |-> IF s.at > L - 2 THEN s ELSE g[Detect(W, s)]]
      BY ONLY <1>2, <2>0
    <2>3. g = [s \in ScanStates |-> IF s \in Stop THEN s ELSE g[next[s]]]
      <3> HIDE DEF Stop, next
      <3> QED BY ONLY <2>1, <2>2
    <2> HIDE DEF run
    <2>4. QED
      BY ONLY <2>0, <2>3
  <1>4. DetectMessages(W) = run[first]
    BY ONLY <1>b DEF DetectMessages, ScanStates
  <1>5. first \in G
    <2>1. first \in ScanStates
      <3>1. <<>> \in Seq(Byte) /\ <<>> \in Seq(Seq(Byte)) /\ 1 \in Nat \ {0} /\ 0 \in Nat
        OBVIOUS
      <3>2. QED
        BY ONLY <3>1 DEF ScanStates
    <2>2. first.at = 1 /\ first.found = FALSE /\ first.data = <<>> /\ first.done = 0 /\ first.out = <<>>
      OBVIOUS
    <2> PICK s : s = first
      OBVIOUS
    <2>3. s \in ScanStates /\ s.at = 1 /\ ~s.found /\ s.data = <<>> /\ s.done = 0 /\ s.out = <<>>
      <3> HIDE DEF first
      <3> QED BY ONLY <2>1, <2>2, s = first
    <2>4. D \in D..N /\ B[D] \in Nat /\ D \in Nat
      BY ONLY <1>a, D \in 0..N
    <2>5. ScanAt(s, S, B, bs, N, D)
      <3>1. CASE S = B[D]
        <4>1. S + 1 = B[D] + 1 /\ S + 0 = B[D]
          BY ONLY <3>1, <1>b, <2>4
        <4>2. QED
          BY ONLY <4>1, <2>3 DEF ScanAt, AtMark
      <3>2. CASE D >= 1 /\ S = B[D] - 2
        <4>1. S + 1 = B[D] - 1 /\ S + 0 = B[D] - 2
          BY ONLY <3>2, <1>b, <2>4
        <4>2. QED
          BY ONLY <4>1, <2>3, <3>2 DEF ScanAt, AtEnd
      <3>3. QED
        BY ONLY <3>1, <3>2, S = B[D] \/ (D >= 1 /\ S = B[D] - 2)
    <2>6. \E n : Delivered(s.out, D, D, bs, n)
      <3> DEFINE n == [i \in 0..0 |-> D]
      <3>1. Len(s.out) = 0
        BY ONLY <2>3
      <3>2. n \in [0..0 -> D..D] /\ n[0] = D
        BY ONLY <2>4
      <3> HIDE DEF n
      <3>3. Delivered(s.out, D, D, bs, n)
        BY ONLY <3>1, <3>2 DEF Delivered
      <3>4. QED
        BY ONLY <3>3
    <2>7. Scan(s, S, L, bs, N, B, D)
      BY ONLY <2>3, <2>4, <2>5, <2>6, L >= 1 DEF Scan
    <2>8. s \in G
      BY ONLY <2>3, <2>7
    <2>9. QED
      <3> HIDE DEF first, G
      <3> QED BY ONLY <2>8, s = first
  <1>6. \A s \in G : s \notin Stop => next[s] \in G
    <2> SUFFICES ASSUME NEW s \in G, s \notin Stop PROVE next[s] \in G
      OBVIOUS
    <2>1. s \in ScanStates /\ Scan(s, S, L, bs, N, B, D) /\ ~(s.at > L - 2)
      OBVIOUS
    <2>2. s.at <= L - 2
      BY ONLY <2>1, <1>b DEF ScanStates
    <2>3. Scan(Detect(W, s), S, L, bs, N, B, D)
      BY ONLY <2>1, <2>2, DetectKeeps, Stream(bs, N, B, X), Window(W, X, S, L), D \in 0..N
    <2>4. Detect(W, s) \in ScanStates
      BY ONLY <2>3 DEF Scan
    <2>5. next[s] = Detect(W, s)
      BY ONLY <2>1
    <2>6. next[s] \in G
      <3> HIDE DEF next
      <3> QED BY ONLY <2>3, <2>4, <2>5
    <2>7. QED
      BY ONLY <2>6
  <1>7. run[first] \in G /\ run[first] \in Stop
    <2>1. G \subseteq ScanStates
      OBVIOUS
    <2> HIDE DEF Stop, next, rank, G, run, first
    <2>2. QED
      BY ONLY <1>1, <1>3, <1>5, <1>6, <2>1, LoopKeeps
  <1> PICK r : r = run[first]
    OBVIOUS
  <1>8. r \in ScanStates /\ r.at > L - 2 /\ Scan(r, S, L, bs, N, B, D)
    <2> HIDE DEF run, first
    <2> QED BY ONLY <1>7, r = run[first]
  <1>9. \E d \in D..N : Detected(r, S, L, bs, N, B, D, d)
    <2>1. PICK d \in D..N : ScanAt(r, S, B, bs, N, d) /\ \E n : Delivered(r.out, D, d, bs, n)
      BY ONLY <1>8 DEF Scan
    <2> PICK at, done, c : at = r.at /\ done = r.done /\ c = B[d]
      OBVIOUS
    <2>2. at = r.at /\ done = r.done /\ c = B[d]
      OBVIOUS
    <2>3. at \in Nat /\ done \in Nat /\ r.out \in Seq(Seq(Byte)) /\ at > L - 2 /\ at <= L
      BY ONLY <1>8, <2>2 DEF Scan, ScanStates
    <2>4. d \in 0..N /\ c \in Nat
      BY ONLY <1>a, <2>2, D \in 0..N, d \in D..N
    <2>5. ASSUME d < N
          PROVE  bs[d + 1] \in Seq(Byte) /\ B[d + 1] = c + Len(bs[d + 1]) + 4
      <3>1. PICK f \in 1..N : f = d + 1
        BY ONLY <2>5, <2>4, <1>a
      <3>2. IsBody(bs[f]) /\ B[f] = B[f - 1] + Len(bs[f]) + 4
        BY ONLY Stream(bs, N, B, X) DEF Stream
      <3>3. f - 1 = d
        BY ONLY <3>1, <2>4
      <3>4. QED
        BY ONLY <3>1, <3>2, <3>3, <2>2 DEF IsBody
    <2>6. /\ done \in 0..L
          /\ S + done = c \/ (d >= 1 /\ S + done = c - 2 /\ L <= done + 3)
          /\ d < N => S + L < B[d + 1]
      <3>1. CASE AtMark(r, S, B, d)
        <4>1. S + at = c + 1 /\ S + done = c
          BY ONLY <3>1, <2>2 DEF AtMark
        <4>2. ASSUME d < N PROVE S + L < B[d + 1]
          <5>1. PICK l, e : l = Len(bs[d + 1]) /\ e = B[d + 1]
            OBVIOUS
          <5>2. l \in Nat /\ e = c + l + 4
            BY ONLY <5>1, <4>2, <2>5
          <5>3. S + L < e
            BY ONLY <5>2, <4>1, <2>3, <2>4, <1>b
          <5>4. QED
            BY ONLY <5>1, <5>3
        <4>3. done \in 0..L
          BY ONLY <4>1, <2>3, <2>4, <1>b
        <4>4. QED
          BY ONLY <4>1, <4>2, <4>3
      <3>2. CASE d < N /\ \E k \in Nat : InBody(r, S, B, bs, d, k)
        <4>1. PICK k \in Nat : InBody(r, S, B, bs, d, k)
          BY ONLY <3>2
        <4>2. S + at = c + 1 + k /\ S + done = c
          BY ONLY <4>1, <2>2 DEF InBody
        <4>3. PICK l, e : l = Len(bs[d + 1]) /\ e = B[d + 1]
          OBVIOUS
        <4>4. l \in Nat /\ e = c + l + 4
          BY ONLY <4>3, <3>2, <2>5
        <4>5. k <= l + 1 /\ k >= 1
          <5>1. PICK T : Track(bs[d + 1], T) /\ k \in T
            BY ONLY <4>1 DEF InBody
          <5>2. k \in 1..l + 1
            BY ONLY <5>1, <4>3 DEF Track
          <5>3. QED
            BY ONLY <5>2, <4>4
        <4>6. S + L < e /\ done \in 0..L
          BY ONLY <4>2, <4>4, <4>5, <2>3, <2>4, <1>b, k \in Nat
        <4>7. QED
          BY ONLY <4>2, <4>3, <4>6
      <3>3. CASE d >= 1 /\ (AtEnd(r, S, B, d) \/ AtZero(r, S, B, d))
        <4>1. (S + at = c - 1 \/ S + at = c) /\ S + done = c - 2
          BY ONLY <3>3, <2>2 DEF AtEnd, AtZero
        <4>2. ASSUME d < N PROVE S + L < B[d + 1]
          <5>1. PICK l, e : l = Len(bs[d + 1]) /\ e = B[d + 1]
            OBVIOUS
          <5>2. l \in Nat /\ e = c + l + 4
            BY ONLY <5>1, <4>2, <2>5
          <5>3. S + L < e
            BY ONLY <5>2, <4>1, <2>3, <2>4, <1>b
          <5>4. QED
            BY ONLY <5>1, <5>3
        <4>3. done \in 0..L /\ L <= done + 3
          BY ONLY <4>1, <2>3, <2>4, <1>b
        <4>4. QED
          BY ONLY <4>1, <4>2, <4>3, <3>3
      <3>4. QED
        BY ONLY <3>1, <3>2, <3>3, <2>1 DEF ScanAt
    <2>7. Detected(r, S, L, bs, N, B, D, d)
      BY ONLY <2>1, <2>2, <2>3, <2>6 DEF Detected, Left3
    <2>8. QED
      BY ONLY <2>7
  <1>10. QED
    <2> HIDE DEF run, first
    <2> QED BY ONLY <1>4, <1>9, r = run[first]-----------------------------------------------------------------------------
(* What the server does with the messages.                                 *)

Receiver == {r \in [name : Seq(Byte), pipe : Seq(Byte)] : FifoOf(r.pipe) # {}}
Message == [type : Int, sender : Int, mid : Int, data : Seq(Byte)]
Ask == [name : Topics, data : Payloads]

(* The messages and the calls of Send they come from: up to message i are  *)
(* q[i] calls.                                                             *)
Asks(m, i, as, q) ==
  IF m.type = TYPE_MESSAGE
  THEN q[i] = q[i - 1] + 1 /\ m.data = as[q[i]].name \o <<AT>> \o as[q[i]].data
  ELSE q[i] = q[i - 1] /\ m.data \in Registrations
Linked(ms, as, q) ==
  /\ Len(ms) \in Nat /\ as \in Seq(Ask)
  /\ q \in [0..Len(ms) -> 0..Len(as)] /\ q[0] = 0 /\ q[Len(ms)] = Len(as)
  /\ \A i \in 1..Len(ms) : Sendable(ms[i]) /\ Asks(ms[i], i, as, q)

(* A state of the server that has dispatched j messages and has left what  *)
(* is in its fifo alone.                                                   *)
IsState(s) ==
  s = [fifo |-> s.fifo, reader |-> s.reader, receivers |-> s.receivers, topic |-> s.topic,
       dispatched |-> s.dispatched, published |-> s.published, replies |-> s.replies]
Fifos(f) == f = [x \in Plugins \cup {Server} |-> f[x]]
Reads(r) == DOMAIN r = Plugins \cup {Server} /\ r[Server] = "open"
Serves(s, fs) ==
  /\ IsState(s) /\ Fifos(s.fifo) /\ s.fifo[Server] = fs /\ s.receivers \in Seq(Receiver)
  /\ Reads(s.reader)
PublishedUpTo(pub, as, n) ==
  /\ pub \in Seq(Ask) /\ Len(pub) = n /\ \A i \in 1..n : pub[i] = as[i]
Served(s, fs, j, as, q) ==
  /\ Serves(s, fs)
  /\ s.dispatched \in Seq(Message) /\ Len(s.dispatched) = j
  /\ PublishedUpTo(s.published, as, q[j])

(* What ReadMessage makes of the content of a frame.                       *)
LEMMA ReadIs ==
  ASSUME NEW m, Sendable(m), NEW r, r = ReadMessage(Content(m))
  PROVE  r \in Message /\ r.type = m.type /\ r.data = m.data
  <1> PICK c, l : c = Content(m) /\ l = Len(c)
    OBVIOUS
  <1>1. /\ c \in Seq(Byte) /\ l = 7 + Len(m.data) /\ c[1] = m.type /\ SubSeq(c, 7 + 1, l) = m.data
    BY ONLY c = Content(m) /\ l = Len(c), Sendable(m), BodyIs DEF HeaderLen
  <1>2. m.data \in Seq(Byte) /\ Len(m.data) \in Nat
    BY ONLY Sendable(m) DEF Sendable
  <1>3. l \in Nat /\ l >= 7
    BY ONLY <1>1, <1>2
  <1>4. \A i \in 1..7 : c[i] \in Byte
    BY ONLY <1>1, <1>3, c = Content(m) /\ l = Len(c)
  <1>5. \A x, y \in Byte : x * 256 + y \in Int
    BY DEF Byte
  <1> PICK u, v : u = SubSeq(c, 2, 3) /\ v = SubSeq(c, 4, 7)
    OBVIOUS
  <1>6. u[1] \in Byte /\ u[2] \in Byte
    <2>1. u[1] = c[2] /\ u[2] = c[3]
      BY ONLY <1>1, <1>3, u = SubSeq(c, 2, 3) /\ v = SubSeq(c, 4, 7), c = Content(m) /\ l = Len(c)
    <2>2. QED
      BY ONLY <2>1, <1>4
  <1>7. v \in Seq(Byte) /\ Len(v) = 4 /\ v[1] \in Byte /\ v[2] \in Byte /\ v[3] \in Byte /\ v[4] \in Byte
    <2>1. /\ v \in Seq(Byte) /\ Len(v) = 4
          /\ v[1] = c[4] /\ v[2] = c[5] /\ v[3] = c[6] /\ v[4] = c[7]
      BY ONLY <1>1, <1>3, u = SubSeq(c, 2, 3) /\ v = SubSeq(c, 4, 7), c = Content(m) /\ l = Len(c)
    <2>2. QED
      BY ONLY <2>1, <1>4
  <1> PICK w : w = SubSeq(v, 3, 4)
    OBVIOUS
  <1>8. w[1] \in Byte /\ w[2] \in Byte
    BY ONLY <1>7, w = SubSeq(v, 3, 4)
  <1>9. ReadShort(u) \in Int
    BY ONLY <1>5, <1>6 DEF ReadShort
  <1>10. ReadInt(v) \in Int
    <2>1. ReadShort(v) \in Int /\ ReadShort(w) \in Int
      <3>1. v[1] \in Byte /\ v[2] \in Byte /\ w[1] \in Byte /\ w[2] \in Byte
        BY ONLY <1>7, <1>8
      <3>2. v[1] * 256 + v[2] \in Int /\ w[1] * 256 + w[2] \in Int
        BY ONLY <3>1, <1>5, Zenon
      <3>3. QED
        BY ONLY <3>2 DEF ReadShort
    <2>2. QED
      BY ONLY <2>1, w = SubSeq(v, 3, 4) DEF ReadInt
  <1>11. r = PMessage(c[1], ReadShort(u), ReadInt(v), m.data)
    BY ONLY <1>1, r = ReadMessage(Content(m)), c = Content(m) /\ l = Len(c),
            u = SubSeq(c, 2, 3) /\ v = SubSeq(c, 4, 7) DEF ReadMessage, HeaderLen
  <1>12. c[1] \in Int
    <2>1. c[1] \in Byte
      BY ONLY <1>4
    <2>2. QED
      BY ONLY <2>1 DEF Byte
  <1>13. QED
    BY ONLY <1>1, <1>2, <1>9, <1>10, <1>11, <1>12 DEF PMessage, Message

(* Split finds the topic and the data that Send puts together.             *)
LEMMA SplitIs ==
  ASSUME NEW name \in Topics, NEW data \in Payloads
  PROVE  Split(name \o <<AT>> \o data) = [ok |-> TRUE, name |-> name, rest |-> data]
  <1> PICK n, l, t, z : n = Len(name) /\ l = Len(data) /\ t = name \o <<AT>> /\ z = t \o data
    OBVIOUS
  <1>0. n = Len(name) /\ l = Len(data) /\ t = name \o <<AT>> /\ z = t \o data
    OBVIOUS
  <1>1. /\ name \in Seq(Byte) /\ name # <<>> /\ (\A i \in 1..n : name[i] # AT)
        /\ data \in Seq(Byte) /\ data # <<>>
    BY ONLY <1>0, PipeAssumption, name \in Topics, data \in Payloads DEF PipeAssumption, IsString
  <1>2. n \in Nat /\ n >= 1 /\ l \in Nat /\ l >= 1
    BY ONLY <1>0, <1>1
  <1>3. /\ t \in Seq(Byte) /\ Len(t) = n + 1
        /\ \A i \in 1..n : t[i] = name[i]
        /\ t[n + 1] = AT
    <2>1. <<AT>> \in Seq(Byte) /\ Len(<<AT>>) = 1 /\ <<AT>>[1] = AT
      BY DEF AT, Byte
    <2> PICK k : k = <<AT>>
      OBVIOUS
    <2>2. /\ name \o k \in Seq(Byte) /\ Len(name \o k) = Len(name) + Len(k)
          /\ \A i \in 1..Len(name) : (name \o k)[i] = name[i]
          /\ \A i \in 1..Len(k) : (name \o k)[Len(name) + i] = k[i]
      <3>1. name \in Seq(Byte) /\ k \in Seq(Byte)
        BY ONLY <2>1, k = <<AT>>, <1>1
      <3>2. QED
        BY ONLY <3>1, Together, Zenon
    <2>3. /\ t \in Seq(Byte) /\ Len(t) = n + Len(k)
          /\ \A i \in 1..n : t[i] = name[i]
          /\ \A i \in 1..Len(k) : t[n + i] = k[i]
      BY ONLY <2>2, <1>0, k = <<AT>>, Zenon
    <2>4. Len(k) = 1 /\ k[1] = AT
      BY ONLY <2>1, k = <<AT>>
    <2>5. QED
      BY ONLY <2>3, <2>4
  <1>4. /\ z \in Seq(Byte) /\ Len(z) = n + 1 + l
        /\ \A i \in 1..n + 1 : z[i] = t[i]
        /\ \A i \in 1..l : z[n + 1 + i] = data[i]
    <2>1. /\ t \o data \in Seq(Byte) /\ Len(t \o data) = Len(t) + Len(data)
          /\ \A i \in 1..Len(t) : (t \o data)[i] = t[i]
          /\ \A i \in 1..Len(data) : (t \o data)[Len(t) + i] = data[i]
      BY ONLY <1>1, <1>3, Together, Zenon
    <2>2. Len(t) = n + 1 /\ Len(data) = l /\ z = t \o data
      BY ONLY <1>0, <1>3
    <2>3. QED
      BY ONLY <2>1, <2>2
  <1> DEFINE ats == {i \in DOMAIN z : z[i] = AT}
  <1>5. n + 1 \in ats /\ \A j \in ats : n + 1 <= j
    <2>1. DOMAIN z = 1..n + 1 + l
      BY ONLY <1>4
    <2>2. n + 1 \in ats
      BY ONLY <2>1, <1>2, <1>3, <1>4
    <2>3. ASSUME NEW j \in ats, j < n + 1 PROVE FALSE
      <3>1. j \in 1..n /\ z[j] = AT
        BY ONLY <2>1, <2>3, <1>2
      <3>2. z[j] = name[j]
        BY ONLY <3>1, <1>2, <1>3, <1>4
      <3>3. QED
        BY ONLY <3>1, <3>2, <1>1
    <2>4. \A j \in ats : j \in Nat
      BY ONLY <2>1
    <2> HIDE DEF ats
    <2>5. QED
      BY ONLY <2>2, <2>3, <2>4, <1>2
  <1> DEFINE at == CHOOSE i \in ats : \A j \in ats : i <= j
  <1>6. at = n + 1
    <2>1. at \in ats /\ \A j \in ats : at <= j
      <3> HIDE DEF ats
      <3> QED BY ONLY <1>5
    <2>2. at \in Nat
      BY ONLY <2>1, <1>4
    <2> HIDE DEF at, ats
    <2>3. at <= n + 1 /\ n + 1 <= at
      BY ONLY <2>1, <1>5
    <2>4. QED
      BY ONLY <2>2, <2>3, <1>2
  <1>7. at # 1 /\ at # Len(z)
    <2> HIDE DEF at
    <2> QED BY ONLY <1>6, <1>2, <1>4
  <1>8. SubSeq(z, 1, at - 1) = name
    <2> PICK u : u = SubSeq(z, 1, n)
      OBVIOUS
    <2>1. u \in Seq(Byte) /\ Len(u) = n /\ \A i \in 1..n : u[i] = z[i]
      BY ONLY <1>2, <1>4, u = SubSeq(z, 1, n)
    <2>2. \A i \in 1..n : z[i] = name[i]
      BY ONLY <1>2, <1>3, <1>4
    <2>3. u = name
      BY ONLY <2>1, <2>2, <1>0, <1>1, SeqEqual
    <2>4. at - 1 = n
      <3> HIDE DEF at
      <3> QED BY ONLY <1>6, <1>2
    <2> HIDE DEF at
    <2>5. QED
      BY ONLY <2>3, <2>4, u = SubSeq(z, 1, n)
  <1>9. SubSeq(z, at + 1, Len(z)) = data
    <2> PICK u : u = SubSeq(z, n + 2, n + 1 + l)
      OBVIOUS
    <2>1. u \in Seq(Byte) /\ Len(u) = l /\ \A i \in 1..l : u[i] = z[n + 1 + i]
      <3> PICK e, f : e = n + 2 /\ f = n + 1 + l
        OBVIOUS
      <3>1. e = n + 2 /\ f = n + 1 + l /\ e \in Nat /\ f \in Nat /\ 1 <= e /\ e <= f /\ f - e + 1 = l
        BY ONLY <1>2, e = n + 2 /\ f = n + 1 + l
      <3>2. u = SubSeq(z, e, f) /\ Len(z) = f
        BY ONLY <3>1, <1>4, u = SubSeq(z, n + 2, n + 1 + l)
      <3>3. u \in Seq(Byte) /\ Len(u) = f - e + 1 /\ \A i \in 1..f - e + 1 : u[i] = z[e + i - 1]
        <4>1. z \in Seq(Byte)
          BY ONLY <1>4
        <4>2. QED
          BY ONLY <4>1, <3>1, <3>2
      <3>4. \A i \in 1..l : e + i - 1 = n + 1 + i
        BY ONLY <3>1, <1>2
      <3>5. QED
        BY ONLY <3>1, <3>3, <3>4
    <2>2. \A i \in 1..l : u[i] = data[i]
      BY ONLY <2>1, <1>4
    <2>3. u = data
      BY ONLY <2>1, <2>2, <1>0, <1>1, SeqEqual
    <2>4. at + 1 = n + 2 /\ Len(z) = n + 1 + l
      <3> HIDE DEF at
      <3> QED BY ONLY <1>6, <1>2, <1>4
    <2> HIDE DEF at
    <2>5. QED
      BY ONLY <2>3, <2>4, u = SubSeq(z, n + 2, n + 1 + l)
  <1>10. ats # {}
    <2> HIDE DEF ats
    <2> QED BY ONLY <1>5
  <1>11. Split(z) = IF ats = {} THEN [ok |-> FALSE]
                    ELSE IF at = 1 \/ at = Len(z) THEN [ok |-> FALSE]
                         ELSE [ok |-> TRUE, name |-> SubSeq(z, 1, at - 1), rest |-> SubSeq(z, at + 1, Len(z))]
    BY DEF Split
  <1>12. Split(z) = [ok |-> TRUE, name |-> name, rest |-> data]
    <2> HIDE DEF ats, at
    <2> QED BY ONLY <1>7, <1>8, <1>9, <1>10, <1>11
  <1>13. QED
    BY ONLY <1>0, <1>12
(* What the loop takes for an empty message is dropped.                    *)
LEMMA DeliverNothing ==
  ASSUME NEW s
  PROVE  OnPipeMessage(s, <<>>) = s
  <1>1. CountDoubled(<<>>) = 0
    <2>1. {i \in 1..Len(<<>>) : <<>>[i] \in Doubled} = {}
      OBVIOUS
    <2>2. QED
      BY ONLY <2>1, FS_EmptySet DEF CountDoubled
  <1>2. GetDecodeLength(<<>>) = 0
    BY ONLY <1>1 DEF GetDecodeLength
  <1>3. Decode(<<>>) = <<>>
    BY ONLY <1>2 DEF Decode
  <1>4. Len(<<>>) < 7
    OBVIOUS
  <1>5. QED
    BY ONLY <1>3, <1>4 DEF OnPipeMessage, HeaderLen

(* A body is decoded and dispatched.                                       *)
LEMMA DeliverBody ==
  ASSUME NEW m, Sendable(m), NEW s
  PROVE  OnPipeMessage(s, Body(m)) = DispatchMessage(s, ReadMessage(Content(m)))
  <1>1. PICK c : IsCode(Body(m), Content(m), c)
    BY ONLY Sendable(m), BodyIs
  <1>2. Content(m) \in Seq(Byte) /\ Len(Content(m)) = HeaderLen + Len(m.data)
    BY ONLY Sendable(m), BodyIs
  <1>3. Len(m.data) \in Nat
    BY ONLY Sendable(m) DEF Sendable
  <1> PICK b, d : b = Body(m) /\ d = Content(m)
    OBVIOUS
  <1>4. Len(d) >= 7 /\ d # <<>>
    BY ONLY <1>2, <1>3, b = Body(m) /\ d = Content(m) DEF HeaderLen
  <1>5. Decode(b) = d
    BY ONLY <1>1, <1>4, b = Body(m) /\ d = Content(m), DecodeIs
  <1>6. Len(d) \in Nat
    BY ONLY <1>2, b = Body(m) /\ d = Content(m)
  <1>7. OnPipeMessage(s, b) = DispatchMessage(s, ReadMessage(d))
    BY ONLY <1>4, <1>5, <1>6 DEF OnPipeMessage, HeaderLen
  <1>8. QED
    BY ONLY <1>7, b = Body(m) /\ d = Content(m)

(* The two parts of what Split takes apart.                                *)
LEMMA SplitTyped ==
  ASSUME NEW info \in Seq(Byte), Split(info).ok
  PROVE  Split(info).name \in Seq(Byte) /\ Split(info).rest \in Seq(Byte)
  <1> DEFINE ats == {i \in DOMAIN info : info[i] = AT}
             at == CHOOSE i \in ats : \A j \in ats : i <= j
  <1>1. Split(info) = IF ats = {} THEN [ok |-> FALSE]
                      ELSE IF at = 1 \/ at = Len(info) THEN [ok |-> FALSE]
                           ELSE [ok |-> TRUE, name |-> SubSeq(info, 1, at - 1),
                                 rest |-> SubSeq(info, at + 1, Len(info))]
    BY DEF Split
  <1> HIDE DEF at
  <1>2. ats # {}
    <2> HIDE DEF ats
    <2> QED BY ONLY <1>1, Split(info).ok
  <1>3. at \in 1..Len(info)
    <2>1. ats \subseteq Nat
      OBVIOUS
    <2>2. Min(ats) \in ats /\ \A y \in ats : Min(ats) <= y
      <3> HIDE DEF ats
      <3> QED BY ONLY <2>1, <1>2, NatMin
    <2>3. at \in ats
      <3> HIDE DEF ats
      <3> QED BY ONLY <2>2 DEF at
    <2>4. QED
      BY ONLY <2>3, info \in Seq(Byte)
  <1>4. SubSeq(info, 1, at - 1) \in Seq(Byte) /\ SubSeq(info, at + 1, Len(info)) \in Seq(Byte)
    BY ONLY <1>3, info \in Seq(Byte)
  <1>5. ~(at = 1 \/ at = Len(info))
    <2> HIDE DEF ats
    <2> QED BY ONLY <1>1, <1>2, Split(info).ok
  <1>6. Split(info) = [ok |-> TRUE, name |-> SubSeq(info, 1, at - 1),
                       rest |-> SubSeq(info, at + 1, Len(info))]
    <2> HIDE DEF ats
    <2> QED BY ONLY <1>1, <1>2, <1>5
  <1>7. QED
    BY ONLY <1>4, <1>6

(* A reply goes to a plugin's fifo and changes nothing else that matters.  *)
LEMMA ReplyKeeps ==
  ASSUME NEW s, NEW fs, Serves(s, fs), NEW p \in Plugins, NEW message, NEW t, t = Reply(s, p, message)
  PROVE  Serves(t, fs) /\ t.dispatched = s.dispatched /\ t.published = s.published
  <1>1. IsState(s) /\ Fifos(s.fifo) /\ s.fifo[Server] = fs /\ s.receivers \in Seq(Receiver)
        /\ Reads(s.reader)
    BY ONLY Serves(s, fs) DEF Serves
  <1>2. p # Server
    BY ONLY PipeAssumption, p \in Plugins DEF PipeAssumption
  <1>3. CASE t = s
    BY ONLY <1>3, Serves(s, fs)
  <1>4. CASE t # s
    <2> PICK f, r, e : /\ f = Written(s.fifo, p, message) /\ r = Met(s.reader, p)
                       /\ e = [s.replies EXCEPT ![p] = Append(@, message)]
      OBVIOUS
    <2>1. t = [s EXCEPT !.fifo = f, !.reader = r, !.replies = e]
      <3>1. t = [s EXCEPT !.fifo = Written(@, p, message), !.reader = Met(@, p),
                          !.replies[p] = Append(@, message)]
        BY ONLY <1>4, t = Reply(s, p, message) DEF Reply
      <3>2. QED
        BY ONLY <3>1, f = Written(s.fifo, p, message) /\ r = Met(s.reader, p)
                       /\ e = [s.replies EXCEPT ![p] = Append(@, message)]
    <2>2. t = [fifo |-> f, reader |-> r, receivers |-> s.receivers, topic |-> s.topic,
               dispatched |-> s.dispatched, published |-> s.published, replies |-> e]
      BY ONLY <2>1, <1>1 DEF IsState
    <2>3. IsState(t) /\ t.fifo = f /\ t.reader = r /\ t.receivers = s.receivers
          /\ t.dispatched = s.dispatched /\ t.published = s.published
      BY ONLY <2>2 DEF IsState
    <2>4. f = [s.fifo EXCEPT ![p] = s.fifo[p] \o PSend(message)]
      BY ONLY f = Written(s.fifo, p, message) /\ r = Met(s.reader, p)
              /\ e = [s.replies EXCEPT ![p] = Append(@, message)] DEF Written
    <2>5. Fifos(f) /\ f[Server] = fs
      <3> PICK g, v, w : g = s.fifo /\ w = s.fifo[p] \o PSend(message)
        OBVIOUS
      <3>1. f = [g EXCEPT ![p] = w] /\ Fifos(g) /\ g[Server] = fs
        BY ONLY <1>1, <2>4, g = s.fifo /\ w = s.fifo[p] \o PSend(message)
      <3>2. QED
        BY ONLY <3>1, <1>2 DEF Fifos
    <2>6. Reads(r)
      <3> PICK g : g = s.reader
        OBVIOUS
      <3>1. r = [g EXCEPT ![p] = IF @ = "waits" THEN "open" ELSE @] /\ Reads(g)
        BY ONLY <1>1, g = s.reader, f = Written(s.fifo, p, message) /\ r = Met(s.reader, p)
                /\ e = [s.replies EXCEPT ![p] = Append(@, message)] DEF Met
      <3>2. QED
        BY ONLY <3>1, <1>2 DEF Reads
    <2>7. QED
      BY ONLY <1>1, <2>3, <2>5, <2>6 DEF Serves
  <1>5. QED
    BY ONLY <1>3, <1>4

(* So does a registration; who registers has a fifo.                       *)
LEMMA RegisterKeeps ==
  ASSUME NEW s, NEW fs, Serves(s, fs), NEW info \in Registrations, NEW t, t = OnRegister(s, info)
  PROVE  Serves(t, fs) /\ t.dispatched = s.dispatched /\ t.published = s.published
  <1>1. info \in Seq(Byte) /\ (Split(info).ok => FifoOf(Split(info).rest) # {})
    BY ONLY PipeAssumption, info \in Registrations DEF PipeAssumption, IsString
  <1> DEFINE receiver == [name |-> Split(info).name, pipe |-> Split(info).rest]
             known == \E i \in DOMAIN s.receivers : s.receivers[i] = receiver
             now == IF known THEN s.receivers ELSE Append(s.receivers, receiver)
             id == CHOOSE i \in DOMAIN now : now[i] = receiver
             p == CHOOSE q \in FifoOf(receiver.pipe) : TRUE
             u == [s EXCEPT !.receivers = now]
  <1>2. CASE ~Split(info).ok
    <2>1. t = s
      BY ONLY <1>2, t = OnRegister(s, info) DEF OnRegister
    <2>2. QED
      BY ONLY <2>1, Serves(s, fs)
  <1>3. CASE Split(info).ok
    <2>1. receiver \in Receiver
      <3>1. Split(info).name \in Seq(Byte) /\ Split(info).rest \in Seq(Byte)
        BY ONLY <1>1, <1>3, SplitTyped
      <3>2. QED
        BY ONLY <1>1, <1>3, <3>1 DEF Receiver
    <2>2. p \in Plugins
      <3>1. FifoOf(receiver.pipe) # {}
        BY ONLY <1>1, <1>3
      <3>2. p \in FifoOf(receiver.pipe)
        <4> HIDE DEF receiver
        <4> QED BY ONLY <3>1
      <3> HIDE DEF p
      <3>3. QED
        BY ONLY <3>2 DEF FifoOf
    <2>3. IsState(s) /\ Fifos(s.fifo) /\ s.fifo[Server] = fs /\ s.receivers \in Seq(Receiver)
          /\ Reads(s.reader)
      BY ONLY Serves(s, fs) DEF Serves
    <2>4. now \in Seq(Receiver)
      <3> HIDE DEF receiver, known
      <3> QED BY ONLY <2>1, <2>3
    <2>5. Serves(u, fs) /\ u.dispatched = s.dispatched /\ u.published = s.published
      <3> HIDE DEF now
      <3>1. u = [fifo |-> s.fifo, reader |-> s.reader, receivers |-> now, topic |-> s.topic,
                 dispatched |-> s.dispatched, published |-> s.published, replies |-> s.replies]
        BY ONLY <2>3 DEF IsState
      <3> HIDE DEF u
      <3>2. IsState(u) /\ u.fifo = s.fifo /\ u.reader = s.reader /\ u.receivers = now
            /\ u.dispatched = s.dispatched /\ u.published = s.published
        BY ONLY <3>1 DEF IsState
      <3>3. QED
        BY ONLY <2>3, <2>4, <3>2 DEF Serves
    <2>6. t = Reply(u, p, PMessage(TYPE_REGISTER, 0, 0, WriteShort(id)))
      BY ONLY <1>3, t = OnRegister(s, info) DEF OnRegister
    <2> HIDE DEF u, p, id
    <2>7. Serves(t, fs) /\ t.dispatched = u.dispatched /\ t.published = u.published
      BY ONLY <2>2, <2>5, <2>6, ReplyKeeps
    <2>8. QED
      BY ONLY <2>5, <2>7
  <1>4. QED
    BY ONLY <1>2, <1>3
(* The next message is dispatched, and published if Send was called for it.*)
LEMMA DispatchKeeps ==
  ASSUME NEW ms, NEW as, NEW q, Linked(ms, as, q), NEW i \in 1..Len(ms), NEW s, NEW fs,
         Served(s, fs, i - 1, as, q), NEW t, t = OnPipeMessage(s, Body(ms[i]))
  PROVE  Served(t, fs, i, as, q)
  <1> PICK m, r, k : m = ms[i] /\ r = ReadMessage(Content(m)) /\ k = q[i - 1]
    OBVIOUS
  <1>0. m = ms[i] /\ r = ReadMessage(Content(m)) /\ k = q[i - 1]
    OBVIOUS
  <1>1. Sendable(m) /\ Asks(m, i, as, q)
    BY ONLY <1>0, Linked(ms, as, q), i \in 1..Len(ms) DEF Linked
  <1>2. r \in Message /\ r.type = m.type /\ r.data = m.data
    BY ONLY <1>0, <1>1, ReadIs
  <1>3. /\ as \in Seq(Ask) /\ Len(as) \in Nat /\ q \in [0..Len(ms) -> 0..Len(as)]
        /\ i \in Nat /\ i \in 0..Len(ms) /\ i - 1 \in 0..Len(ms) /\ k \in Nat
    <2>1. as \in Seq(Ask) /\ Len(ms) \in Nat /\ q \in [0..Len(ms) -> 0..Len(as)]
      BY ONLY Linked(ms, as, q) DEF Linked
    <2>2. i \in Nat /\ i \in 0..Len(ms) /\ i - 1 \in 0..Len(ms)
      BY ONLY <2>1, i \in 1..Len(ms)
    <2>3. Len(as) \in Nat
      BY ONLY <2>1
    <2>4. QED
      BY ONLY <2>1, <2>2, <2>3, <1>0
  <1>4. t = DispatchMessage(s, r)
    BY ONLY <1>0, <1>1, t = OnPipeMessage(s, Body(ms[i])), DeliverBody
  <1>5. m.data # <<>> /\ m.type \in {TYPE_MESSAGE, TYPE_REGISTER}
    BY ONLY <1>1 DEF Sendable
  <1>6. /\ IsState(s) /\ Fifos(s.fifo) /\ s.fifo[Server] = fs /\ s.receivers \in Seq(Receiver)
        /\ Reads(s.reader)
        /\ s.dispatched \in Seq(Message) /\ Len(s.dispatched) = i - 1
        /\ PublishedUpTo(s.published, as, k)
    BY ONLY <1>0, Served(s, fs, i - 1, as, q) DEF Served, Serves
  <1> PICK a : a = Append(s.dispatched, r)
    OBVIOUS
  <1>7. a \in Seq(Message) /\ Len(a) = i
    BY ONLY <1>2, <1>3, <1>6, a = Append(s.dispatched, r)
  <1> DEFINE d == [s EXCEPT !.dispatched = a]
  <1>8. IsState(d) /\ d.fifo = s.fifo /\ d.reader = s.reader /\ d.receivers = s.receivers
        /\ d.dispatched = a /\ d.published = s.published
    <2>1. d = [fifo |-> s.fifo, reader |-> s.reader, receivers |-> s.receivers, topic |-> s.topic,
               dispatched |-> a, published |-> s.published, replies |-> s.replies]
      BY ONLY <1>6 DEF IsState
    <2> HIDE DEF d
    <2>2. QED
      BY ONLY <2>1 DEF IsState
  <1>9. Serves(d, fs)
    <2> HIDE DEF d
    <2> QED BY ONLY <1>6, <1>8 DEF Serves
  <1>10. CASE m.type = TYPE_MESSAGE
    <2>1. q[i] = k + 1 /\ m.data = as[q[i]].name \o <<AT>> \o as[q[i]].data
      BY ONLY <1>10, <1>0, <1>1 DEF Asks
    <2> PICK x : x = as[q[i]]
      OBVIOUS
    <2>2. x \in Ask /\ k + 1 \in 1..Len(as) /\ x = as[k + 1]
      <3>1. q[i] \in 0..Len(as)
        BY ONLY <1>3
      <3>2. k + 1 \in 1..Len(as)
        <4>1. q[i] = k + 1 /\ k \in Nat /\ Len(as) \in Nat
          BY ONLY <2>1, <1>3
        <4>2. k + 1 \in 0..Len(as)
          BY ONLY <3>1, <4>1
        <4>3. PICK y, z : y = k + 1 /\ z = Len(as)
          OBVIOUS
        <4>4. y \in 0..z /\ z \in Nat /\ y = k + 1 /\ k \in Nat
          BY ONLY <4>1, <4>2, <4>3
        <4>5. y \in 1..z
          BY ONLY <4>4
        <4>6. QED
          BY ONLY <4>3, <4>5
      <3>3. as[k + 1] \in Ask
        BY ONLY <3>2, <1>3
      <3>4. QED
        BY ONLY <3>2, <3>3, <2>1, x = as[q[i]]
    <2>3. x.name \in Topics /\ x.data \in Payloads /\ x = [name |-> x.name, data |-> x.data]
      BY ONLY <2>2 DEF Ask
    <2>4. Split(r.data) = [ok |-> TRUE, name |-> x.name, rest |-> x.data]
      BY ONLY <1>2, <2>1, <2>3, x = as[q[i]], SplitIs
    <2>5. t = OnReceive(d, r.data)
      <3>1. t = DispatchMessage(s, r) /\ r.data # <<>> /\ r.type = TYPE_MESSAGE
        BY ONLY <1>2, <1>4, <1>5, <1>10
      <3>2. [s EXCEPT !.dispatched = Append(@, r)] = d
        BY ONLY a = Append(s.dispatched, r)
      <3> HIDE DEF d
      <3>3. DispatchMessage(s, r) = OnReceive([s EXCEPT !.dispatched = Append(@, r)], r.data)
        <4>1. ~(r.data = <<>>) /\ r.type = TYPE_MESSAGE
          BY ONLY <3>1
        <4>2. TYPE_MESSAGE # TYPE_REGISTER
          BY DEF TYPE_REGISTER, TYPE_MESSAGE
        <4>3. QED
          BY ONLY <4>1, <4>2 DEF DispatchMessage
      <3>4. QED
        BY ONLY <3>1, <3>2, <3>3
    <2>6. t = [d EXCEPT !.topic = Append(@, x), !.published = Append(@, x)]
      <3> HIDE DEF d
      <3>1. PICK parts : parts = Split(r.data)
        OBVIOUS
      <3>2. parts.ok /\ [name |-> parts.name, data |-> parts.rest] = x
        BY ONLY <2>3, <2>4, <3>1
      <3>3. OnReceive(d, r.data) = [d EXCEPT !.topic = Append(@, [name |-> parts.name, data |-> parts.rest]),
                                             !.published = Append(@, [name |-> parts.name, data |-> parts.rest])]
        BY ONLY <3>1, <3>2 DEF OnReceive
      <3>4. QED
        BY ONLY <2>5, <3>2, <3>3
    <2> PICK u, v : u = Append(d.topic, x) /\ v = Append(d.published, x)
      OBVIOUS
    <2>7. t = [fifo |-> d.fifo, reader |-> d.reader, receivers |-> d.receivers, topic |-> u,
               dispatched |-> d.dispatched, published |-> v, replies |-> d.replies]
      <3> HIDE DEF d
      <3>1. t = [d EXCEPT !.topic = u, !.published = v]
        BY ONLY <2>6, u = Append(d.topic, x) /\ v = Append(d.published, x)
      <3>2. QED
        BY ONLY <3>1, <1>8 DEF IsState
    <2>8. /\ IsState(t) /\ t.fifo = d.fifo /\ t.reader = d.reader /\ t.receivers = d.receivers /\ t.dispatched = a
          /\ t.published = v
      <3> HIDE DEF d
      <3> QED BY ONLY <2>7, <1>8 DEF IsState
    <2>9. PublishedUpTo(v, as, q[i])
      <3> PICK p : p = s.published
        OBVIOUS
      <3>1. p \in Seq(Ask) /\ Len(p) = k /\ \A j \in 1..k : p[j] = as[j]
        BY ONLY <1>6, p = s.published DEF PublishedUpTo
      <3>2. v = Append(p, x)
        <4> HIDE DEF d
        <4> QED BY ONLY <1>8, p = s.published, u = Append(d.topic, x) /\ v = Append(d.published, x)
      <3>3. /\ v \in Seq(Ask) /\ Len(v) = k + 1 /\ (\A j \in 1..k : v[j] = p[j]) /\ v[k + 1] = x
        <4>1. p \in Seq(Ask) /\ x \in Ask
          BY ONLY <3>1, <2>2
        <4>2. /\ Append(p, x) \in Seq(Ask) /\ Len(Append(p, x)) = Len(p) + 1
              /\ \A j \in 1..Len(p) : Append(p, x)[j] = p[j]
              /\ Append(p, x)[Len(p) + 1] = x
          BY ONLY <4>1, AppendProperties
        <4>3. Len(p) = k
          BY ONLY <3>1
        <4>4. QED
          BY ONLY <3>2, <4>2, <4>3
      <3>4. \A j \in 1..k + 1 : v[j] = as[j]
        <4> TAKE j \in 1..k + 1
        <4>1. j \in 1..k \/ j = k + 1
          BY ONLY <1>3, j \in 1..k + 1
        <4>2. CASE j \in 1..k
          BY ONLY <4>2, <3>1, <3>3, Zenon
        <4>3. CASE j = k + 1
          BY ONLY <4>3, <3>3, <2>2
        <4>4. QED
          BY ONLY <4>1, <4>2, <4>3
      <3>5. QED
        BY ONLY <3>3, <3>4, <2>1 DEF PublishedUpTo
    <2>10. QED
      <3> HIDE DEF d
      <3> QED BY ONLY <1>6, <1>7, <1>8, <2>8, <2>9 DEF Served, Serves
  <1>11. CASE m.type = TYPE_REGISTER
    <2>0. TYPE_REGISTER # TYPE_MESSAGE
      BY DEF TYPE_REGISTER, TYPE_MESSAGE
    <2>1. q[i] = k /\ m.data \in Registrations
      BY ONLY <1>11, <1>0, <1>1, <2>0 DEF Asks
    <2>2. t = OnRegister(d, r.data)
      <3>1. t = DispatchMessage(s, r) /\ r.data # <<>> /\ r.type = TYPE_REGISTER
        BY ONLY <1>2, <1>4, <1>5, <1>11
      <3>2. QED
        BY ONLY <3>1, <2>0, a = Append(s.dispatched, r) DEF DispatchMessage
    <2>3. Serves(t, fs) /\ t.dispatched = d.dispatched /\ t.published = d.published
      <3> HIDE DEF d
      <3> QED BY ONLY <1>2, <1>9, <2>1, <2>2, RegisterKeeps
    <2> HIDE DEF d
    <2>4. QED
      BY ONLY <1>6, <1>7, <1>8, <2>1, <2>3 DEF Served
  <1>12. QED
    BY ONLY <1>5, <1>10, <1>11

(* OnPipeMessage for one after the other is a function with this equation. *)
IsAfter(after, s, out) ==
  /\ OnPipeMessages(s, out) = after[Len(out)] /\ after[0] = s
  /\ \A i \in 1..Len(out) : after[i] = OnPipeMessage(after[i - 1], out[i])
(* That function exists for every state and all that has been cut out.     *)
LEMMA AfterIs ==
  ASSUME NEW s, NEW out, NEW n \in Nat, n = Len(out)
  PROVE  \E after : IsAfter(after, s, out)
  <1> DEFINE To(f, k) == f = [i \in 0..k |-> IF i = 0 THEN s ELSE OnPipeMessage(f[i - 1], out[i])]
             Bad == {k \in Nat : ~ \E f : To(f, k)}
  <1>1. ASSUME Bad # {} PROVE FALSE
    <2>1. PICK k \in Bad : \A j \in Bad : k <= j
      <3>1. Bad \subseteq Nat
        OBVIOUS
      <3> HIDE DEF Bad
      <3>2. QED
        BY ONLY <1>1, <3>1, NatMin
    <2>2. k \in Nat /\ ~ \E f : To(f, k)
      <3> HIDE DEF To
      <3> QED BY ONLY k \in Bad
    <2>3. CASE k = 0
      <3> DEFINE f == [i \in 0..0 |-> s]
      <3>1. \A i \in 0..0 : i = 0
        OBVIOUS
      <3>2. To(f, 0)
        BY ONLY <3>1
      <3> HIDE DEF f, To
      <3>3. QED
        BY ONLY <2>2, <2>3, <3>2
    <2>4. CASE k # 0
      <3>1. PICK h \in Nat : h = k - 1
        BY ONLY <2>2, <2>4
      <3>2. h \notin Bad
        <4> HIDE DEF Bad
        <4> QED BY ONLY <2>1, <2>2, <3>1
      <3>3. PICK g : To(g, h)
        <4> HIDE DEF To
        <4> QED BY ONLY <3>2
      <3> DEFINE f == [i \in 0..k |-> IF i <= h THEN g[i] ELSE OnPipeMessage(g[h], out[k])]
      <3>4. \A i \in 0..h : f[i] = g[i] /\ i \in 0..k
        BY ONLY <3>1, <2>2
      <3>5. ASSUME NEW i \in 0..k
            PROVE  f[i] = IF i = 0 THEN s ELSE OnPipeMessage(f[i - 1], out[i])
        <4>1. CASE i = 0
          <5>1. 0 \in 0..h
            BY ONLY <3>1
          <5>2. f[0] = g[0]
            BY ONLY <3>4, <5>1
          <5>3. g[0] = s
            BY ONLY <3>3, <5>1
          <5> HIDE DEF f
          <5>4. QED
            BY ONLY <4>1, <5>2, <5>3
        <4>2. CASE i # 0 /\ i <= h
          <5>1. i \in 0..h /\ i - 1 \in 0..h
            BY ONLY <4>2, <3>1, i \in 0..k
          <5>2. f[i] = g[i] /\ f[i - 1] = g[i - 1]
            BY ONLY <3>4, <5>1
          <5>3. g[i] = OnPipeMessage(g[i - 1], out[i])
            BY ONLY <3>3, <5>1, <4>2
          <5> HIDE DEF f
          <5>4. QED
            BY ONLY <4>2, <5>2, <5>3
        <4>3. CASE ~(i <= h)
          <5>1. i = k /\ i - 1 = h /\ h \in 0..h /\ i # 0
            BY ONLY <4>3, <3>1, <2>2, i \in 0..k
          <5>2. f[h] = g[h]
            BY ONLY <3>4, <5>1
          <5>3. f[i] = OnPipeMessage(g[h], out[k])
            BY ONLY <4>3, i \in 0..k
          <5> HIDE DEF f
          <5>4. QED
            BY ONLY <5>1, <5>2, <5>3
        <4>4. QED
          BY ONLY <4>1, <4>2, <4>3
      <3>6. To(f, k)
        <4>1. f = [i \in 0..k |-> f[i]]
          OBVIOUS
        <4> HIDE DEF f
        <4>2. QED
          BY ONLY <3>5, <4>1
      <3> HIDE DEF f, To
      <3>7. QED
        BY ONLY <2>2, <3>6
    <2>5. QED
      BY ONLY <2>3, <2>4
  <1>2. \E f : To(f, n)
    <2>1. n \notin Bad
      <3> HIDE DEF Bad
      <3> QED BY ONLY <1>1
    <2> HIDE DEF To
    <2>2. QED
      BY ONLY <2>1, n \in Nat
  <1> DEFINE after == CHOOSE f : To(f, n)
  <1>3. To(after, n)
    <2> HIDE DEF To
    <2> QED BY ONLY <1>2
  <1>4. OnPipeMessages(s, out) = after[n]
    BY ONLY n = Len(out) DEF OnPipeMessages
  <1> PICK f : f = after
    OBVIOUS
  <1>5. To(f, n)
    <2> HIDE DEF To, after
    <2> QED BY ONLY <1>3, f = after
  <1>6. f[0] = s /\ \A i \in 1..n : f[i] = OnPipeMessage(f[i - 1], out[i])
    <2>1. 0 \in 0..n /\ \A i \in 1..n : i \in 0..n /\ i # 0
      BY ONLY n \in Nat
    <2>2. \A i \in 0..n : f[i] = IF i = 0 THEN s ELSE OnPipeMessage(f[i - 1], out[i])
      BY ONLY <1>5
    <2>3. QED
      BY ONLY <2>1, <2>2
  <1> HIDE DEF after
  <1>7. IsAfter(f, s, out)
    BY ONLY <1>4, <1>6, f = after, n = Len(out) DEF IsAfter
  <1>8. QED
    BY ONLY <1>7

(* All that the loop gave away is dispatched, in its order.                *)
LEMMA DispatchesAll ==
  ASSUME NEW ms, NEW as, NEW q, Linked(ms, as, q), NEW out \in Seq(Seq(Byte)),
         NEW bs, \A i \in 1..Len(ms) : bs[i] = Body(ms[i]),
         NEW D \in Nat, NEW d \in 0..Len(ms), NEW n, Delivered(out, D, d, bs, n),
         NEW s, NEW fs, Served(s, fs, D, as, q)
  PROVE  Served(OnPipeMessages(s, out), fs, d, as, q)
  <1>a. Len(ms) \in Nat
    BY ONLY Linked(ms, as, q) DEF Linked
  <1> PICK l : l = Len(out)
    OBVIOUS
  <1>0. l = Len(out) /\ l \in Nat
    BY ONLY out \in Seq(Seq(Byte)), l = Len(out)
  <1>1. PICK after : /\ OnPipeMessages(s, out) = after[l] /\ after[0] = s
                     /\ \A i \in 1..l : after[i] = OnPipeMessage(after[i - 1], out[i])
    <2>1. PICK after : IsAfter(after, s, out)
      BY ONLY <1>0, AfterIs
    <2>2. QED
      BY ONLY <2>1, <1>0 DEF IsAfter
  <1>2. n \in [0..l -> D..d] /\ n[0] = D /\ n[l] = d /\ \A i \in 1..l : Delivers(out, n, bs, i)
    BY ONLY <1>0, Delivered(out, D, d, bs, n) DEF Delivered
  <1> DEFINE Bad == {i \in 0..l : ~Served(after[i], fs, n[i], as, q)}
  <1>3. ASSUME Bad # {} PROVE FALSE
    <2>1. PICK i \in Bad : \A j \in Bad : i <= j
      <3>1. Bad \subseteq Nat
        <4>1. Bad \subseteq 0..l
          OBVIOUS
        <4> HIDE DEF Bad
        <4>2. QED
          BY ONLY <4>1, <1>0
      <3> HIDE DEF Bad
      <3>2. QED
        BY ONLY <1>3, <3>1, NatMin
    <2>2. i \in 0..l /\ ~Served(after[i], fs, n[i], as, q)
      BY ONLY i \in Bad
    <2>3. i # 0
      BY ONLY <2>2, <1>1, <1>2, Served(s, fs, D, as, q)
    <2>4. i \in 1..l /\ i - 1 \in 0..l /\ i - 1 < i
      BY ONLY <2>2, <2>3, <1>0
    <2>5. Served(after[i - 1], fs, n[i - 1], as, q)
      <3>1. i - 1 \notin Bad
        <4> HIDE DEF Bad
        <4>1. ASSUME i - 1 \in Bad PROVE FALSE
          <5>1. i <= i - 1
            BY ONLY <2>1, <4>1
          <5>2. QED
            BY ONLY <5>1, <2>4
        <4>2. QED
          BY ONLY <4>1
      <3>2. QED
        BY ONLY <3>1, <2>4
    <2>6. after[i] = OnPipeMessage(after[i - 1], out[i]) /\ Delivers(out, n, bs, i)
      BY ONLY <2>4, <1>1, <1>2
    <2>7. CASE out[i] = <<>> /\ n[i] = n[i - 1]
      <3>1. OnPipeMessage(after[i - 1], <<>>) = after[i - 1]
        BY ONLY DeliverNothing
      <3>2. QED
        BY ONLY <3>1, <2>2, <2>5, <2>6, <2>7
    <2>8. CASE out[i] = bs[n[i]] /\ n[i] = n[i - 1] + 1
      <3> PICK k, h : k = n[i] /\ h = n[i - 1]
        OBVIOUS
      <3>1. k = n[i] /\ h = n[i - 1]
        OBVIOUS
      <3>2. k \in D..d /\ h \in D..d
        BY ONLY <3>1, <2>4, <2>2, <1>2
      <3>3. k = h + 1
        BY ONLY <3>1, <2>8
      <3>4. k \in 1..Len(ms) /\ h = k - 1
        BY ONLY <3>2, <3>3, D \in Nat, d \in 0..Len(ms), <1>a
      <3>5. out[i] = Body(ms[k])
        BY ONLY <3>1, <3>4, <2>8, \A j \in 1..Len(ms) : bs[j] = Body(ms[j])
      <3>6. Served(after[i - 1], fs, k - 1, as, q)
        BY ONLY <3>1, <3>4, <2>5
      <3>7. Served(after[i], fs, k, as, q)
        BY ONLY <3>4, <3>5, <3>6, <2>6, DispatchKeeps, Linked(ms, as, q)
      <3>8. QED
        BY ONLY <3>1, <3>7, <2>2
    <2>9. QED
      BY ONLY <2>6, <2>7, <2>8 DEF Delivers
  <1>4. l \notin Bad
    <2> HIDE DEF Bad
    <2> QED BY ONLY <1>3
  <1>5. Served(after[l], fs, n[l], as, q)
    <2>1. l \in 0..l
      BY ONLY <1>0
    <2>2. QED
      BY ONLY <2>1, <1>4
  <1>6. QED
    BY ONLY <1>1, <1>2, <1>5
-----------------------------------------------------------------------------
(* The ring.                                                               *)

(* Positions in it wrap around once.                                       *)
Wrapped(x) == IF x < PipeBuf THEN x ELSE x - PipeBuf
(* Below twice the size of the ring the remainder wraps at most once.      *)
LEMMA WrapIs ==
  /\ \A x \in Nat : x < 2 * PipeBuf => x % PipeBuf = Wrapped(x)
  /\ \A x \in Nat : x < PipeBuf => (x - PipeBuf) % PipeBuf = x
  <1> PICK P : P = PipeBuf
    OBVIOUS
  <1>0. P = PipeBuf /\ P \in Nat /\ P >= 8
    BY ONLY PipeAssumption, P = PipeBuf DEF PipeAssumption
  <1>1. ASSUME NEW x \in Nat, x < 2 * P PROVE x % P = IF x < P THEN x ELSE x - P
    BY ONLY <1>0, <1>1
  <1>2. ASSUME NEW x \in Nat, x < P PROVE (x - P) % P = x
    BY ONLY <1>0, <1>2
  <1>3. QED
    BY ONLY <1>0, <1>1, <1>2 DEF Wrapped

(* The ring holds the bytes of X from S to R.                              *)
InRing(ring, from, to, X, S, R) ==
  /\ ring \in [0 .. PipeBuf - 1 -> Byte] /\ from \in 0 .. PipeBuf - 1 /\ to \in 0 .. PipeBuf - 1
  /\ S \in Nat /\ R \in Nat /\ S <= R /\ R - S < PipeBuf
  /\ to = Wrapped(from + (R - S))
  /\ \A i \in 1..R - S : ring[Wrapped(from + i - 1)] = X[S + i]
(* A fifo holds the bytes of X behind R.                                   *)
InFifo(fs, X, R) ==
  /\ fs \in Seq(Byte) /\ R \in Nat /\ Len(X) \in Nat /\ R + Len(fs) = Len(X)
  /\ \A i \in 1..Len(fs) : fs[i] = X[R + i]
(* How many bytes are free, and the ring with count bytes more.            *)
Free(from, to) == IF to >= from THEN PipeBuf - to ELSE from - to
Filled(ring, to, count, fs) ==
  [i \in 0 .. PipeBuf - 1 |->
     IF i >= to /\ i < to + count THEN fs[i - to + 1] ELSE ring[i]]

(* count bytes of the fifo in the ring, behind what is there; it may be    *)
(* full then.                                                              *)
LEMMA RingReads ==
  ASSUME NEW ring, NEW from, NEW to, NEW X, NEW S, NEW R, InRing(ring, from, to, X, S, R),
         NEW fs, InFifo(fs, X, R), X \in Seq(Byte),
         NEW count \in 1..PipeBuf, count <= Free(from, to), count <= Len(fs),
         NEW ring2, NEW to2, to2 = (to + count) % PipeBuf,
         ring2 = Filled(ring, to, count, fs),
         NEW L, L = R + count - S
  PROVE  /\ L \in 1..PipeBuf /\ ring2 \in [0 .. PipeBuf - 1 -> Byte]
         /\ to2 = Wrapped(from + L) /\ to2 \in 0 .. PipeBuf - 1
         /\ \A i \in 1..L : ring2[Wrapped(from + i - 1)] = X[S + i]
         /\ Window(Bytes(ring2, from, to2), X, S, L)
  <1> PICK P, K, l : P = PipeBuf /\ K = R - S /\ l = Len(fs)
    OBVIOUS
  <1>0. P = PipeBuf /\ K = R - S /\ L = R + count - S /\ l = Len(fs)
    OBVIOUS
  <1>1. P \in Nat /\ P >= 8
    BY ONLY <1>0, PipeAssumption DEF PipeAssumption
  <1>2. /\ ring \in [0 .. P - 1 -> Byte] /\ from \in 0 .. P - 1 /\ to \in 0 .. P - 1
        /\ S \in Nat /\ R \in Nat /\ S <= R /\ K < P /\ K \in Nat
        /\ to = IF from + K < P THEN from + K ELSE from + K - P
        /\ \A i \in 1..K : ring[Wrapped(from + i - 1)] = X[S + i]
    BY ONLY <1>0, <1>1, InRing(ring, from, to, X, S, R) DEF InRing, Wrapped
  <1>3. fs \in Seq(Byte) /\ l \in Nat /\ R + l = Len(X) /\ \A i \in 1..l : fs[i] = X[R + i]
    BY ONLY <1>0, InFifo(fs, X, R) DEF InFifo
  <1>4. count \in Nat /\ count >= 1 /\ count <= l /\ count <= IF to >= from THEN P - to ELSE from - to
    BY ONLY <1>0, <1>1, count \in 1..PipeBuf, count <= Free(from, to), count <= Len(fs) DEF Free
  <1>5. L = K + count /\ L \in 1..P /\ to + count <= P
    BY ONLY <1>0, <1>1, <1>2, <1>4
  <1>6. to2 = IF from + L < P THEN from + L ELSE from + L - P
    <2>1. to2 = Wrapped(to + count)
      <3>1. to + count \in Nat /\ to + count < 2 * PipeBuf
        BY ONLY <1>0, <1>1, <1>2, <1>4, <1>5
      <3>2. QED
        BY ONLY <3>1, WrapIs, to2 = (to + count) % PipeBuf
    <2>2. to2 = IF to + count < P THEN to + count ELSE to + count - P
      <3>1. to + count \in Int
        BY ONLY <1>0, <1>1, <1>2, <1>4
      <3>2. QED
        <4>1. Wrapped(to + count) = IF to + count < P THEN to + count ELSE to + count - P
          BY ONLY <1>0, <1>1, <1>2, <1>4 DEF Wrapped
        <4>2. QED
          BY ONLY <2>1, <4>1
    <2>3. QED
      BY ONLY <2>2, <1>1, <1>2, <1>4, <1>5
  <1>7. to2 \in 0 .. P - 1
    BY ONLY <1>6, <1>1, <1>2, <1>5
  <1>8. ring2 \in [0 .. P - 1 -> Byte]
    <2>1. ASSUME NEW i \in 0 .. P - 1
          PROVE  (IF i >= to /\ i < to + count THEN fs[i - to + 1] ELSE ring[i]) \in Byte
      <3>1. CASE i >= to /\ i < to + count
        <4>1. i - to + 1 \in 1..l
          <5>1. to \in Nat /\ count \in Nat /\ count <= l /\ l \in Nat /\ i \in Nat
            BY ONLY <1>1, <1>2, <1>3, <1>4, i \in 0 .. P - 1
          <5>2. QED
            BY ONLY <3>1, <5>1
        <4>2. fs[i - to + 1] \in Byte
          BY ONLY <4>1, <1>0, <1>3
        <4>3. QED
          BY ONLY <3>1, <4>2
      <3>2. CASE ~(i >= to /\ i < to + count)
        <4>1. ring[i] \in Byte
          BY ONLY <1>2, i \in 0 .. P - 1
        <4>2. QED
          BY ONLY <3>2, <4>1
      <3>3. QED
        BY ONLY <3>1, <3>2
    <2>2. QED
      BY ONLY <2>1, <1>0, ring2 = Filled(ring, to, count, fs) DEF Filled
  <1>9. ASSUME NEW i \in 1..L PROVE ring2[Wrapped(from + i - 1)] = X[S + i] /\ X[S + i] \in Byte
    <2> PICK j : j = Wrapped(from + i - 1)
      OBVIOUS
    <2>1. j = IF from + i - 1 < P THEN from + i - 1 ELSE from + i - 1 - P
      <3>1. from + i - 1 \in Int
        BY ONLY <1>1, <1>2, <1>5, i \in 1..L
      <3>2. QED
        <4>1. Wrapped(from + i - 1) = IF from + i - 1 < P THEN from + i - 1 ELSE from + i - 1 - P
          BY ONLY <1>0, <1>1, <1>2, <1>5, i \in 1..L DEF Wrapped
        <4>2. QED
          BY ONLY j = Wrapped(from + i - 1), <4>1
    <2>2. i \in Nat /\ i >= 1 /\ i <= K + count
      BY ONLY <1>5, <1>1, i \in 1..L
    <2>3. j \in 0 .. P - 1
      BY ONLY <2>1, <2>2, <1>1, <1>2, <1>5
    <2>4. ring2[j] = IF j >= to /\ j < to + count THEN fs[j - to + 1] ELSE ring[j]
      BY ONLY <2>3, <1>0, ring2 = Filled(ring, to, count, fs) DEF Filled
    <2>5. CASE i <= K
      <3>1. ~(j >= to /\ j < to + count)
        BY ONLY <2>1, <2>2, <2>5, <1>1, <1>2, <1>4, <1>5
      <3>2. i \in 1..K
        BY ONLY <2>2, <2>5, <1>2
      <3>3. ring[j] = X[S + i]
        BY ONLY <3>2, <1>2, j = Wrapped(from + i - 1)
      <3>4. QED
        BY ONLY <2>3, <2>4, <3>1, <3>3, <1>2, j = Wrapped(from + i - 1)
    <2>6. CASE i > K
      <3>1. j = to + (i - K - 1)
        BY ONLY <2>1, <2>2, <2>6, <1>1, <1>2, <1>4, <1>5
      <3>2. j >= to /\ j < to + count /\ j - to + 1 = i - K
        BY ONLY <3>1, <2>2, <2>6, <1>2, <1>4
      <3>3. i - K \in 1..l /\ R + (i - K) = S + i
        BY ONLY <2>2, <2>6, <1>0, <1>2, <1>4, <1>3
      <3>4. fs[i - K] = X[R + (i - K)]
        BY ONLY <3>3, <1>3
      <3>5. fs[i - K] \in Byte
        BY ONLY <3>3, <1>0, <1>3
      <3>6. QED
        BY ONLY <2>4, <3>2, <3>3, <3>4, <3>5, j = Wrapped(from + i - 1)
    <2>7. QED
      BY ONLY <2>2, <2>5, <2>6, <1>2
  <1>10. Window(Bytes(ring2, from, to2), X, S, L)
    <2>1. ((to2 - from - 1) % PipeBuf) + 1 = L
      <3>1. L - 1 \in Nat /\ L - 1 < PipeBuf
        BY ONLY <1>0, <1>1, <1>5
      <3>2. (L - 1) % PipeBuf = L - 1 /\ (L - 1 - PipeBuf) % PipeBuf = L - 1
        <4>1. L - 1 < 2 * PipeBuf
          BY ONLY <3>1, <1>0, <1>1
        <4>2. QED
          BY ONLY <3>1, <4>1, WrapIs DEF Wrapped
      <3>3. to2 - from - 1 = L - 1 \/ to2 - from - 1 = L - 1 - PipeBuf
        BY ONLY <1>0, <1>1, <1>2, <1>5, <1>6
      <3>4. ((to2 - from - 1) % PipeBuf) = L - 1
        BY ONLY <3>2, <3>3
      <3>5. QED
        BY ONLY <3>4, <1>1, <1>5
    <2> DEFINE w == [i \in 1..L |-> ring2[(from + i - 1) % PipeBuf]]
    <2>2. Bytes(ring2, from, to2) = <<>> \o w
      BY ONLY <2>1 DEF Bytes
    <2>3. \A i \in 1..L : w[i] = X[S + i] /\ w[i] \in Byte
      <3> TAKE i \in 1..L
      <3>1. from + i - 1 \in Nat /\ from + i - 1 < 2 * PipeBuf
        BY ONLY <1>0, <1>1, <1>2, <1>5, i \in 1..L
      <3>2. (from + i - 1) % PipeBuf = Wrapped(from + i - 1)
        BY ONLY <3>1, WrapIs
      <3>3. w[i] = ring2[Wrapped(from + i - 1)]
        BY ONLY <3>2, i \in 1..L
      <3>4. QED
        <4> HIDE DEF w
        <4> QED BY ONLY <3>3, <1>9
    <2>4. w \in [1..L -> Byte]
      <3>1. w = [i \in 1..L |-> w[i]]
        OBVIOUS
      <3> HIDE DEF w
      <3>2. QED
        BY ONLY <2>3, <3>1
    <2> HIDE DEF w
    <2>5. w \in Seq(Byte) /\ Len(w) = L
      BY ONLY <2>4, <1>1, <1>5
    <2>6. <<>> \o w = w
      BY ONLY <2>5
    <2>7. S + L <= Len(X)
      BY ONLY <1>0, <1>2, <1>3, <1>4, <1>5
    <2>8. QED
      BY ONLY <2>2, <2>3, <2>5, <2>6, <2>7, <1>2 DEF Window
  <1>11. QED
    <2>1. to2 = Wrapped(from + L)
      <3>1. from + L \in Int
        BY ONLY <1>1, <1>2, <1>5
      <3>2. QED
        <4>1. Wrapped(from + L) = IF from + L < P THEN from + L ELSE from + L - P
          BY ONLY <1>0, <1>1, <1>2, <1>5 DEF Wrapped
        <4>2. QED
          BY ONLY <1>6, <4>1
    <2>2. QED
      BY ONLY <2>1, <1>0, <1>5, <1>7, <1>8, <1>9, <1>10

(* The start moves on.                                                     *)
LEMMA RingMoves ==
  ASSUME NEW ring \in [0 .. PipeBuf - 1 -> Byte], NEW from \in 0 .. PipeBuf - 1,
         NEW to \in 0 .. PipeBuf - 1, NEW X, NEW S \in Nat,
         NEW L \in 1..PipeBuf, to = Wrapped(from + L),
         \A i \in 1..L : ring[Wrapped(from + i - 1)] = X[S + i],
         NEW done \in 0..L, L - done < PipeBuf,
         NEW from2, from2 = (from + done) % PipeBuf
  PROVE  InRing(ring, from2, to, X, S + done, S + L)
  <1> PICK P : P = PipeBuf
    OBVIOUS
  <1>0. P = PipeBuf /\ P \in Nat /\ P >= 8
    BY ONLY P = PipeBuf, PipeAssumption DEF PipeAssumption
  <1>1. /\ from \in 0 .. P - 1 /\ L \in 1..P /\ done \in 0..L /\ L - done < P
        /\ to = IF from + L < P THEN from + L ELSE from + L - P
    BY ONLY <1>0, from \in 0 .. PipeBuf - 1, L \in 1..PipeBuf, done \in 0..L, L - done < PipeBuf,
            to = Wrapped(from + L) DEF Wrapped
  <1>2. from2 = IF from + done < P THEN from + done ELSE from + done - P
    <2>1. from + done \in Nat /\ from + done < 2 * PipeBuf
      BY ONLY <1>0, <1>1
    <2>2. from2 = Wrapped(from + done)
      BY ONLY <2>1, WrapIs, from2 = (from + done) % PipeBuf
    <2>3. QED
      BY ONLY <2>2, <1>0 DEF Wrapped
  <1>3. from2 \in 0 .. P - 1
    BY ONLY <1>0, <1>1, <1>2
  <1>4. /\ S + done \in Nat /\ S + L \in Nat /\ S + done <= S + L
        /\ (S + L) - (S + done) = L - done
    BY ONLY <1>0, <1>1, S \in Nat
  <1>5. to = IF from2 + (L - done) < P THEN from2 + (L - done) ELSE from2 + (L - done) - P
    BY ONLY <1>0, <1>1, <1>2
  <1>6. ASSUME NEW i \in 1..L - done PROVE ring[Wrapped(from2 + i - 1)] = X[S + done + i]
    <2>1. done + i \in 1..L /\ S + done + i = S + (done + i)
      BY ONLY <1>1, S \in Nat, i \in 1..L - done, <1>0
    <2>2. ring[Wrapped(from + (done + i) - 1)] = X[S + (done + i)]
      BY ONLY <2>1, \A j \in 1..L : ring[Wrapped(from + j - 1)] = X[S + j]
    <2>3. (IF from2 + i - 1 < P THEN from2 + i - 1 ELSE from2 + i - 1 - P)
            = IF from + (done + i) - 1 < P THEN from + (done + i) - 1 ELSE from + (done + i) - 1 - P
      BY ONLY <2>1, <1>0, <1>1, <1>2, i \in 1..L - done
    <2>4. Wrapped(from2 + i - 1) = Wrapped(from + (done + i) - 1)
      <3>1. from2 + i - 1 \in Int /\ from + (done + i) - 1 \in Int
        BY ONLY <2>1, <1>0, <1>1, <1>3, i \in 1..L - done
      <3>2. QED
        <4>1. Wrapped(from2 + i - 1) = IF from2 + i - 1 < P THEN from2 + i - 1 ELSE from2 + i - 1 - P
          BY ONLY <1>0, <1>1, <1>3, i \in 1..L - done DEF Wrapped
        <4>2. Wrapped(from + (done + i) - 1)
                = IF from + (done + i) - 1 < P THEN from + (done + i) - 1 ELSE from + (done + i) - 1 - P
          BY ONLY <1>0, <1>1, i \in 1..L - done DEF Wrapped
        <4>3. QED
          BY ONLY <2>3, <4>1, <4>2
    <2>5. QED
      BY ONLY <2>1, <2>2, <2>4
  <1>7. QED
    BY ONLY <1>0, <1>1, <1>3, <1>4, <1>5, <1>6, ring \in [0 .. PipeBuf - 1 -> Byte],
            to \in 0 .. PipeBuf - 1 DEF InRing, Wrapped-----------------------------------------------------------------------------
(* The messages sent, and their bytes.                                     *)

(* X is the frames of the messages ms, none of them longer than the ring.  *)
Laid(ms, bs, B, X) ==
  /\ Stream(bs, Len(ms), B, X)
  /\ \A i \in 1..Len(ms) : bs[i] = Body(ms[i]) /\ B[i] <= B[i - 1] + PipeBuf

(* One more message goes behind them.                                      *)
LEMMA LaidMore ==
  ASSUME NEW ms \in Seq(Message), NEW bs, NEW B, NEW X, Laid(ms, bs, B, X),
         NEW m \in Message, Sendable(m), Len(PSend(m)) <= PipeBuf
  PROVE  \E bs2, B2 : /\ Laid(Append(ms, m), bs2, B2, X \o PSend(m))
                      /\ \A i \in 0..Len(ms) : B2[i] = B[i]
                      /\ B2[Len(ms) + 1] > B[Len(ms)]
  <1> PICK N, f, b, g, Y, l : N = Len(ms) /\ f = PSend(m) /\ b = Body(m) /\ g = Len(b) /\ Y = X \o f
                              /\ l = Len(X)
    OBVIOUS
  <1>0. N = Len(ms) /\ f = PSend(m) /\ b = Body(m) /\ g = Len(b) /\ Y = X \o f /\ l = Len(X)
    OBVIOUS
  <1> PICK ms2 : ms2 = Append(ms, m)
    OBVIOUS
  <1>1. N \in Nat /\ Len(ms2) = N + 1 /\ ms2[N + 1] = m /\ \A i \in 1..N : ms2[i] = ms[i]
    BY ONLY <1>0, ms2 = Append(ms, m), ms \in Seq(Message), m \in Message, AppendProperties
  <1>2. /\ B \in [0..N -> Nat] /\ B[0] = 0 /\ X \in Seq(Byte) /\ l = B[N] /\ Rising(N, B)
        /\ \A d \in 1..N : /\ IsBody(bs[d]) /\ B[d] = B[d - 1] + Len(bs[d]) + 4
                           /\ Placed(bs[d], B[d - 1], X)
        /\ \A i \in 1..N : bs[i] = Body(ms[i]) /\ B[i] <= B[i - 1] + PipeBuf
    BY ONLY <1>0, Laid(ms, bs, B, X) DEF Laid, Stream
  <1>3. IsBody(b)
    <2>1. \E c : IsCode(b, Content(m), c)
      BY ONLY <1>0, BodyIs, Sendable(m)
    <2>2. \E T : Track(b, T)
      BY ONLY <2>1, TrackIs
    <2>3. b \in Seq(Byte) /\ Len(b) > 0 /\ b[1] \notin Doubled
      BY ONLY <1>0, BodyIs, Sendable(m)
    <2>4. b # <<>>
      BY ONLY <2>3
    <2>5. QED
      BY ONLY <2>2, <2>3, <2>4 DEF IsBody
  <1>4. IsFrame(f, b)
    BY ONLY <1>0, PSendIs, Sendable(m)
  <1>5. /\ f \in Seq(Byte) /\ Len(f) = g + 4 /\ f[1] = 255
        /\ \A j \in 1..g : f[1 + j] = b[j]
        /\ f[g + 2] = 0 /\ f[g + 3] = 255 /\ f[g + 4] = 0
    BY ONLY <1>4, <1>0 DEF IsFrame
  <1>6. g \in Nat /\ l \in Nat /\ g + 4 <= PipeBuf /\ PipeBuf \in Nat
    <2>1. b \in Seq(Byte)
      BY ONLY <1>3 DEF IsBody
    <2>2. g \in Nat /\ l \in Nat
      BY ONLY <2>1, <1>2, <1>0
    <2>3. Len(f) <= PipeBuf
      BY ONLY <1>0, Len(PSend(m)) <= PipeBuf
    <2>4. QED
      BY ONLY <2>2, <2>3, <1>5, PipeAssumption DEF PipeAssumption
  <1>7. /\ Y \in Seq(Byte) /\ Len(Y) = l + (g + 4)
        /\ \A i \in 1..l : Y[i] = X[i]
        /\ \A i \in 1..g + 4 : Y[l + i] = f[i]
    <2>0. X \in Seq(Byte) /\ f \in Seq(Byte)
      BY ONLY <1>2, <1>5
    <2>1. /\ X \o f \in Seq(Byte) /\ Len(X \o f) = Len(X) + Len(f)
          /\ \A i \in 1..Len(X) : (X \o f)[i] = X[i]
          /\ \A i \in 1..Len(f) : (X \o f)[Len(X) + i] = f[i]
      BY ONLY <2>0, Together, Zenon
    <2> PICK k : k = Len(f)
      OBVIOUS
    <2>2. /\ Y \in Seq(Byte) /\ Len(Y) = l + k
          /\ \A i \in 1..l : Y[i] = X[i]
          /\ \A i \in 1..k : Y[l + i] = f[i]
      BY ONLY <2>1, <1>0, k = Len(f)
    <2>3. k = g + 4
      BY ONLY k = Len(f), <1>5
    <2>4. QED
      BY ONLY <2>2, <2>3
  <1> PICK bs2 : bs2 = [i \in 1..N + 1 |-> IF i <= N THEN bs[i] ELSE b]
    OBVIOUS
  <1> PICK B2 : B2 = [i \in 0..N + 1 |-> IF i <= N THEN B[i] ELSE l + (g + 4)]
    OBVIOUS
  <1>8. /\ \A i \in 1..N : bs2[i] = bs[i]
        /\ bs2[N + 1] = b
    BY ONLY <1>1, bs2 = [i \in 1..N + 1 |-> IF i <= N THEN bs[i] ELSE b]
  <1>9. /\ \A i \in 0..N : B2[i] = B[i] /\ B[i] \in Nat
        /\ B2[N + 1] = l + (g + 4)
        /\ B2 \in [0..N + 1 -> Nat]
    BY ONLY <1>1, <1>2, <1>6, B2 = [i \in 0..N + 1 |-> IF i <= N THEN B[i] ELSE l + (g + 4)]
  <1>10. Rising(N + 1, B2)
    <2> SUFFICES ASSUME NEW i \in 0..N + 1, NEW j \in 0..N + 1, i <= j PROVE B2[i] <= B2[j]
      BY DEF Rising
    <2>1. CASE j <= N
      <3>1. i \in 0..N /\ j \in 0..N
        BY ONLY <2>1, <1>1, i \in 0..N + 1, j \in 0..N + 1, i <= j
      <3>2. QED
        BY ONLY <3>1, <1>9, <1>2, i <= j DEF Rising
    <2>2. CASE j = N + 1
      <3>1. CASE i = N + 1
        BY ONLY <3>1, <2>2, <1>9, <1>6
      <3>2. CASE i # N + 1
        <4>1. i \in 0..N /\ N \in 0..N /\ i <= N
          BY ONLY <3>2, <1>1, i \in 0..N + 1
        <4>2. B[i] <= B[N]
          BY ONLY <4>1, <1>2 DEF Rising
        <4>3. QED
          BY ONLY <4>1, <4>2, <2>2, <1>9, <1>6, <1>2
      <3>3. QED
        BY ONLY <3>1, <3>2
    <2>3. QED
      BY ONLY <2>1, <2>2, <1>1, j \in 0..N + 1
  <1>11. ASSUME NEW d \in 1..N + 1
         PROVE  /\ IsBody(bs2[d]) /\ B2[d] = B2[d - 1] + Len(bs2[d]) + 4
                /\ Placed(bs2[d], B2[d - 1], Y)
                /\ bs2[d] = Body(ms2[d]) /\ B2[d] <= B2[d - 1] + PipeBuf
    <2>1. CASE d <= N
      <3> PICK a, c, h : a = B[d - 1] /\ c = bs[d] /\ h = Len(c)
        OBVIOUS
      <3>0. a = B[d - 1] /\ c = bs[d] /\ h = Len(c)
        OBVIOUS
      <3>1. d \in 1..N /\ d - 1 \in 0..N /\ d \in 0..N /\ N \in 0..N /\ d <= N
        BY ONLY <2>1, <1>1, d \in 1..N + 1
      <3>2. /\ IsBody(c) /\ B[d] = a + h + 4 /\ Placed(c, a, X)
            /\ c = Body(ms[d]) /\ B[d] <= a + PipeBuf
        BY ONLY <3>0, <3>1, <1>2
      <3>3. c \in Seq(Byte)
        BY ONLY <3>2 DEF IsBody
      <3>4. h \in Nat /\ a \in Nat
        BY ONLY <3>0, <3>1, <3>3, <1>9
      <3>5. B[d] <= B[N]
        BY ONLY <3>1, <1>2 DEF Rising
      <3>6. a + h + 4 <= l
        BY ONLY <3>2, <3>5, <1>2
      <3>7. Placed(c, a, Y)
        <4>1. /\ X[a + 1] = 255
              /\ \A j \in 1..h : X[a + 1 + j] = c[j]
              /\ X[a + h + 2] = 0 /\ X[a + h + 3] = 255 /\ X[a + h + 4] = 0
          BY ONLY <3>0, <3>2 DEF Placed
        <4>2. /\ a + 1 \in 1..l /\ a + h + 2 \in 1..l /\ a + h + 3 \in 1..l /\ a + h + 4 \in 1..l
              /\ \A j \in 1..h : a + 1 + j \in 1..l
          BY ONLY <3>4, <3>6, <1>6
        <4>3. /\ Y[a + 1] = 255
              /\ \A j \in 1..h : Y[a + 1 + j] = c[j]
              /\ Y[a + h + 2] = 0 /\ Y[a + h + 3] = 255 /\ Y[a + h + 4] = 0
          <5>1. \A j \in 1..h : Y[a + 1 + j] = c[j]
            <6> TAKE j \in 1..h
            <6> PICK y : y = a + 1 + j
              OBVIOUS
            <6>1. y \in 1..l /\ X[y] = c[j]
              BY ONLY y = a + 1 + j, <4>1, <4>2, j \in 1..h
            <6>2. QED
              BY ONLY <6>1, y = a + 1 + j, <1>7
          <5>2. Y[a + 1] = X[a + 1] /\ Y[a + h + 2] = X[a + h + 2] /\ Y[a + h + 3] = X[a + h + 3]
                /\ Y[a + h + 4] = X[a + h + 4]
            BY ONLY <4>2, <1>7
          <5>3. QED
            BY ONLY <5>1, <5>2, <4>1
        <4>4. QED
          BY ONLY <4>3, <3>0 DEF Placed
      <3>8. bs2[d] = c /\ B2[d - 1] = a /\ B2[d] = B[d] /\ ms2[d] = ms[d]
        BY ONLY <3>0, <3>1, <1>8, <1>9, <1>1
      <3>9. QED
        BY ONLY <3>0, <3>2, <3>7, <3>8
    <2>2. CASE d = N + 1
      <3>1. N \in 0..N /\ d - 1 = N
        BY ONLY <2>2, <1>1
      <3>2. bs2[d] = b /\ B2[d - 1] = l /\ B2[d] = l + (g + 4) /\ ms2[d] = m
        BY ONLY <2>2, <3>1, <1>8, <1>9, <1>1, <1>2
      <3>3. Placed(b, l, Y)
        <4>1. /\ 1 \in 1..g + 4 /\ g + 2 \in 1..g + 4 /\ g + 3 \in 1..g + 4 /\ g + 4 \in 1..g + 4
          BY ONLY <1>6
        <4>2. Y[l + 1] = 255 /\ Y[l + (g + 2)] = 0 /\ Y[l + (g + 3)] = 255 /\ Y[l + (g + 4)] = 0
          BY ONLY <4>1, <1>7, <1>5
        <4>3. l + (g + 2) = l + g + 2 /\ l + (g + 3) = l + g + 3 /\ l + (g + 4) = l + g + 4
          BY ONLY <1>6
        <4>4. ASSUME NEW j \in 1..g PROVE Y[l + 1 + j] = b[j]
          <5>1. 1 + j \in 1..g + 4 /\ l + (1 + j) = l + 1 + j
            BY ONLY <1>6, j \in 1..g
          <5>2. Y[l + (1 + j)] = f[1 + j]
            BY ONLY <5>1, <1>7
          <5>3. QED
            BY ONLY <5>1, <5>2, <1>5, j \in 1..g
        <4>5. QED
          BY ONLY <4>2, <4>3, <4>4, <1>0 DEF Placed
      <3>4. l + (g + 4) = l + g + 4 /\ l + (g + 4) <= l + PipeBuf
        BY ONLY <1>6
      <3>5. QED
        BY ONLY <3>2, <3>3, <3>4, <1>3, <1>0
    <2>3. QED
      BY ONLY <2>1, <2>2, <1>1, d \in 1..N + 1
  <1>12. Laid(ms2, bs2, B2, Y)
    <2>1. 0 \in 0..N /\ N + 1 \in Nat
      BY ONLY <1>1
    <2>2. B2[0] = 0
      BY ONLY <2>1, <1>9, <1>2
    <2>3. Stream(bs2, N + 1, B2, Y)
      BY ONLY <2>1, <2>2, <1>7, <1>9, <1>10, <1>11 DEF Stream
    <2>4. QED
      BY ONLY <2>3, <1>1, <1>11 DEF Laid
  <1>13. B2[N + 1] > B[N]
    BY ONLY <1>9, <1>2, <1>6
  <1>14. QED
    BY ONLY <1>0, <1>9, <1>12, <1>13, ms2 = Append(ms, m)

(* Then it is behind the rest in the fifo.                                 *)
LEMMA FifoMore ==
  ASSUME NEW fs, NEW X \in Seq(Byte), NEW R, InFifo(fs, X, R), NEW f \in Seq(Byte)
  PROVE  InFifo(fs \o f, X \o f, R)
  <1> PICK n, l, k, Y, gs : n = Len(fs) /\ l = Len(X) /\ k = Len(f) /\ Y = X \o f /\ gs = fs \o f
    OBVIOUS
  <1>0. n = Len(fs) /\ l = Len(X) /\ k = Len(f) /\ Y = X \o f /\ gs = fs \o f
    OBVIOUS
  <1>1. /\ fs \in Seq(Byte) /\ R \in Nat /\ R + n = l
        /\ \A i \in 1..n : fs[i] = X[R + i]
    BY ONLY <1>0, InFifo(fs, X, R) DEF InFifo
  <1>2. n \in Nat /\ l \in Nat /\ k \in Nat
    BY ONLY <1>0, <1>1, X \in Seq(Byte), f \in Seq(Byte)
  <1>3. /\ Y \in Seq(Byte) /\ Len(Y) = l + k
        /\ \A i \in 1..l : Y[i] = X[i]
        /\ \A i \in 1..k : Y[l + i] = f[i]
    BY ONLY <1>0, X \in Seq(Byte), f \in Seq(Byte), Together
  <1>4. /\ gs \in Seq(Byte) /\ Len(gs) = n + k
        /\ \A i \in 1..n : gs[i] = fs[i]
        /\ \A i \in 1..k : gs[n + i] = f[i]
    BY ONLY <1>0, <1>1, f \in Seq(Byte), Together
  <1>5. ASSUME NEW i \in 1..n + k PROVE gs[i] = Y[R + i]
    <2>1. CASE i <= n
      <3>1. i \in 1..n /\ R + i \in 1..l
        BY ONLY <2>1, <1>1, <1>2, i \in 1..n + k
      <3>2. QED
        BY ONLY <3>1, <1>1, <1>3, <1>4
    <2>2. CASE ~(i <= n)
      <3>1. PICK j \in 1..k : i = n + j
        <4>1. i - n \in 1..k /\ i = n + (i - n)
          BY ONLY <2>2, <1>2, i \in 1..n + k
        <4>2. QED
          BY ONLY <4>1
      <3>2. R + i = l + j
        BY ONLY <3>1, <1>1, <1>2
      <3>3. QED
        BY ONLY <3>1, <3>2, <1>3, <1>4
    <2>3. QED
      BY ONLY <2>1, <2>2
  <1>6. R + (n + k) = l + k /\ l + k \in Nat
    BY ONLY <1>1, <1>2
  <1>7. InFifo(gs, Y, R)
    BY ONLY <1>1, <1>3, <1>4, <1>5, <1>6 DEF InFifo
  <1>8. QED
    BY ONLY <1>7, <1>0

(* And the ring is as it was.                                              *)
LEMMA RingStays ==
  ASSUME NEW ring, NEW from, NEW to, NEW S, NEW R, NEW X \in Seq(Byte), NEW f \in Seq(Byte),
         InRing(ring, from, to, X, S, R), R <= Len(X)
  PROVE  InRing(ring, from, to, X \o f, S, R)
  <1> PICK l, Y : l = Len(X) /\ Y = X \o f
    OBVIOUS
  <1>0. l = Len(X) /\ Y = X \o f
    OBVIOUS
  <1>1. /\ ring \in [0 .. PipeBuf - 1 -> Byte] /\ from \in 0 .. PipeBuf - 1 /\ to \in 0 .. PipeBuf - 1
        /\ S \in Nat /\ R \in Nat /\ S <= R /\ R - S < PipeBuf
        /\ to = Wrapped(from + (R - S))
        /\ \A i \in 1..R - S : ring[Wrapped(from + i - 1)] = X[S + i]
    BY ONLY InRing(ring, from, to, X, S, R) DEF InRing
  <1>2. \A i \in 1..l : Y[i] = X[i]
    BY ONLY <1>0, X \in Seq(Byte), f \in Seq(Byte), Together
  <1>3. R <= l /\ l \in Nat
    BY ONLY <1>0, X \in Seq(Byte), R <= Len(X)
  <1>4. ASSUME NEW i \in 1..R - S PROVE ring[Wrapped(from + i - 1)] = Y[S + i]
    <2>1. S + i \in 1..l
      BY ONLY <1>1, <1>3, i \in 1..R - S
    <2>2. QED
      BY ONLY <2>1, <1>1, <1>2, i \in 1..R - S
  <1>5. InRing(ring, from, to, Y, S, R)
    BY ONLY <1>1, <1>4 DEF InRing
  <1>6. QED
    BY ONLY <1>5, <1>0
(* A message m that is sent with a call of Send, or a registration.        *)
Comes(m, as, as2) ==
  /\ as2 \in Seq(Ask) /\ \A i \in 1..Len(as) : as2[i] = as[i]
  /\ \/ /\ m.type = TYPE_MESSAGE /\ Len(as2) = Len(as) + 1
        /\ m.data = as2[Len(as2)].name \o <<AT>> \o as2[Len(as2)].data
     \/ m.type # TYPE_MESSAGE /\ Len(as2) = Len(as) /\ m.data \in Registrations

(* q2 tells the same of the messages ms as q.                              *)
Longer(ms, q, q2) == \A i \in 0..Len(ms) : q2[i] = q[i]

(* It goes behind those there are.                                         *)
LEMMA LinkMore ==
  ASSUME NEW ms \in Seq(Message), NEW as, NEW q, Linked(ms, as, q), NEW m \in Message, Sendable(m),
         NEW as2, Comes(m, as, as2)
  PROVE  \E q2 : Linked(Append(ms, m), as2, q2) /\ Longer(ms, q, q2)
  <1>a. as2 \in Seq(Ask) /\ \A i \in 1..Len(as) : as2[i] = as[i]
    BY ONLY Comes(m, as, as2) DEF Comes
  <1>b. \/ /\ m.type = TYPE_MESSAGE /\ Len(as2) = Len(as) + 1
           /\ m.data = as2[Len(as2)].name \o <<AT>> \o as2[Len(as2)].data
        \/ m.type # TYPE_MESSAGE /\ Len(as2) = Len(as) /\ m.data \in Registrations
    BY ONLY Comes(m, as, as2) DEF Comes
  <1> PICK N, A, A2 : N = Len(ms) /\ A = Len(as) /\ A2 = Len(as2)
    OBVIOUS
  <1>0. N = Len(ms) /\ A = Len(as) /\ A2 = Len(as2)
    OBVIOUS
  <1> PICK ms2 : ms2 = Append(ms, m)
    OBVIOUS
  <1>1. N \in Nat /\ Len(ms2) = N + 1 /\ ms2[N + 1] = m /\ \A i \in 1..N : ms2[i] = ms[i]
    BY ONLY <1>0, ms2 = Append(ms, m), ms \in Seq(Message), m \in Message, AppendProperties
  <1>2. /\ as \in Seq(Ask) /\ q \in [0..N -> 0..A] /\ q[0] = 0 /\ q[N] = A
        /\ \A i \in 1..N : Sendable(ms[i]) /\ Asks(ms[i], i, as, q)
    BY ONLY <1>0, Linked(ms, as, q) DEF Linked
  <1>3. A \in Nat /\ A2 \in Nat /\ (A2 = A \/ A2 = A + 1)
    <2>1. A \in Nat /\ A2 \in Nat
      <3>1. as \in Seq(Ask)
        BY ONLY <1>2
      <3>2. Len(as) \in Nat /\ Len(as2) \in Nat
        BY ONLY <3>1, <1>a, LenProperties, Zenon
      <3>3. QED
        BY ONLY <3>2, <1>0
    <2>2. Len(as2) = Len(as) \/ Len(as2) = Len(as) + 1
      <3>1. CASE /\ m.type = TYPE_MESSAGE /\ Len(as2) = Len(as) + 1
                 /\ m.data = as2[Len(as2)].name \o <<AT>> \o as2[Len(as2)].data
        BY ONLY <3>1
      <3>2. CASE m.type # TYPE_MESSAGE /\ Len(as2) = Len(as) /\ m.data \in Registrations
        BY ONLY <3>2
      <3>3. QED
        BY ONLY <3>1, <3>2, <1>b
    <2>3. QED
      BY ONLY <2>1, <2>2, <1>0
  <1> PICK q2 : q2 = [i \in 0..N + 1 |-> IF i <= N THEN q[i] ELSE A2]
    OBVIOUS
  <1>4. /\ \A i \in 0..N : q2[i] = q[i] /\ q[i] \in Nat /\ q[i] <= A
        /\ q2[N + 1] = A2
        /\ q2 \in [0..N + 1 -> 0..A2]
    BY ONLY <1>1, <1>2, <1>3, q2 = [i \in 0..N + 1 |-> IF i <= N THEN q[i] ELSE A2]
  <1>5. ASSUME NEW i \in 1..N + 1 PROVE Sendable(ms2[i]) /\ Asks(ms2[i], i, as2, q2)
    <2>1. CASE i <= N
      <3> PICK k, h, o, w : k = q[i] /\ h = q[i - 1] /\ o = ms[i] /\ w = i - 1
        OBVIOUS
      <3>0. k = q[i] /\ h = q[i - 1] /\ o = ms[i] /\ w = i - 1
        OBVIOUS
      <3>1. i \in 1..N /\ w \in 0..N /\ i \in 0..N
        BY ONLY <2>1, <1>1, <3>0, i \in 1..N + 1
      <3>2. Sendable(o) /\ Asks(o, i, as, q)
        BY ONLY <3>0, <3>1, <1>2
      <3>3. q2[i] = k /\ q2[w] = h /\ q[w] = h /\ ms2[i] = o /\ k \in Nat /\ h \in Nat /\ k <= A
        <4>1. q2[i] = q[i] /\ q[i] \in Nat /\ q[i] <= A
          BY ONLY <3>1, <1>4
        <4>2. q2[w] = q[w] /\ q[w] \in Nat
          BY ONLY <3>1, <1>4
        <4>3. ms2[i] = ms[i]
          <5>1. i \in 1..N
            BY ONLY <3>1
          <5>2. \A j \in 1..N : ms2[j] = ms[j]
            BY ONLY <1>1, Zenon
          <5>3. QED
            BY ONLY <5>1, <5>2, Zenon
        <4>4. QED
          BY ONLY <4>1, <4>2, <4>3, <3>0
      <3>4. CASE o.type = TYPE_MESSAGE
        <4>1. k = h + 1 /\ o.data = as[k].name \o <<AT>> \o as[k].data
          BY ONLY <3>2, <3>0, <3>4 DEF Asks
        <4>2. k \in 1..A
          BY ONLY <4>1, <3>3, <1>3
        <4>3. as2[k] = as[k]
          BY ONLY <4>2, <1>0, <1>a
        <4>4. q2[i] = q2[i - 1] + 1 /\ o.data = as2[q2[i]].name \o <<AT>> \o as2[q2[i]].data
          BY ONLY <4>1, <4>3, <3>3, <3>0
        <4>5. QED
          BY ONLY <4>4, <3>2, <3>3, <3>4 DEF Asks
      <3>5. CASE o.type # TYPE_MESSAGE
        <4>1. k = h /\ o.data \in Registrations
          BY ONLY <3>2, <3>0, <3>5 DEF Asks
        <4>2. q2[i] = q2[i - 1] /\ o.data \in Registrations
          BY ONLY <4>1, <3>3, <3>0
        <4>3. QED
          BY ONLY <4>2, <3>2, <3>3, <3>5 DEF Asks
      <3>6. QED
        BY ONLY <3>4, <3>5
    <2>2. CASE i = N + 1
      <3>1. i - 1 = N /\ N \in 0..N
        BY ONLY <2>2, <1>1
      <3>2. q2[i - 1] = A /\ q2[i] = A2 /\ ms2[i] = m
        BY ONLY <3>1, <2>2, <1>1, <1>2, <1>4
      <3>3. CASE /\ m.type = TYPE_MESSAGE /\ Len(as2) = Len(as) + 1
                 /\ m.data = as2[Len(as2)].name \o <<AT>> \o as2[Len(as2)].data
        <4>1. A2 = A + 1 /\ m.data = as2[A2].name \o <<AT>> \o as2[A2].data
          BY ONLY <3>3, <1>0
        <4>2. q2[i] = q2[i - 1] + 1 /\ m.data = as2[q2[i]].name \o <<AT>> \o as2[q2[i]].data
          BY ONLY <4>1, <3>2
        <4>3. QED
          BY ONLY <4>2, <3>2, <3>3, Sendable(m) DEF Asks
      <3>4. CASE m.type # TYPE_MESSAGE /\ Len(as2) = Len(as) /\ m.data \in Registrations
        <4>1. q2[i] = q2[i - 1]
          BY ONLY <3>4, <3>2, <1>0
        <4>2. QED
          BY ONLY <4>1, <3>2, <3>4, Sendable(m) DEF Asks
      <3>5. QED
        BY ONLY <3>3, <3>4, <1>b
    <2>3. QED
      BY ONLY <2>1, <2>2, <1>1, i \in 1..N + 1
  <1>6. Linked(ms2, as2, q2)
    <2>1. 0 \in 0..N
      BY ONLY <1>1
    <2>2. q2[0] = 0
      BY ONLY <2>1, <1>2, <1>4
    <2>3. Len(ms2) \in Nat /\ as2 \in Seq(Ask) /\ q2 \in [0..Len(ms2) -> 0..Len(as2)]
      BY ONLY <1>0, <1>1, <1>4, <1>a
    <2>4. q2[Len(ms2)] = Len(as2)
      BY ONLY <1>0, <1>1, <1>4
    <2>5. \A i \in 1..Len(ms2) : Sendable(ms2[i]) /\ Asks(ms2[i], i, as2, q2)
      BY ONLY <1>5, <1>1
    <2>6. QED
      BY ONLY <2>2, <2>3, <2>4, <2>5 DEF Linked
  <1>7. Longer(ms, q, q2)
    BY ONLY <1>0, <1>4 DEF Longer
  <1>8. QED
    BY ONLY <1>6, <1>7, ms2 = Append(ms, m)

(* What is published stays what was asked first.                           *)
LEMMA PublishedStays ==
  ASSUME NEW ms, NEW as, NEW q, Linked(ms, as, q), NEW d \in 0..Len(ms), NEW pub,
         PublishedUpTo(pub, as, q[d]), NEW as2, \A i \in 1..Len(as) : as2[i] = as[i],
         NEW q2, q2[d] = q[d]
  PROVE  PublishedUpTo(pub, as2, q2[d])
  <1> PICK N, A, k : N = Len(ms) /\ A = Len(as) /\ k = q[d]
    OBVIOUS
  <1>0. N = Len(ms) /\ A = Len(as) /\ k = q[d]
    OBVIOUS
  <1>1. N \in Nat /\ as \in Seq(Ask) /\ q \in [0..N -> 0..A]
    <2>1. Len(ms) \in Nat /\ as \in Seq(Ask) /\ q \in [0..Len(ms) -> 0..Len(as)]
      BY ONLY Linked(ms, as, q) DEF Linked
    <2>2. QED
      BY ONLY <1>0, <2>1
  <1>2. A \in Nat
    <2>1. as \in Seq(Ask)
      BY ONLY <1>1
    <2>2. Len(as) \in Nat
      BY ONLY <2>1, LenProperties, Zenon
    <2>3. QED
      BY ONLY <2>2, <1>0
  <1>3. k \in 0..A
    BY ONLY <1>0, <1>1, d \in 0..Len(ms)
  <1>4. pub \in Seq(Ask) /\ Len(pub) = k /\ \A i \in 1..k : pub[i] = as[i]
    BY ONLY <1>0, PublishedUpTo(pub, as, q[d]) DEF PublishedUpTo
  <1>5. \A i \in 1..k : i \in 1..A
    BY ONLY <1>2, <1>3
  <1>6. \A i \in 1..k : pub[i] = as2[i]
    BY ONLY <1>0, <1>4, <1>5, \A i \in 1..Len(as) : as2[i] = as[i]
  <1>7. PublishedUpTo(pub, as2, k)
    BY ONLY <1>4, <1>6 DEF PublishedUpTo
  <1>8. QED
    BY ONLY <1>0, <1>7, q2[d] = q[d]
-----------------------------------------------------------------------------
(* The plugins a message goes to.                                          *)

(* They are plugins, for every receiver has the name of a plugin's fifo.   *)
LEMMA SubscribedIs ==
  ASSUME NEW name, receivers \in Seq(Receiver)
  PROVE  Subscribed(name) \in Seq(Plugins)
  <1> PICK r, n : r = receivers /\ n = Len(receivers)
    OBVIOUS
  <1>0. r \in Seq(Receiver) /\ n = Len(r) /\ n \in Nat /\ r = receivers
    OBVIOUS
  <1> DEFINE Whose(i) == CHOOSE p \in FifoOf(r[i].pipe) : TRUE
             To(i) == IF r[i].name = name THEN <<Whose(i)>> ELSE <<>>
             V == Seq(Plugins)
             D    == 1..n + 1
             Stop == {n + 1}
             next == [i \in D |-> i + 1]
             base == [i \in D |-> <<>>]
             op   == [y \in D \X V |-> IF y[1] \in 1..n THEN To(y[1]) \o y[2] ELSE <<>>]
             rank == [i \in D |-> n + 1 - i]
  <1>1. ASSUME NEW i \in 1..n PROVE To(i) \in V
    <2>1. r[i] \in Receiver
      BY ONLY <1>0, i \in 1..n
    <2>2. FifoOf(r[i].pipe) # {}
      BY ONLY <2>1 DEF Receiver
    <2>3. Whose(i) \in FifoOf(r[i].pipe)
      BY ONLY <2>2
    <2> HIDE DEF Whose
    <2>4. Whose(i) \in Plugins
      BY ONLY <2>3 DEF FifoOf
    <2>5. QED
      BY ONLY <2>4
  <1> HIDE DEF To
  <1>2. op \in [D \X V -> V]
    <2> DEFINE At(y) == IF y[1] \in 1..n THEN To(y[1]) \o y[2] ELSE <<>>
    <2>1. ASSUME NEW y \in D \X V PROVE At(y) \in V
      <3>1. y[2] \in Seq(Plugins)
        OBVIOUS
      <3>2. CASE y[1] \in 1..n
        <4>1. To(y[1]) \in Seq(Plugins)
          BY ONLY <3>2, <1>1
        <4>2. To(y[1]) \o y[2] \in Seq(Plugins)
          BY ONLY <4>1, <3>1
        <4>3. QED
          BY ONLY <3>2, <4>2
      <3>3. CASE y[1] \notin 1..n
        BY ONLY <3>3
      <3>4. QED
        BY ONLY <3>2, <3>3
    <2>2. op = [y \in D \X V |-> At(y)]
      OBVIOUS
    <2>3. QED
      <3> HIDE DEF At, op, D, V
      <3> QED BY ONLY <2>1, <2>2
  <1>3. Recursion(D, V, Stop, next, base, op, rank, n)
    <2>1. rank \in [D -> Nat] /\ \A i \in D : rank[i] <= n
      BY ONLY <1>0
    <2>2. \A i \in D : i \in Stop => base[i] \in V
      OBVIOUS
    <2>3. \A i \in D : i \notin Stop => next[i] \in D /\ rank[next[i]] < rank[i]
      BY ONLY <1>0
    <2> HIDE DEF D, V, Stop, next, base, op, rank
    <2>4. QED
      BY ONLY <1>0, <1>2, <2>1, <2>2, <2>3 DEF Recursion
  <1>4. \E f \in [D -> V] :
          f = [i \in D |-> IF i \in Stop THEN base[i] ELSE op[<<i, f[next[i]]>>]]
    <2> HIDE DEF D, V, Stop, next, base, op, rank
    <2> QED BY ONLY <1>3, RecursionExists
  <1> DEFINE Eq(f) == f = [i \in 1..Len(receivers) + 1 |->
                             IF i > Len(receivers) THEN <<>>
                             ELSE (IF receivers[i].name = name
                                   THEN <<CHOOSE p \in FifoOf(receivers[i].pipe) : TRUE>> ELSE <<>>)
                                  \o f[i + 1]]
  <1>a. ASSUME NEW f PROVE Eq(f) <=> f = [i \in 1..n + 1 |-> IF i > n THEN <<>> ELSE To(i) \o f[i + 1]]
    BY ONLY <1>0 DEF To
  <1>5. \E f : Eq(f)
    <2>1. PICK f \in [D -> V] :
            f = [i \in D |-> IF i \in Stop THEN base[i] ELSE op[<<i, f[next[i]]>>]]
      <3> HIDE DEF D, V, Stop, next, base, op, rank
      <3> QED BY ONLY <1>4
    <2>2. ASSUME NEW i \in D
          PROVE  (IF i \in Stop THEN base[i] ELSE op[<<i, f[next[i]]>>])
                   = IF i > n THEN <<>> ELSE To(i) \o f[i + 1]
      <3>1. CASE i \in Stop
        BY ONLY <3>1, <1>0, i \in D
      <3>2. CASE i \notin Stop
        <4>1. i \in 1..n /\ i + 1 \in D /\ ~(i > n)
          BY ONLY <3>2, <1>0, i \in D
        <4>2. f[i + 1] \in V /\ next[i] = i + 1
          <5> HIDE DEF V
          <5> QED BY ONLY <4>1, f \in [D -> V]
        <4>3. <<i, f[i + 1]>> \in D \X V
          BY ONLY <4>2, i \in D
        <4>4. op[<<i, f[i + 1]>>] = To(i) \o f[i + 1]
          <5> HIDE DEF V
          <5> QED BY ONLY <4>1, <4>3
        <4>5. QED
          <5> HIDE DEF op, next, Stop, D, base
          <5> QED BY ONLY <3>2, <4>1, <4>2, <4>4
      <3>3. QED
        BY ONLY <3>1, <3>2
    <2>3. f = [i \in D |-> IF i > n THEN <<>> ELSE To(i) \o f[i + 1]]
      <3> HIDE DEF op, next, Stop, base, D
      <3> QED BY ONLY <2>1, <2>2
    <2>4. Eq(f)
      <3> HIDE DEF Eq
      <3> QED BY ONLY <2>3, <1>a
    <2>5. QED
      <3> HIDE DEF Eq
      <3> QED BY ONLY <2>4
  <1> DEFINE f == CHOOSE g : Eq(g)
  <1>6. Eq(f)
    <2> HIDE DEF Eq
    <2> QED BY ONLY <1>5
  <1>7. Subscribed(name) = f[1]
    BY DEF Subscribed
  <1> PICK g : g = f
    OBVIOUS
  <1>8. g[n + 1] = <<>> /\ \A i \in 1..n : g[i] = To(i) \o g[i + 1]
    <2>1. g = [i \in 1..n + 1 |-> IF i > n THEN <<>> ELSE To(i) \o g[i + 1]]
      <3>1. Eq(g)
        <4> HIDE DEF Eq, f
        <4> QED BY ONLY <1>6, g = f
      <3> HIDE DEF Eq
      <3>2. QED
        BY ONLY <3>1, <1>a
    <2>2. n + 1 \in 1..n + 1 /\ n + 1 > n /\ \A i \in 1..n : i \in 1..n + 1 /\ ~(i > n)
      BY ONLY <1>0
    <2>3. QED
      BY ONLY <2>1, <2>2
  <1> DEFINE Good(i) == g[i] \in Seq(Plugins)
             Bad == {k \in 0..n : ~Good(n + 1 - k)}
  <1>9. Good(n + 1)
    BY ONLY <1>8
  <1>10. ASSUME NEW i \in 1..n, Good(i + 1) PROVE Good(i)
    <2>1. To(i) \in Seq(Plugins)
      BY ONLY <1>1, i \in 1..n
    <2>2. To(i) \o g[i + 1] \in Seq(Plugins)
      BY ONLY <2>1, Good(i + 1)
    <2>3. QED
      BY ONLY <2>2, <1>8, i \in 1..n
  <1>11. Bad = {}
    <2>1. SUFFICES ASSUME Bad # {} PROVE FALSE
      OBVIOUS
    <2>2. PICK k \in Bad : \A j \in Bad : k <= j
      <3>1. Bad \subseteq Nat
        <4> HIDE DEF Good
        <4> QED BY ONLY <1>0
      <3>2. QED
        <4> HIDE DEF Bad
        <4> QED BY <2>1, <3>1, NatMin
    <2>3. k \in 0..n /\ ~Good(n + 1 - k)
      <3> HIDE DEF Good
      <3> QED OBVIOUS
    <2> HIDE DEF Good
    <2>4. k # 0
      <3>1. k = 0 => n + 1 - k = n + 1
        BY ONLY <1>0
      <3>2. QED
        BY ONLY <2>3, <1>9, <3>1
    <2>5. n + 1 - k \in 1..n /\ n + 1 - k + 1 = n + 1 - (k - 1) /\ k - 1 \in 0..n /\ ~(k <= k - 1)
      BY ONLY <2>3, <2>4, <1>0
    <2>6. Good(n + 1 - (k - 1))
      BY <2>2, <2>5
    <2>7. Good(n + 1 - k)
      BY ONLY <2>5, <2>6, <1>10
    <2>8. QED
      BY ONLY <2>3, <2>7
  <1>12. Good(1)
    <2>1. n \in 0..n /\ n + 1 - n = 1
      BY ONLY <1>0
    <2>2. n \notin Bad
      BY ONLY <1>11
    <2> HIDE DEF Good
    <2>3. QED
      BY <2>1, <2>2
  <1>13. QED
    <2> HIDE DEF f
    <2> QED BY ONLY <1>12, <1>7, g = f
-----------------------------------------------------------------------------
(* A turn of the server.                                                   *)

(* With D of N frames dispatched the ring holds the next one, if it has    *)
(* come in part, or up to three bytes that begin with the ff at the end of *)
(* the last one.                                                           *)
Behind(S, R, B, D, N) ==
  /\ D \in 0..N
  /\ S = B[D] \/ (D >= 1 /\ S = B[D] - 2 /\ R - S <= 3)
  /\ D < N => R < B[D + 1]

(* What is read leaves the fifo.                                           *)
LEMMA FifoShrinks ==
  ASSUME NEW fs, NEW X, NEW R, InFifo(fs, X, R), NEW count \in Nat, count <= Len(fs)
  PROVE  InFifo(SubSeq(fs, count + 1, Len(fs)), X, R + count)
  <1> PICK n, l, gs : n = Len(fs) /\ l = Len(X) /\ gs = SubSeq(fs, count + 1, Len(fs))
    OBVIOUS
  <1>0. n = Len(fs) /\ l = Len(X) /\ gs = SubSeq(fs, count + 1, n)
    OBVIOUS
  <1>1. /\ fs \in Seq(Byte) /\ R \in Nat /\ l \in Nat /\ R + n = l
        /\ \A i \in 1..n : fs[i] = X[R + i]
    BY ONLY <1>0, InFifo(fs, X, R) DEF InFifo
  <1>2. n \in Nat /\ count <= n
    BY ONLY <1>0, <1>1, count <= Len(fs)
  <1>3. gs \in Seq(Byte) /\ Len(gs) = n - count /\ \A i \in 1..n - count : gs[i] = fs[count + i]
    BY ONLY <1>0, <1>1, <1>2, count \in Nat
  <1>4. ASSUME NEW i \in 1..n - count PROVE gs[i] = X[R + count + i]
    <2>1. count + i \in 1..n /\ R + (count + i) = R + count + i
      BY ONLY <1>1, <1>2, count \in Nat, i \in 1..n - count
    <2>2. fs[count + i] = X[R + (count + i)]
      BY ONLY <2>1, <1>1
    <2>3. QED
      BY ONLY <2>1, <2>2, <1>3
  <1>5. R + count \in Nat /\ R + count + (n - count) = l
    BY ONLY <1>1, <1>2, count \in Nat
  <1>6. InFifo(gs, X, R + count)
    BY ONLY <1>0, <1>1, <1>3, <1>4, <1>5 DEF InFifo
  <1>7. QED
    BY ONLY <1>0, <1>6

(* A turn delivers the frames that are complete and leaves the rest.       *)
TurnEnds(r, ms, bs, B, X, D, d, n, S2, R2, ring2, from2, to2, fs2) ==
  /\ r.out \in Seq(Seq(Byte)) /\ Delivered(r.out, D, d, bs, n)
  /\ Behind(S2, R2, B, d, Len(ms))
  /\ InRing(ring2, from2, to2, X, S2, R2)
  /\ InFifo(fs2, X, R2)
(* A turn of the dispatcher takes a window of the stream to a later one.   *)
LEMMA TurnIs ==
  ASSUME NEW ms, NEW bs, NEW B, NEW X, Laid(ms, bs, B, X), NEW S, NEW R, NEW D,
         NEW ring, NEW from, NEW to, InRing(ring, from, to, X, S, R),
         NEW fs, InFifo(fs, X, R), Behind(S, R, B, D, Len(ms)),
         NEW count \in 1..PipeBuf, count <= Free(from, to), count <= Len(fs),
         NEW ring2, NEW to2, to2 = (to + count) % PipeBuf,
         ring2 = Filled(ring, to, count, fs),
         NEW r, r = DetectMessages(Bytes(ring2, from, to2)),
         NEW from2, from2 = (from + r.done) % PipeBuf
  PROVE  \E d \in D..Len(ms) : \E n, S2, R2 :
           TurnEnds(r, ms, bs, B, X, D, d, n, S2, R2, ring2, from2, to2,
                    SubSeq(fs, count + 1, Len(fs)))
  <1> PICK N, P, L, W, done : /\ N = Len(ms) /\ P = PipeBuf /\ L = R + count - S
                              /\ W = Bytes(ring2, from, to2) /\ done = r.done
    OBVIOUS
  <1>0. /\ N = Len(ms) /\ P = PipeBuf /\ L = R + count - S
        /\ W = Bytes(ring2, from, to2) /\ done = r.done
    OBVIOUS
  <1>1. P \in Nat /\ P >= 8 /\ count \in Nat /\ count >= 1
    BY ONLY <1>0, PipeAssumption, count \in 1..PipeBuf DEF PipeAssumption
  <1>2. Stream(bs, N, B, X) /\ \A i \in 1..N : B[i] <= B[i - 1] + P
    BY ONLY <1>0, Laid(ms, bs, B, X) DEF Laid
  <1>3. N \in Nat /\ B \in [0..N -> Nat] /\ X \in Seq(Byte) /\ Len(X) = B[N]
    BY ONLY <1>2 DEF Stream
  <1>4. /\ from \in 0 .. PipeBuf - 1 /\ S \in Nat /\ R \in Nat
    BY ONLY InRing(ring, from, to, X, S, R) DEF InRing
  <1>5. /\ L \in 1..PipeBuf /\ ring2 \in [0 .. PipeBuf - 1 -> Byte]
        /\ to2 = Wrapped(from + L) /\ to2 \in 0 .. PipeBuf - 1
        /\ \A i \in 1..L : ring2[Wrapped(from + i - 1)] = X[S + i]
        /\ Window(Bytes(ring2, from, to2), X, S, L)
    <2>1. L = R + count - S
      BY ONLY <1>0
    <2>2. X \in Seq(Byte)
      BY ONLY <1>3
    <2>3. QED
      BY ONLY <2>1, <2>2, RingReads, InRing(ring, from, to, X, S, R), InFifo(fs, X, R),
              count \in 1..PipeBuf, count <= Free(from, to), count <= Len(fs),
              to2 = (to + count) % PipeBuf, ring2 = Filled(ring, to, count, fs)
  <1>6. L \in Nat /\ L >= 1 /\ L <= P
    BY ONLY <1>0, <1>1, <1>5
  <1>7. D \in 0..N /\ (S = B[D] \/ (D >= 1 /\ S = B[D] - 2))
    <2>1. Behind(S, R, B, D, N)
      BY ONLY <1>0, Behind(S, R, B, D, Len(ms))
    <2>2. QED
      BY ONLY <2>1 DEF Behind
  <1>8. Window(W, X, S, L)
    BY ONLY <1>0, <1>5
  <1>9. PICK d \in D..N : Detected(r, S, L, bs, N, B, D, d)
    <2>1. r = DetectMessages(W)
      BY ONLY <1>0, r = DetectMessages(Bytes(ring2, from, to2))
    <2>2. QED
      BY ONLY <2>1, <1>2, <1>6, <1>7, <1>8, DetectsFrames
  <1>10. /\ r.out \in Seq(Seq(Byte)) /\ done \in 0..L
         /\ \E n : Delivered(r.out, D, d, bs, n)
         /\ S + done = B[d] \/ (d >= 1 /\ S + done = B[d] - 2 /\ L <= done + 3)
         /\ d < N => S + L < B[d + 1]
    BY ONLY <1>9, <1>0 DEF Detected, Left3
  <1>11. d \in 0..N /\ d \in Nat
    BY ONLY <1>3, <1>7, d \in D..N
  <1>12. B[d] \in Nat
    BY ONLY <1>3, <1>11
  <1>13. L - done < P
    <2>1. CASE d < N
      <3>1. d + 1 \in 1..N /\ d + 1 \in 0..N /\ d + 1 - 1 = d
        BY ONLY <2>1, <1>3, <1>11
      <3>2. B[d + 1] <= B[d] + P /\ B[d + 1] \in Nat
        BY ONLY <3>1, <1>2, <1>3
      <3>3. QED
        BY ONLY <3>2, <2>1, <1>1, <1>4, <1>6, <1>10, <1>12
    <2>2. CASE d = N
      <3>1. S + L <= Len(X)
        BY ONLY <1>8 DEF Window
      <3>2. S + L <= B[d]
        BY ONLY <3>1, <2>2, <1>3
      <3>3. QED
        BY ONLY <3>2, <1>1, <1>4, <1>6, <1>10, <1>12
    <2>3. QED
      BY ONLY <2>1, <2>2, <1>3, <1>11, d \in D..N
  <1>14. InRing(ring2, from2, to2, X, S + done, S + L)
    <2>1. from2 = (from + done) % PipeBuf /\ L - done < PipeBuf
      BY ONLY <1>0, <1>13, from2 = (from + r.done) % PipeBuf
    <2>2. QED
      BY ONLY <2>1, <1>4, <1>5, <1>10, RingMoves
  <1>15. S + L = R + count
    BY ONLY <1>0, <1>1, <1>4
  <1>16. InFifo(SubSeq(fs, count + 1, Len(fs)), X, S + L)
    BY ONLY <1>15, <1>1, FifoShrinks, InFifo(fs, X, R), count <= Len(fs)
  <1>17. Behind(S + done, S + L, B, d, Len(ms))
    <2>1. (S + L) - (S + done) = L - done
      BY ONLY <1>4, <1>6, <1>10
    <2>2. L <= done + 3 => (S + L) - (S + done) <= 3
      BY ONLY <2>1, <1>6, <1>10
    <2>3. QED
      BY ONLY <2>2, <1>10, <1>11, <1>0 DEF Behind
  <1>18. PICK n : Delivered(r.out, D, d, bs, n)
    BY ONLY <1>10
  <1>19. TurnEnds(r, ms, bs, B, X, D, d, n, S + done, S + L, ring2, from2, to2,
                  SubSeq(fs, count + 1, Len(fs)))
    BY ONLY <1>10, <1>14, <1>16, <1>17, <1>18 DEF TurnEnds
  <1>20. d \in D..Len(ms)
    BY ONLY <1>0, d \in D..N
  <1>21. QED
    BY ONLY <1>19, <1>20
-----------------------------------------------------------------------------
(* The invariant: the bytes of the messages sent are those the server has  *)
(* been through, those in its ring and those in its fifo, and what it has  *)
(* published is what was asked for by the messages it has dispatched.      *)
Flow(ms, D, fs, ring, from, to) ==
  \E bs, B, X, S, R : /\ Laid(ms, bs, B, X) /\ Behind(S, R, B, D, Len(ms))
                      /\ InRing(ring, from, to, X, S, R) /\ InFifo(fs, X, R)
Link(ms, D, as, pub) ==
  \E q : Linked(ms, as, q) /\ D \in 0..Len(ms) /\ PublishedUpTo(pub, as, q[D])
Both(ms, D, fs, ring, from, to, as, pub) ==
  ms \in Seq(Message) /\ Flow(ms, D, fs, ring, from, to) /\ Link(ms, D, as, pub)

(* A letter is a message and what of it Send was given; it fits the buffer *)
(* of PSend.                                                               *)
AskedFor(m, ask) ==
  \/ /\ m.type = TYPE_MESSAGE /\ Len(ask) = 1
     /\ m.data = ask[1].name \o <<AT>> \o ask[1].data
  \/ m.type # TYPE_MESSAGE /\ Len(ask) = 0 /\ m.data \in Registrations
Ready(l) ==
  /\ l.message \in Message /\ Sendable(l.message) /\ Len(PSend(l.message)) <= PipeBuf
  /\ l.ask \in Seq(Ask) /\ AskedFor(l.message, l.ask)
Posted(readers, pipes, letters, to) ==
  /\ DOMAIN readers = Plugins \cup {Server} /\ DOMAIN pipes = Plugins \cup {Server}
  /\ DOMAIN letters = Plugins
  /\ \A p \in Plugins : pipes[p] = "open" => Ready(letters[p])
  /\ to \in Seq(Plugins) /\ (pipes[Server] # "closed" => to # <<>>)

Typed ==
  /\ Fifos(fifo)
  /\ receivers \in Seq(Receiver)
  /\ pluginId \in [Plugins -> Int] /\ mid \in [Plugins -> Nat \cup {-1}]
  /\ dispatched \in Seq(Message)

(* While the server has its fifo not open, or at its end, the same holds   *)
(* of what had been sent when it came to the end and of an empty fifo: so  *)
(* what was written since may be thrown away.                              *)
IInv ==
  /\ Typed /\ Posted(reader, writer, letter, targets)
  /\ Both(sent, Len(dispatched), fifo[Server], queue, start, end, asked, published)
  /\ reader[Server] # "open" =>
       Both(kept.sent, Len(dispatched), <<>>, queue, start, end, kept.asked, published)

(* A write to the server's fifo keeps the flow.                            *)
LEMMA FlowMore ==
  ASSUME NEW ms \in Seq(Message), NEW D, NEW fs, NEW ring, NEW from, NEW to,
         Flow(ms, D, fs, ring, from, to), NEW m \in Message, Sendable(m), Len(PSend(m)) <= PipeBuf
  PROVE  Flow(Append(ms, m), D, fs \o PSend(m), ring, from, to)
  <1>1. PICK bs, B, X, S, R : /\ Laid(ms, bs, B, X) /\ Behind(S, R, B, D, Len(ms))
                              /\ InRing(ring, from, to, X, S, R) /\ InFifo(fs, X, R)
    BY ONLY Flow(ms, D, fs, ring, from, to) DEF Flow
  <1> PICK N, f, ms2 : N = Len(ms) /\ f = PSend(m) /\ ms2 = Append(ms, m)
    OBVIOUS
  <1>0. N = Len(ms) /\ f = PSend(m) /\ ms2 = Append(ms, m)
    OBVIOUS
  <1>2. N \in Nat /\ Len(ms2) = N + 1
    BY ONLY <1>0, ms \in Seq(Message), m \in Message, AppendProperties
  <1>3. X \in Seq(Byte) /\ Len(X) = B[N] /\ B \in [0..N -> Nat]
    BY ONLY <1>0, <1>1 DEF Laid, Stream
  <1>4. f \in Seq(Byte)
    <2>1. IsFrame(f, Body(m))
      BY ONLY <1>0, PSendIs, Sendable(m)
    <2>2. QED
      BY ONLY <2>1 DEF IsFrame
  <1>5. PICK bs2, B2 : /\ Laid(ms2, bs2, B2, X \o f)
                       /\ \A i \in 0..N : B2[i] = B[i]
                       /\ B2[N + 1] > B[N]
    BY ONLY <1>0, <1>1, LaidMore, ms \in Seq(Message), m \in Message, Sendable(m), Len(PSend(m)) <= PipeBuf
  <1>6. InFifo(fs \o f, X \o f, R)
    BY ONLY <1>1, <1>3, <1>4, FifoMore
  <1>7. R \in Nat /\ R <= Len(X)
    <2>1. fs \in Seq(Byte) /\ R \in Nat /\ R + Len(fs) = Len(X)
      BY ONLY <1>1 DEF InFifo
    <2>2. QED
      BY ONLY <2>1
  <1>8. InRing(ring, from, to, X \o f, S, R)
    BY ONLY <1>1, <1>3, <1>4, <1>7, RingStays
  <1>9. Behind(S, R, B2, D, N + 1)
    <2>1. /\ D \in 0..N
          /\ S = B[D] \/ (D >= 1 /\ S = B[D] - 2 /\ R - S <= 3)
          /\ D < N => R < B[D + 1]
      BY ONLY <1>0, <1>1 DEF Behind
    <2>2. B2[D] = B[D] /\ D \in 0..N + 1
      BY ONLY <2>1, <1>2, <1>5
    <2>3. R < B2[D + 1]
      <3>1. CASE D < N
        <4>1. D + 1 \in 0..N
          BY ONLY <3>1, <2>1, <1>2
        <4>2. QED
          BY ONLY <4>1, <3>1, <2>1, <1>5
      <3>2. CASE D = N
        <4>1. B[N] \in Nat /\ B2[N + 1] \in Nat
          <5>1. B2 \in [0..N + 1 -> Nat]
            BY ONLY <1>5, <1>2 DEF Laid, Stream
          <5>2. QED
            BY ONLY <5>1, <1>3, <1>2
        <4>2. QED
          BY ONLY <4>1, <3>2, <1>3, <1>5, <1>7
      <3>3. QED
        BY ONLY <3>1, <3>2, <2>1, <1>2
    <2>4. QED
      BY ONLY <2>1, <2>2, <2>3 DEF Behind
  <1>10. Flow(ms2, D, fs \o f, ring, from, to)
    BY ONLY <1>2, <1>5, <1>6, <1>8, <1>9 DEF Flow
  <1>11. QED
    BY ONLY <1>10, <1>0

(* One more message, with the call of Send it comes from, keeps the link.  *)
LEMMA LinkKeeps ==
  ASSUME NEW ms \in Seq(Message), NEW D, NEW as, NEW pub, Link(ms, D, as, pub),
         NEW m \in Message, Sendable(m),
         NEW as2, Comes(m, as, as2)
  PROVE  Link(Append(ms, m), D, as2, pub)
  <1>1. PICK q : Linked(ms, as, q) /\ D \in 0..Len(ms) /\ PublishedUpTo(pub, as, q[D])
    BY ONLY Link(ms, D, as, pub) DEF Link
  <1>2. PICK q2 : Linked(Append(ms, m), as2, q2) /\ Longer(ms, q, q2)
    <2>1. Linked(ms, as, q)
      BY ONLY <1>1
    <2>2. QED
      BY ONLY <2>1, LinkMore, ms \in Seq(Message), m \in Message, Sendable(m), Comes(m, as, as2), Zenon
  <1>3. q2[D] = q[D]
    BY ONLY <1>1, <1>2 DEF Longer
  <1>4. PublishedUpTo(pub, as2, q2[D])
    <2>1. \A i \in 1..Len(as) : as2[i] = as[i]
      BY ONLY Comes(m, as, as2) DEF Comes
    <2>2. QED
      BY ONLY <1>1, <1>3, <2>1, PublishedStays
  <1>5. D \in 0..Len(Append(ms, m))
    <2>1. Len(Append(ms, m)) = Len(ms) + 1 /\ Len(ms) \in Nat
      BY ONLY ms \in Seq(Message), m \in Message, AppendProperties
    <2>2. QED
      BY ONLY <2>1, <1>1
  <1>6. QED
    BY ONLY <1>2, <1>4, <1>5 DEF Link

(* A turn, by what it makes of the fifo, the ring and the server's state.  *)
Turns(s, t, count, r, fs, fs2, ring, ring2, from, from2, to, to2) ==
  /\ fs2 = SubSeq(fs, count + 1, Len(fs))
  /\ to2 = (to + count) % PipeBuf /\ ring2 = Filled(ring, to, count, fs)
  /\ r = DetectMessages(Bytes(ring2, from, to2)) /\ from2 = (from + r.done) % PipeBuf
  /\ t = OnPipeMessages(s, r.out)

(* A turn keeps both.                                                      *)
LEMMA TurnKeeps ==
  ASSUME NEW ms, NEW D, NEW fs, NEW ring, NEW from, NEW to, NEW as, NEW s,
         Flow(ms, D, fs, ring, from, to), Link(ms, D, as, s.published),
         NEW count \in 1..PipeBuf, count <= Free(from, to), count <= Len(fs),
         NEW t, NEW r, NEW fs2, NEW ring2, NEW from2, NEW to2,
         Turns(s, t, count, r, fs, fs2, ring, ring2, from, from2, to, to2),
         Serves(s, fs2), s.dispatched \in Seq(Message), Len(s.dispatched) = D
  PROVE  /\ Serves(t, fs2) /\ t.dispatched \in Seq(Message)
         /\ Flow(ms, Len(t.dispatched), fs2, ring2, from2, to2)
         /\ Link(ms, Len(t.dispatched), as, t.published)
  <1>0. /\ fs2 = SubSeq(fs, count + 1, Len(fs))
        /\ to2 = (to + count) % PipeBuf /\ ring2 = Filled(ring, to, count, fs)
        /\ r = DetectMessages(Bytes(ring2, from, to2)) /\ from2 = (from + r.done) % PipeBuf
        /\ t = OnPipeMessages(s, r.out)
    BY ONLY Turns(s, t, count, r, fs, fs2, ring, ring2, from, from2, to, to2) DEF Turns
  <1>1. PICK bs, B, X, S, R : /\ Laid(ms, bs, B, X) /\ Behind(S, R, B, D, Len(ms))
                              /\ InRing(ring, from, to, X, S, R) /\ InFifo(fs, X, R)
    BY ONLY Flow(ms, D, fs, ring, from, to) DEF Flow
  <1>2. PICK q : Linked(ms, as, q) /\ D \in 0..Len(ms) /\ PublishedUpTo(s.published, as, q[D])
    BY ONLY Link(ms, D, as, s.published) DEF Link
  <1>t. PICK d \in D..Len(ms) : \E n, S2, R2 :
          TurnEnds(r, ms, bs, B, X, D, d, n, S2, R2, ring2, from2, to2, SubSeq(fs, count + 1, Len(fs)))
    <2>1. /\ to2 = (to + count) % PipeBuf /\ ring2 = Filled(ring, to, count, fs)
          /\ r = DetectMessages(Bytes(ring2, from, to2)) /\ from2 = (from + r.done) % PipeBuf
      BY ONLY <1>0
    <2>2. QED
      BY ONLY <1>1, <2>1, TurnIs, count \in 1..PipeBuf, count <= Free(from, to), count <= Len(fs)
  <1>3. PICK n, S2, R2 :
          TurnEnds(r, ms, bs, B, X, D, d, n, S2, R2, ring2, from2, to2, SubSeq(fs, count + 1, Len(fs)))
    BY ONLY <1>t
  <1>4. /\ r.out \in Seq(Seq(Byte)) /\ Delivered(r.out, D, d, bs, n)
        /\ Behind(S2, R2, B, d, Len(ms))
        /\ InRing(ring2, from2, to2, X, S2, R2)
        /\ InFifo(fs2, X, R2)
    BY ONLY <1>3, <1>0 DEF TurnEnds
  <1>5. \A i \in 1..Len(ms) : bs[i] = Body(ms[i])
    BY ONLY <1>1 DEF Laid
  <1>6. D \in Nat /\ d \in 0..Len(ms)
    <2>1. Len(ms) \in Nat
      BY ONLY <1>2 DEF Linked
    <2>2. QED
      BY ONLY <2>1, <1>2, d \in D..Len(ms)
  <1>7. Served(s, fs2, D, as, q)
    BY ONLY <1>2, Serves(s, fs2), s.dispatched \in Seq(Message), Len(s.dispatched) = D DEF Served
  <1>8. Served(t, fs2, d, as, q)
    <2>1. Served(OnPipeMessages(s, r.out), fs2, d, as, q)
      BY ONLY <1>2, <1>4, <1>5, <1>6, <1>7, DispatchesAll
    <2>2. QED
      BY ONLY <2>1, <1>0
  <1>9. /\ Serves(t, fs2) /\ t.dispatched \in Seq(Message) /\ Len(t.dispatched) = d
        /\ PublishedUpTo(t.published, as, q[d])
    BY ONLY <1>8 DEF Served
  <1>10. Flow(ms, d, fs2, ring2, from2, to2)
    BY ONLY <1>1, <1>4 DEF Flow
  <1>11. Link(ms, d, as, t.published)
    BY ONLY <1>2, <1>6, <1>9 DEF Link
  <1>12. QED
    BY ONLY <1>9, <1>10, <1>11
-----------------------------------------------------------------------------
(* The invariant holds at first and no action disturbs it.                 *)

(* Nothing is sent, nothing is in the ring.                                *)
LEMMA InitFlow ==
  ASSUME NEW ring \in [0 .. PipeBuf - 1 -> Byte]
  PROVE  Flow(<<>>, 0, <<>>, ring, 0, 0) /\ Link(<<>>, 0, <<>>, <<>>)
  <1> PICK B : B = [i \in 0..0 |-> 0]
    OBVIOUS
  <1>0. PipeBuf \in Nat /\ PipeBuf >= 8
    BY ONLY PipeAssumption DEF PipeAssumption
  <1>1. B \in [0..0 -> Nat] /\ B \in [0..0 -> 0..0] /\ B[0] = 0
    BY ONLY B = [i \in 0..0 |-> 0]
  <1>2. Stream(<<>>, 0, B, <<>>)
    <2>1. Rising(0, B)
      BY ONLY <1>1 DEF Rising
    <2>2. <<>> \in Seq(Byte) /\ Len(<<>>) = 0
      OBVIOUS
    <2>3. QED
      BY ONLY <1>1, <2>1, <2>2 DEF Stream
  <1>3. Laid(<<>>, <<>>, B, <<>>)
    <2>1. Stream(<<>>, Len(<<>>), B, <<>>)
      BY ONLY <1>2
    <2>2. \A i \in 1..Len(<<>>) : FALSE
      OBVIOUS
    <2>3. QED
      BY ONLY <2>1, <2>2 DEF Laid
  <1>4. Behind(0, 0, B, 0, Len(<<>>))
    BY ONLY <1>1 DEF Behind
  <1>5. InRing(ring, 0, 0, <<>>, 0, 0)
    <2>1. Wrapped(0 + (0 - 0)) = 0
      BY ONLY <1>0 DEF Wrapped
    <2>2. QED
      BY ONLY <1>0, <2>1, ring \in [0 .. PipeBuf - 1 -> Byte] DEF InRing
  <1>6. InFifo(<<>>, <<>>, 0)
    BY ONLY DEF InFifo
  <1>7. Flow(<<>>, 0, <<>>, ring, 0, 0)
    BY ONLY <1>3, <1>4, <1>5, <1>6 DEF Flow
  <1>8. Linked(<<>>, <<>>, B)
    BY ONLY <1>1 DEF Linked
  <1>9. PublishedUpTo(<<>>, <<>>, B[0])
    BY ONLY <1>1 DEF PublishedUpTo
  <1>10. Link(<<>>, 0, <<>>, <<>>)
    BY ONLY <1>8, <1>9 DEF Link
  <1>11. QED
    BY ONLY <1>7, <1>10

(* So the invariant holds at first.                                        *)
LEMMA InitKeeps == Init => IInv
  <1> SUFFICES ASSUME Init PROVE IInv
    OBVIOUS
  <1>1. /\ fifo = [f \in Plugins \cup {Server} |-> <<>>]
        /\ reader = [f \in Plugins \cup {Server} |-> "closed"]
        /\ writer = [f \in Plugins \cup {Server} |-> "closed"]
        /\ letter = [p \in Plugins |-> NoLetter]
        /\ kept = [sent |-> <<>>, asked |-> <<>>]
        /\ queue = [i \in 0 .. PipeBuf - 1 |-> 0] /\ start = 0 /\ end = 0
        /\ receivers = <<>> /\ targets = <<>>
        /\ pluginId = [p \in Plugins |-> -1] /\ mid = [p \in Plugins |-> -1]
        /\ sent = <<>> /\ asked = <<>> /\ dispatched = <<>> /\ published = <<>>
    BY ONLY Init DEF Init
  <1>2. queue \in [0 .. PipeBuf - 1 -> Byte]
    BY ONLY <1>1 DEF Byte
  <1>3. fifo[Server] = <<>> /\ Fifos(fifo)
    BY ONLY <1>1 DEF Fifos
  <1>4. Typed
    BY ONLY <1>1, <1>3 DEF Typed
  <1>5. Posted(reader, writer, letter, targets)
    BY ONLY <1>1 DEF Posted
  <1>6. Len(dispatched) = 0 /\ kept.sent = <<>> /\ kept.asked = <<>>
    BY ONLY <1>1
  <1>7. Flow(<<>>, 0, <<>>, queue, 0, 0) /\ Link(<<>>, 0, <<>>, <<>>)
    BY ONLY <1>2, InitFlow
  <1>8. Both(<<>>, 0, <<>>, queue, 0, 0, <<>>, <<>>)
    BY ONLY <1>7 DEF Both
  <1>9. /\ Both(sent, Len(dispatched), fifo[Server], queue, start, end, asked, published)
        /\ Both(kept.sent, Len(dispatched), <<>>, queue, start, end, kept.asked, published)
    BY ONLY <1>1, <1>3, <1>6, <1>8
  <1>10. QED
    BY ONLY <1>4, <1>5, <1>9 DEF IInv

(* What an action that leaves the server and its fifo alone keeps.         *)
LEMMA OthersKeep ==
  ASSUME IInv, Fifos(fifo'), fifo'[Server] = fifo[Server],
         Posted(reader', writer', letter', targets'), mid' \in [Plugins -> Nat \cup {-1}],
         reader'[Server] # "open" => reader[Server] # "open",
         UNCHANGED <<queue, start, end, receivers, pluginId, sent, asked, kept, dispatched, published>>
  PROVE  IInv'
  <1>1. /\ Typed
        /\ Both(sent, Len(dispatched), fifo[Server], queue, start, end, asked, published)
        /\ reader[Server] # "open" =>
             Both(kept.sent, Len(dispatched), <<>>, queue, start, end, kept.asked, published)
    BY ONLY IInv DEF IInv
  <1>2. UNCHANGED <<queue, start, end, receivers, pluginId, sent, asked, kept, dispatched, published>>
    OBVIOUS
  <1>3. Typed'
    BY ONLY <1>1, <1>2, Fifos(fifo'), mid' \in [Plugins -> Nat \cup {-1}] DEF Typed
  <1>4. /\ Both(sent', Len(dispatched'), fifo'[Server], queue', start', end', asked', published')
        /\ reader'[Server] # "open" =>
             Both(kept'.sent, Len(dispatched'), <<>>, queue', start', end', kept'.asked, published')
    BY ONLY <1>1, <1>2, fifo'[Server] = fifo[Server],
            reader'[Server] # "open" => reader[Server] # "open"
  <1>5. QED
    BY ONLY <1>3, <1>4, Posted(reader', writer', letter', targets') DEF IInv

(* What was written since the end of the file is thrown away.              *)
LEMMA ThrowKeeps ==
  ASSUME IInv, reader[Server] # "open", ThrowAway(Server),
         Posted(reader', writer', letter', targets'),
         UNCHANGED <<queue, start, end, receivers, pluginId, mid, kept, dispatched, published>>
  PROVE  IInv'
  <1>1. /\ Typed
        /\ Both(kept.sent, Len(dispatched), <<>>, queue, start, end, kept.asked, published)
    BY ONLY IInv, reader[Server] # "open" DEF IInv
  <1>2. /\ fifo' = [fifo EXCEPT ![Server] = <<>>]
        /\ sent' = kept.sent /\ asked' = kept.asked
        /\ UNCHANGED <<queue, start, end, receivers, pluginId, mid, kept, dispatched, published>>
    BY ONLY ThrowAway(Server),
            UNCHANGED <<queue, start, end, receivers, pluginId, mid, kept, dispatched, published>>
       DEF ThrowAway
  <1>3. Fifos(fifo') /\ fifo'[Server] = <<>>
    BY ONLY <1>1, <1>2 DEF Typed, Fifos
  <1>4. Typed'
    BY ONLY <1>1, <1>2, <1>3 DEF Typed
  <1>5. /\ Both(sent', Len(dispatched'), fifo'[Server], queue', start', end', asked', published')
        /\ Both(kept'.sent, Len(dispatched'), <<>>, queue', start', end', kept'.asked, published')
    BY ONLY <1>1, <1>2, <1>3
  <1>6. QED
    BY ONLY <1>4, <1>5, Posted(reader', writer', letter', targets') DEF IInv

(* The pipe of a plugin is opened with a letter that is ready.             *)
LEMMA OpensKeeps ==
  ASSUME IInv, NEW p \in Plugins, NEW l, Ready(l),
         reader' = Met(reader, Server), writer' = [writer EXCEPT ![p] = "open"],
         letter' = [letter EXCEPT ![p] = l], mid' \in [Plugins -> Nat \cup {-1}],
         UNCHANGED <<fifo, queue, start, end, receivers, targets, pluginId, sent, asked, kept,
                     dispatched, published>>
  PROVE  IInv'
  <1>1. /\ reader' = [reader EXCEPT ![Server] = IF @ = "waits" THEN "open" ELSE @]
        /\ writer' = [writer EXCEPT ![p] = "open"]
        /\ letter' = [letter EXCEPT ![p] = l]
    BY ONLY reader' = Met(reader, Server), writer' = [writer EXCEPT ![p] = "open"],
            letter' = [letter EXCEPT ![p] = l] DEF Met
  <1>2. /\ Fifos(fifo) /\ DOMAIN reader = Plugins \cup {Server} /\ DOMAIN writer = Plugins \cup {Server}
        /\ DOMAIN letter = Plugins
        /\ \A q \in Plugins : writer[q] = "open" => Ready(letter[q])
        /\ targets \in Seq(Plugins) /\ (writer[Server] # "closed" => targets # <<>>)
    BY ONLY IInv DEF IInv, Typed, Posted
  <1>5. p # Server
    BY ONLY p \in Plugins, PipeAssumption DEF PipeAssumption
  <1>6. /\ DOMAIN reader' = Plugins \cup {Server} /\ DOMAIN writer' = Plugins \cup {Server}
        /\ DOMAIN letter' = Plugins
        /\ writer'[Server] = writer[Server]
        /\ reader'[Server] = (IF reader[Server] = "waits" THEN "open" ELSE reader[Server])
    BY ONLY <1>1, <1>2, <1>5
  <1>7. ASSUME NEW q \in Plugins, writer'[q] = "open" PROVE Ready(letter'[q])
    <2>1. CASE q = p
      BY ONLY <2>1, <1>1, <1>2, Ready(l)
    <2>2. CASE q # p
      <3>1. writer[q] = "open" /\ letter'[q] = letter[q]
        BY ONLY <2>2, <1>1, <1>2, <1>7
      <3>2. QED
        BY ONLY <3>1, <1>2, q \in Plugins
    <2>3. QED
      BY ONLY <2>1, <2>2
  <1>8. UNCHANGED <<fifo, queue, start, end, receivers, targets, pluginId, sent, asked, kept,
                    dispatched, published>>
    OBVIOUS
  <1>9. Posted(reader', writer', letter', targets')
    BY ONLY <1>2, <1>6, <1>7, <1>8 DEF Posted
  <1>10. reader'[Server] # "open" => reader[Server] # "open"
    BY ONLY <1>6
  <1>11. Fifos(fifo') /\ fifo'[Server] = fifo[Server]
    BY ONLY <1>2, <1>8
  <1>12. QED
    BY ONLY <1>8, <1>9, <1>10, <1>11, OthersKeep, IInv, mid' \in [Plugins -> Nat \cup {-1}]

(* A call of Send or Register hands PSend a frame that fits its buffer.    *)
LEMMA CallFits ==
  ASSUME NEW p, NEW message, Sendable(message), Calls(p, message), ~overrun'
  PROVE  Len(PSend(message)) <= PipeBuf
  <1>1. IsFrame(PSend(message), Body(message))
    BY ONLY PSendIs, Sendable(message)
  <1>2. PSend(message) \in Seq(Byte)
    BY ONLY <1>1 DEF IsFrame
  <1>3. Len(PSend(message)) \in Nat
    BY ONLY <1>2, LenProperties, Zenon
  <1>4. PipeBuf \in Nat
    BY ONLY PipeAssumption DEF PipeAssumption
  <1>5. ~(Len(PSend(message)) > PipeBuf)
    BY ONLY Calls(p, message), ~overrun' DEF Calls, Overruns
  <1>6. QED
    BY ONLY <1>3, <1>4, <1>5

(* Send has a message to write and is what asks for it.                    *)
LEMMA SendKeeps ==
  ASSUME ~overrun', IInv, NEW p \in Plugins, NEW name \in Topics, NEW data \in Payloads,
         Send(p, name, data)
  PROVE  IInv'
  <1> PICK body, a : body = name \o <<AT>> \o data /\ a = [name |-> name, data |-> data]
    OBVIOUS
  <1> PICK message : message = PMessage(TYPE_MESSAGE, pluginId[p] % 65536, mid[p] + 1, body)
    OBVIOUS
  <1>0. /\ body = name \o <<AT>> \o data /\ a = [name |-> name, data |-> data]
        /\ message = PMessage(TYPE_MESSAGE, pluginId[p] % 65536, mid[p] + 1, body)
    OBVIOUS
  <1>1. /\ Calls(p, message) /\ Opens(p, message, <<a>>)
        /\ mid' = [mid EXCEPT ![p] = @ + 1]
        /\ UNCHANGED <<fifo, queue, start, end, receivers, targets, pluginId, sent, asked, kept,
                       dispatched, published>>
    BY ONLY <1>0, Send(p, name, data) DEF Send, server, dispatcher, calls, outcomes
  <1>2. /\ pluginId \in [Plugins -> Int] /\ mid \in [Plugins -> Nat \cup {-1}]
    BY ONLY IInv DEF IInv, Typed
  <1>3. name \in Seq(Byte) /\ data \in Seq(Byte) /\ data # <<>>
    BY ONLY PipeAssumption, name \in Topics, data \in Payloads DEF PipeAssumption, IsString
  <1>4. body \in Seq(Byte) /\ body # <<>>
    <2>1. <<AT>> \in Seq(Byte) /\ Len(<<AT>>) = 1
      BY ONLY DEF AT, Byte
    <2>2. name \o <<AT>> \in Seq(Byte) /\ Len(name \o <<AT>>) = Len(name) + 1
      BY ONLY <2>1, <1>3, Together
    <2>3. (name \o <<AT>>) \o data \in Seq(Byte)
          /\ Len((name \o <<AT>>) \o data) = Len(name \o <<AT>>) + Len(data)
      BY ONLY <2>2, <1>3, Together
    <2>4. Len(name) \in Nat /\ Len(data) \in Nat
      BY ONLY <1>3
    <2>5. body \in Seq(Byte) /\ Len(body) = Len(name) + 1 + Len(data)
      BY ONLY <2>2, <2>3, <1>0
    <2>6. Len(body) > 0
      BY ONLY <2>4, <2>5
    <2>7. QED
      BY ONLY <2>5, <2>6
  <1>5. /\ pluginId[p] % 65536 \in Nat /\ mid[p] + 1 \in Nat
        /\ mid' \in [Plugins -> Nat \cup {-1}]
    <2>1. pluginId[p] \in Int /\ mid[p] \in Nat \cup {-1}
      BY ONLY <1>2, p \in Plugins
    <2>2. pluginId[p] % 65536 \in Nat /\ mid[p] + 1 \in Nat
      BY ONLY <2>1
    <2>3. QED
      BY ONLY <2>2, <1>1, <1>2, p \in Plugins
  <1>6. Sendable(message) /\ message \in Message
        /\ message.type = TYPE_MESSAGE /\ message.data = body
    <2>1. Sendable(message)
      <3>1. PICK u, v : u = pluginId[p] % 65536 /\ v = mid[p] + 1
        OBVIOUS
      <3>2. u \in Nat /\ v \in Nat /\ message = PMessage(TYPE_MESSAGE, u, v, body)
        BY ONLY <3>1, <1>0, <1>5
      <3>3. TYPE_MESSAGE \in {TYPE_MESSAGE, TYPE_REGISTER}
        OBVIOUS
      <3>4. Sendable(PMessage(TYPE_MESSAGE, u, v, body))
        BY ONLY <3>2, <3>3, <1>4, HeaderIs, Zenon
      <3>5. QED
        BY ONLY <3>2, <3>4
    <2>2. message = [type |-> TYPE_MESSAGE, sender |-> pluginId[p] % 65536, mid |-> mid[p] + 1, data |-> body]
      BY ONLY <1>0 DEF PMessage
    <2>3. QED
      BY ONLY <2>1, <2>2, <1>4, <1>5 DEF Message, TYPE_MESSAGE
  <1>7. a \in Ask /\ a.name = name /\ a.data = data
    BY ONLY <1>0, name \in Topics, data \in Payloads DEF Ask
  <1>8. <<a>> \in Seq(Ask) /\ AskedFor(message, <<a>>)
    <2>1. <<a>> \in Seq(Ask) /\ Len(<<a>>) = 1 /\ <<a>>[1] = a
      BY ONLY <1>7
    <2>2. message.data = <<a>>[1].name \o <<AT>> \o <<a>>[1].data
      BY ONLY <2>1, <1>0, <1>6, <1>7
    <2>3. QED
      BY ONLY <2>1, <2>2, <1>6 DEF AskedFor
  <1>9. Len(PSend(message)) <= PipeBuf
    BY ONLY <1>1, <1>6, CallFits, ~overrun'
  <1>10. QED
    <2> PICK ask : ask = <<a>>
      BY ONLY Zenon
    <2> PICK l : l = [message |-> message, ask |-> ask]
      BY ONLY Zenon
    <2>1. l.message = message /\ l.ask = <<a>>
      BY ONLY l = [message |-> message, ask |-> ask], ask = <<a>>
    <2>2. Ready(l)
      BY ONLY <2>1, <1>6, <1>8, <1>9 DEF Ready
    <2>3. /\ reader' = Met(reader, Server) /\ writer' = [writer EXCEPT ![p] = "open"]
          /\ letter' = [letter EXCEPT ![p] = l]
      <3>1. Opens(p, message, <<a>>)
        BY ONLY <1>1
      <3>2. QED
        BY ONLY <3>1, l = [message |-> message, ask |-> ask], ask = <<a>> DEF Opens
    <2>4. /\ mid' \in [Plugins -> Nat \cup {-1}]
          /\ UNCHANGED <<fifo, queue, start, end, receivers, targets, pluginId, sent, asked, kept,
                         dispatched, published>>
      BY ONLY <1>1, <1>5
    <2>5. QED
      BY ONLY <2>2, <2>3, <2>4, OpensKeeps, IInv, p \in Plugins

(* Register has a message to write, or nothing if the server has not       *)
(* opened its fifo.                                                        *)
LEMMA RegisterSends ==
  ASSUME ~overrun', IInv, NEW p \in Plugins, NEW info \in Registrations, Register(p, info)
  PROVE  IInv'
  <1> PICK message : message = PMessage(TYPE_REGISTER, 0, 0, info)
    OBVIOUS
  <1>0. message = PMessage(TYPE_REGISTER, 0, 0, info)
    OBVIOUS
  <1>1. /\ Calls(p, message)
        /\ UNCHANGED <<reader, writer, letter>> \/ Opens(p, message, <<>>)
        /\ UNCHANGED <<fifo, queue, start, end, receivers, targets, pluginId, mid, sent, asked, kept,
                       dispatched, published>>
    BY ONLY <1>0, Register(p, info) DEF Register, server, dispatcher, calls, outcomes, writers
  <1>2. /\ Fifos(fifo) /\ mid \in [Plugins -> Nat \cup {-1}]
        /\ Posted(reader, writer, letter, targets)
    BY ONLY IInv DEF IInv, Typed
  <1>3. info \in Seq(Byte)
    BY ONLY PipeAssumption, info \in Registrations DEF PipeAssumption, IsString
  <1>4. /\ message.type = TYPE_REGISTER /\ message.data = info
        /\ message = [type |-> TYPE_REGISTER, sender |-> 0, mid |-> 0, data |-> info]
    BY ONLY <1>0 DEF PMessage
  <1>5. info # <<>>
    BY ONLY <1>1, <1>4 DEF Calls, Fits, SendsWhole
  <1>6. Sendable(message)
    BY ONLY <1>0, <1>3, <1>5, HeaderIs
  <1>7. message \in Message
    BY ONLY <1>4, <1>3 DEF Message, TYPE_REGISTER
  <1>8. mid' \in [Plugins -> Nat \cup {-1}]
    BY ONLY <1>1, <1>2
  <1>9. CASE UNCHANGED <<reader, writer, letter>>
    BY ONLY <1>9, <1>1, <1>2, <1>8, OthersKeep, IInv
  <1>10. CASE Opens(p, message, <<>>)
    <2>1. message.type # TYPE_MESSAGE
      BY ONLY <1>4 DEF TYPE_MESSAGE, TYPE_REGISTER
    <2>2. <<>> \in Seq(Ask) /\ Len(<<>>) = 0
      OBVIOUS
    <2>3. AskedFor(message, <<>>)
      BY ONLY <2>1, <2>2, <1>4, info \in Registrations DEF AskedFor
    <2>4. Len(PSend(message)) <= PipeBuf
      BY ONLY <1>1, <1>6, CallFits, ~overrun'
    <2> PICK l : l = [message |-> message, ask |-> <<>>]
      OBVIOUS
    <2>5. l.message = message /\ l.ask = <<>>
      BY ONLY l = [message |-> message, ask |-> <<>>]
    <2>6. Ready(l)
      BY ONLY <2>2, <2>3, <2>4, <2>5, <1>6, <1>7 DEF Ready
    <2>7. /\ reader' = Met(reader, Server) /\ writer' = [writer EXCEPT ![p] = "open"]
          /\ letter' = [letter EXCEPT ![p] = l]
      BY ONLY <1>10, l = [message |-> message, ask |-> <<>>] DEF Opens
    <2>8. QED
      BY ONLY <2>6, <2>7, <1>1, <1>8, OpensKeeps, IInv, p \in Plugins
  <1>11. QED
    BY ONLY <1>1, <1>9, <1>10

(* A letter asks for what Send was given.                                  *)
LEMMA LetterComes ==
  ASSUME NEW m, NEW as \in Seq(Ask), NEW ask \in Seq(Ask), AskedFor(m, ask)
  PROVE  Comes(m, as, as \o ask)
  <1> PICK as2 : as2 = as \o ask
    OBVIOUS
  <1>2. Len(as) \in Nat /\ Len(ask) \in Nat
    BY ONLY as \in Seq(Ask), ask \in Seq(Ask), LenProperties, Zenon
  <1>1. /\ as2 \in Seq(Ask) /\ Len(as2) = Len(as) + Len(ask)
        /\ \A i \in 1..Len(as) : as2[i] = as[i]
        /\ Len(ask) = 1 => as2[Len(as) + 1] = ask[1]
    <2>1. /\ as \o ask \in Seq(Ask) /\ Len(as \o ask) = Len(as) + Len(ask)
          /\ \A i \in 1..Len(as) + Len(ask) :
               (as \o ask)[i] = IF i <= Len(as) THEN as[i] ELSE ask[i - Len(as)]
      BY ONLY as \in Seq(Ask), ask \in Seq(Ask), ConcatProperties
    <2> PICK n, k : n = Len(as) /\ k = Len(ask)
      OBVIOUS
    <2>0. n = Len(as) /\ k = Len(ask) /\ n \in Nat /\ k \in Nat
      BY ONLY <1>2, n = Len(as) /\ k = Len(ask)
    <2>2. /\ as2 \in Seq(Ask) /\ Len(as2) = n + k
          /\ \A i \in 1..n + k : as2[i] = IF i <= n THEN as[i] ELSE ask[i - n]
      BY ONLY <2>0, <2>1, as2 = as \o ask, Zenon
    <2>a. n \in Nat /\ k \in Nat
      BY ONLY <2>0
    <2>b. \A i \in 1..n + k : as2[i] = IF i <= n THEN as[i] ELSE ask[i - n]
      BY ONLY <2>2
    <2>3. \A i \in 1..n : as2[i] = as[i]
      <3> TAKE i \in 1..n
      <3>1. i \in 1..n + k /\ i <= n
        BY ONLY <2>a, i \in 1..n
      <3>2. QED
        BY ONLY <2>b, <3>1
    <2>4. k = 1 => as2[n + 1] = ask[1]
      <3> SUFFICES ASSUME k = 1 PROVE as2[n + 1] = ask[1]
        OBVIOUS
      <3> PICK j : j = n + 1
        OBVIOUS
      <3>1. j \in 1..n + k /\ ~(j <= n) /\ j - n = 1
        BY ONLY <2>a, k = 1, j = n + 1
      <3>2. as2[j] = IF j <= n THEN as[j] ELSE ask[j - n]
        BY ONLY <2>b, <3>1, Zenon
      <3>3. as2[j] = ask[j - n]
        BY ONLY <3>1, <3>2
      <3>4. QED
        BY ONLY <3>1, <3>3, j = n + 1
    <2>5. QED
      BY ONLY <2>0, <2>2, <2>3, <2>4
  <1>3. CASE m.type = TYPE_MESSAGE /\ Len(ask) = 1 /\ m.data = ask[1].name \o <<AT>> \o ask[1].data
    <2>1. Len(as2) = Len(as) + 1 /\ as2[Len(as2)] = ask[1]
      <3>1. Len(ask) = 1
        BY ONLY <1>3
      <3>2. QED
        BY ONLY <1>1, <3>1
    <2>2. QED
      BY ONLY <2>1, <1>1, <1>3, as2 = as \o ask DEF Comes
  <1>4. CASE m.type # TYPE_MESSAGE /\ Len(ask) = 0 /\ m.data \in Registrations
    <2>1. Len(as2) = Len(as)
      <3> PICK n, k : n = Len(as) /\ k = Len(ask)
        OBVIOUS
      <3>1. n \in Nat /\ k = 0
        BY ONLY <1>2, <1>4, n = Len(as) /\ k = Len(ask)
      <3>2. n + k = n
        BY ONLY <3>1
      <3>3. QED
        BY ONLY <1>1, <3>2, n = Len(as) /\ k = Len(ask), Zenon
    <2>2. QED
      BY ONLY <2>1, <1>1, <1>4, as2 = as \o ask DEF Comes
  <1>5. QED
    BY ONLY <1>3, <1>4, AskedFor(m, ask) DEF AskedFor

(* The write of a letter to the server's fifo.                             *)
LEMMA WriteKeeps ==
  ASSUME IInv, NEW p \in Plugins, Write(p)
  PROVE  IInv'
  <1> PICK l, m : l = letter[p] /\ m = letter[p].message
    OBVIOUS
  <1>0. l = letter[p] /\ m = l.message
    OBVIOUS
  <1>1. /\ writer[p] = "open"
        /\ \/ fifo' = Written(fifo, Server, m) /\ sent' = Append(sent, m) /\ asked' = asked \o l.ask
           \/ UNCHANGED <<fifo, sent, asked>>
        /\ writer' = [writer EXCEPT ![p] = "written"]
        /\ letter' = [letter EXCEPT ![p] = NoLetter]
        /\ UNCHANGED <<reader, queue, start, end, receivers, targets, pluginId, mid, kept,
                       dispatched, published>>
    BY ONLY <1>0, Write(p) DEF Write, server, dispatcher, plugin, calls, outcomes
  <1>2. /\ Typed /\ Posted(reader, writer, letter, targets)
        /\ Both(sent, Len(dispatched), fifo[Server], queue, start, end, asked, published)
        /\ reader[Server] # "open" =>
             Both(kept.sent, Len(dispatched), <<>>, queue, start, end, kept.asked, published)
    BY ONLY IInv DEF IInv
  <1>3. /\ DOMAIN reader = Plugins \cup {Server} /\ DOMAIN writer = Plugins \cup {Server}
        /\ DOMAIN letter = Plugins
        /\ \A q \in Plugins : writer[q] = "open" => Ready(letter[q])
        /\ targets \in Seq(Plugins) /\ (writer[Server] # "closed" => targets # <<>>)
    BY ONLY <1>2 DEF Posted
  <1>4. /\ m \in Message /\ Sendable(m) /\ Len(PSend(m)) <= PipeBuf
        /\ l.ask \in Seq(Ask) /\ AskedFor(m, l.ask)
    <2>1. Ready(l)
      BY ONLY <1>0, <1>1, <1>3, p \in Plugins
    <2>2. QED
      BY ONLY <2>1, <1>0 DEF Ready
  <1>5. p # Server
    BY ONLY p \in Plugins, PipeAssumption DEF PipeAssumption
  <1>6. Posted(reader', writer', letter', targets')
    <2>1. /\ DOMAIN writer' = Plugins \cup {Server} /\ DOMAIN letter' = Plugins
          /\ writer'[Server] = writer[Server]
      BY ONLY <1>1, <1>3, <1>5
    <2>2. ASSUME NEW q \in Plugins, writer'[q] = "open" PROVE Ready(letter'[q])
      <3>1. writer'[p] = "written"
        BY ONLY <1>1, <1>3, p \in Plugins
      <3>2. q # p
        BY ONLY <3>1, <2>2
      <3>3. writer[q] = "open" /\ letter'[q] = letter[q]
        BY ONLY <3>2, <2>2, <1>1, <1>3
      <3>4. QED
        BY ONLY <3>3, <1>3, q \in Plugins
    <2>3. reader' = reader /\ targets' = targets
      BY ONLY <1>1
    <2>4. QED
      BY ONLY <2>1, <2>2, <2>3, <1>3 DEF Posted
  <1>7. /\ Fifos(fifo) /\ receivers \in Seq(Receiver)
        /\ pluginId \in [Plugins -> Int] /\ mid \in [Plugins -> Nat \cup {-1}]
        /\ dispatched \in Seq(Message)
    BY ONLY <1>2 DEF Typed
  <1>8. CASE UNCHANGED <<fifo, sent, asked>>
    BY ONLY <1>8, <1>1, <1>6, <1>7, OthersKeep, IInv
  <1>9. CASE fifo' = Written(fifo, Server, m) /\ sent' = Append(sent, m) /\ asked' = asked \o l.ask
    <2>1. Fifos(fifo') /\ fifo'[Server] = fifo[Server] \o PSend(m)
      BY ONLY <1>7, <1>9 DEF Fifos, Written
    <2>2. /\ sent \in Seq(Message)
          /\ Flow(sent, Len(dispatched), fifo[Server], queue, start, end)
          /\ Link(sent, Len(dispatched), asked, published)
      BY ONLY <1>2 DEF Both
    <2>3. sent' \in Seq(Message)
      BY ONLY <2>2, <1>9, <1>4, AppendProperties
    <2>4. Flow(Append(sent, m), Len(dispatched), fifo[Server] \o PSend(m), queue, start, end)
      BY ONLY <2>2, <1>4, FlowMore
    <2>5. asked \in Seq(Ask)
      <3>1. PICK q : Linked(sent, asked, q)
        BY ONLY <2>2 DEF Link
      <3>2. QED
        BY ONLY <3>1 DEF Linked
    <2>6. Comes(m, asked, asked \o l.ask)
      BY ONLY <2>5, <1>4, LetterComes
    <2>7. Link(Append(sent, m), Len(dispatched), asked \o l.ask, published)
      BY ONLY <2>2, <2>6, <1>4, LinkKeeps
    <2>8. Both(sent', Len(dispatched'), fifo'[Server], queue', start', end', asked', published')
      BY ONLY <2>1, <2>3, <2>4, <2>7, <1>1, <1>9 DEF Both
    <2>9. Typed'
      BY ONLY <2>1, <1>1, <1>7 DEF Typed
    <2>10. reader'[Server] # "open" =>
             Both(kept'.sent, Len(dispatched'), <<>>, queue', start', end', kept'.asked, published')
      BY ONLY <1>1, <1>2
    <2>11. QED
      BY ONLY <2>8, <2>9, <2>10, <1>6 DEF IInv
  <1>10. QED
    BY ONLY <1>1, <1>8, <1>9

(* A turn of the server.                                                   *)
LEMMA ExecuteKeeps ==
  ASSUME IInv, NEW count \in 1..PipeBuf, OnExecute(count)
  PROVE  IInv'
  <1> DEFINE First == [State EXCEPT !.fifo[Server] = SubSeq(@, count + 1, Len(@))]
             Ends(r, t) ==
               /\ start' = NewStart(r.done, end')
               /\ fifo' = t.fifo
               /\ reader' = t.reader
               /\ receivers' = t.receivers
               /\ topic' = t.topic
               /\ dispatched' = t.dispatched
               /\ published' = t.published
               /\ replies' = t.replies
  <1>0. PICK r, t : /\ r = DetectMessages(Bytes(queue', start, end'))
                    /\ t = OnPipeMessages(First, r.out) /\ Ends(r, t)
    <2>1. \E bytes \in {Bytes(queue', start, end')} : \E r \in {DetectMessages(bytes)} :
          \E read \in {First} : \E t \in {OnPipeMessages(read, r.out)} : Ends(r, t)
      BY ONLY OnExecute(count) DEF OnExecute
    <2> HIDE DEF Ends, First
    <2>2. QED
      BY ONLY <2>1, Zenon
  <1>1. PICK read : read = First
    OBVIOUS
  <1>a. r = DetectMessages(Bytes(queue', start, end')) /\ t = OnPipeMessages(read, r.out) /\ Ends(r, t)
    <2> HIDE DEF Ends, First
    <2>1. QED
      BY ONLY <1>0, <1>1
  <1>b. Ends(r, t)
    <2> HIDE DEF Ends
    <2>1. QED
      BY ONLY <1>a
  <1>c. /\ start' = NewStart(r.done, end') /\ fifo' = t.fifo /\ receivers' = t.receivers
        /\ reader' = t.reader /\ dispatched' = t.dispatched /\ published' = t.published
    BY ONLY <1>b
  <1> HIDE DEF Ends
  <1>d. r = DetectMessages(Bytes(queue', start, end')) /\ t = OnPipeMessages(read, r.out)
    <2> HIDE DEF First
    <2>1. QED
      BY ONLY <1>a
  <1>2. /\ count <= Left /\ count <= Len(fifo[Server])
        /\ queue' = [i \in 0 .. PipeBuf - 1 |->
                       IF i >= end /\ i < end + count THEN fifo[Server][i - end + 1] ELSE queue[i]]
        /\ end' = (end + count) % PipeBuf
        /\ reader[Server] = "open"
        /\ UNCHANGED <<writer, letter, targets, pluginId, mid, sent, asked, kept>>
    BY ONLY OnExecute(count) DEF OnExecute, writers, dispatcher, plugin, calls
  <1>3. /\ Fifos(fifo) /\ receivers \in Seq(Receiver) /\ Posted(reader, writer, letter, targets)
        /\ pluginId \in [Plugins -> Int] /\ mid \in [Plugins -> Nat \cup {-1}]
        /\ sent \in Seq(Message) /\ dispatched \in Seq(Message)
        /\ Flow(sent, Len(dispatched), fifo[Server], queue, start, end)
        /\ Link(sent, Len(dispatched), asked, published)
    BY ONLY IInv DEF IInv, Typed, Both
  <1>p. /\ Reads(reader)
        /\ DOMAIN writer = Plugins \cup {Server} /\ DOMAIN letter = Plugins
        /\ \A q \in Plugins : writer[q] = "open" => Ready(letter[q])
        /\ targets \in Seq(Plugins) /\ (writer[Server] # "closed" => targets # <<>>)
    BY ONLY <1>2, <1>3 DEF Posted, Reads
  <1> PICK fs, fs2, D : /\ fs = fifo[Server] /\ fs2 = SubSeq(fs, count + 1, Len(fs))
                        /\ D = Len(dispatched)
    OBVIOUS
  <1>4. /\ fs = fifo[Server] /\ fs2 = SubSeq(fs, count + 1, Len(fs)) /\ D = Len(dispatched)
    OBVIOUS
  <1>5. read = [fifo |-> [fifo EXCEPT ![Server] = fs2], reader |-> reader, receivers |-> receivers,
                topic |-> topic, dispatched |-> dispatched, published |-> published,
                replies |-> replies]
    <2>1. State = [fifo |-> fifo, reader |-> reader, receivers |-> receivers, topic |-> topic,
                   dispatched |-> dispatched, published |-> published, replies |-> replies]
      BY ONLY DEF State
    <2>2. read = [State EXCEPT !.fifo = [fifo EXCEPT ![Server] = fs2]]
      BY ONLY <1>1, <1>4, <2>1
    <2>3. QED
      BY ONLY <2>1, <2>2
  <1>6. Fifos([fifo EXCEPT ![Server] = fs2]) /\ [fifo EXCEPT ![Server] = fs2][Server] = fs2
    BY ONLY <1>3 DEF Fifos
  <1>7. Serves(read, fs2) /\ read.dispatched = dispatched /\ read.published = published
    <2> PICK g : g = [fifo EXCEPT ![Server] = fs2]
      OBVIOUS
    <2>1. Fifos(g) /\ g[Server] = fs2
      BY ONLY <1>6, g = [fifo EXCEPT ![Server] = fs2]
    <2>2. read = [fifo |-> g, reader |-> reader, receivers |-> receivers,
                  topic |-> topic, dispatched |-> dispatched, published |-> published,
                  replies |-> replies]
      BY ONLY <1>5, g = [fifo EXCEPT ![Server] = fs2]
    <2>3. IsState(read) /\ read.fifo = g /\ read.reader = reader /\ read.receivers = receivers
          /\ read.dispatched = dispatched /\ read.published = published
      BY ONLY <2>2 DEF IsState
    <2>4. QED
      BY ONLY <2>1, <2>3, <1>3, <1>p DEF Serves
  <1>8. /\ Flow(sent, D, fs, queue, start, end) /\ Link(sent, D, asked, read.published)
        /\ read.dispatched \in Seq(Message) /\ Len(read.dispatched) = D
    BY ONLY <1>3, <1>4, <1>7
  <1>9. queue' = Filled(queue, end, count, fs)
    BY ONLY <1>2, <1>4 DEF Filled
  <1>10. count <= Free(start, end) /\ count <= Len(fs) /\ start' = (start + r.done) % PipeBuf
    BY ONLY <1>c, <1>2, <1>4 DEF Left, Free, NewStart
  <1>11. /\ Serves(t, fs2) /\ t.dispatched \in Seq(Message)
         /\ Flow(sent, Len(t.dispatched), fs2, queue', start', end')
         /\ Link(sent, Len(t.dispatched), asked, t.published)
    <2>1. Turns(read, t, count, r, fs, fs2, queue, queue', start, start', end, end')
      BY ONLY <1>d, <1>2, <1>4, <1>9, <1>10 DEF Turns
    <2>2. Serves(read, fs2) /\ count <= Free(start, end) /\ count <= Len(fs)
      BY ONLY <1>7, <1>10
    <2>3. QED
      BY ONLY <2>1, <2>2, <1>8, TurnKeeps, count \in 1..PipeBuf
  <1>12. /\ Fifos(fifo') /\ fifo'[Server] = fs2 /\ receivers' \in Seq(Receiver)
         /\ Reads(reader')
    <2>1. fifo' = t.fifo /\ receivers' = t.receivers /\ reader' = t.reader
      BY ONLY <1>c
    <2>2. QED
      BY ONLY <2>1, <1>11 DEF Serves
  <1>13. Typed'
    <2>1. UNCHANGED <<pluginId, mid>>
      BY ONLY <1>2
    <2>2. dispatched' \in Seq(Message)
      BY ONLY <1>c, <1>11
    <2>3. pluginId \in [Plugins -> Int] /\ mid \in [Plugins -> Nat \cup {-1}]
      BY ONLY <1>3
    <2>4. QED
      BY ONLY <2>1, <2>2, <2>3, <1>12 DEF Typed
  <1>14. dispatched' = t.dispatched /\ published' = t.published /\ sent' = sent /\ asked' = asked
    BY ONLY <1>c, <1>2
  <1>15. Posted(reader', writer', letter', targets')
    <2>1. UNCHANGED <<writer, letter, targets>>
      BY ONLY <1>2
    <2>2. QED
      BY ONLY <2>1, <1>p, <1>12 DEF Posted, Reads
  <1>16. Both(sent', Len(dispatched'), fifo'[Server], queue', start', end', asked', published')
    <2>1. sent \in Seq(Message)
      BY ONLY <1>3
    <2>2. QED
      BY ONLY <2>1, <1>14, <1>11, <1>12 DEF Both
  <1>17. reader'[Server] = "open"
    BY ONLY <1>12 DEF Reads
  <1>18. QED
    BY ONLY <1>13, <1>15, <1>16, <1>17 DEF IInv

(* The other actions change neither what the server has read nor its fifo, *)
(* unless its last user closes that.                                       *)

(* An executor picks a message for its receivers.                          *)
LEMMA PickKeeps ==
  ASSUME IInv, Pick
  PROVE  IInv'
  <1>1. /\ targets = <<>> /\ targets' = Subscribed(Head(topic).name)
        /\ UNCHANGED <<fifo, reader, writer, letter, queue, start, end, receivers, pluginId, mid,
                       sent, asked, kept, dispatched, published>>
    BY ONLY Pick DEF Pick, server, plugin, calls, writers, outcomes
  <1>2. /\ receivers \in Seq(Receiver) /\ Fifos(fifo) /\ mid \in [Plugins -> Nat \cup {-1}]
        /\ Posted(reader, writer, letter, targets)
    BY ONLY IInv DEF IInv, Typed
  <1>3. targets' \in Seq(Plugins)
    BY ONLY <1>1, <1>2, SubscribedIs
  <1>4. writer[Server] = "closed"
    BY ONLY <1>1, <1>2 DEF Posted
  <1>5. Posted(reader', writer', letter', targets')
    BY ONLY <1>1, <1>2, <1>3, <1>4 DEF Posted
  <1>6. QED
    BY ONLY <1>1, <1>2, <1>5, OthersKeep, IInv

(* The executor is about to write to the fifo of a plugin.                 *)
LEMMA NextTarget ==
  ASSUME NEW to \in Seq(Plugins), to # <<>>
  PROVE  Head(to) \in Plugins /\ Head(to) # Server /\ Tail(to) \in Seq(Plugins)
  BY ONLY to \in Seq(Plugins), to # <<>>, HeadTailProperties, PipeAssumption DEF PipeAssumption

(* It opens it, writes a message and closes it.                            *)
LEMMA ForwardKeeps ==
  ASSUME IInv, Forward \/ ForwardWrite \/ ForwardClose
  PROVE  IInv'
  <1> PICK p, f : p = Head(targets) /\ f = PSend(Notice)
    BY ONLY Zenon
  <1>0. p = Head(targets) /\ f = PSend(Notice)
    OBVIOUS
  <1>1. /\ Fifos(fifo) /\ mid \in [Plugins -> Nat \cup {-1}]
        /\ Posted(reader, writer, letter, targets)
    BY ONLY IInv DEF IInv, Typed
  <1>2. /\ DOMAIN reader = Plugins \cup {Server} /\ DOMAIN writer = Plugins \cup {Server}
        /\ DOMAIN letter = Plugins
        /\ \A q \in Plugins : writer[q] = "open" => Ready(letter[q])
        /\ targets \in Seq(Plugins) /\ (writer[Server] # "closed" => targets # <<>>)
    BY ONLY <1>1 DEF Posted
  <1>3. targets # <<>>
    <2>1. CASE Forward
      BY ONLY <2>1 DEF Forward
    <2>2. CASE ForwardWrite
      BY ONLY <2>2, <1>2 DEF ForwardWrite
    <2>3. CASE ForwardClose
      BY ONLY <2>3, <1>2 DEF ForwardClose
    <2>4. QED
      BY ONLY <2>1, <2>2, <2>3, Forward \/ ForwardWrite \/ ForwardClose
  <1>4. p \in Plugins /\ p # Server /\ Tail(targets) \in Seq(Plugins)
    BY ONLY <1>0, <1>2, <1>3, NextTarget
  <1>5. CASE Forward
    <2>1. /\ reader' = Met(reader, p) /\ writer' = [writer EXCEPT ![Server] = "open"]
          /\ UNCHANGED <<fifo, letter, queue, start, end, receivers, targets, pluginId, mid,
                         sent, asked, kept, dispatched, published>>
      BY ONLY <1>5, <1>0 DEF Forward, server, dispatcher, plugin, calls, outcomes
    <2>2. /\ DOMAIN reader' = Plugins \cup {Server} /\ reader'[Server] = reader[Server]
      BY ONLY <2>1, <1>2, <1>4 DEF Met
    <2>3. /\ DOMAIN writer' = Plugins \cup {Server}
          /\ \A q \in Plugins : writer'[q] = writer[q]
      <3>1. \A q \in Plugins : q # Server
        BY ONLY PipeAssumption DEF PipeAssumption
      <3>2. QED
        BY ONLY <2>1, <1>2, <3>1
    <2>4. Posted(reader', writer', letter', targets')
      BY ONLY <2>1, <2>2, <2>3, <1>2, <1>3 DEF Posted
    <2>5. QED
      BY ONLY <2>1, <2>2, <2>4, <1>1, OthersKeep, IInv
  <1>6. CASE ForwardWrite
    <2>1. /\ fifo' = Written(fifo, p, Notice) \/ fifo' = fifo
          /\ writer' = [writer EXCEPT ![Server] = "written"]
          /\ UNCHANGED <<reader, letter, queue, start, end, receivers, targets, pluginId, mid,
                         sent, asked, kept, dispatched, published>>
      BY ONLY <1>6, <1>0 DEF ForwardWrite, server, dispatcher, plugin, calls, outcomes
    <2>2. Fifos(fifo') /\ fifo'[Server] = fifo[Server]
      BY ONLY <2>1, <1>1, <1>4 DEF Fifos, Written
    <2>3. /\ DOMAIN writer' = Plugins \cup {Server}
          /\ \A q \in Plugins : writer'[q] = writer[q]
      <3>1. \A q \in Plugins : q # Server
        BY ONLY PipeAssumption DEF PipeAssumption
      <3>2. QED
        BY ONLY <2>1, <1>2, <3>1
    <2>4. Posted(reader', writer', letter', targets')
      BY ONLY <2>1, <2>3, <1>2, <1>3 DEF Posted
    <2>5. QED
      BY ONLY <2>1, <2>2, <2>4, <1>1, OthersKeep, IInv
  <1>7. CASE ForwardClose
    <2>1. /\ fifo' = [fifo EXCEPT ![p] = <<>>] \/ fifo' = fifo
          /\ UNCHANGED <<sent, asked>>
      BY ONLY <1>7, <1>0, <1>4 DEF ForwardClose, ThrowAway, calls
    <2>2. /\ writer' = [writer EXCEPT ![Server] = "closed"]
          /\ targets' = Tail(targets)
          /\ UNCHANGED <<reader, letter, queue, start, end, receivers, pluginId, mid,
                         kept, dispatched, published>>
      BY ONLY <1>7 DEF ForwardClose, server, plugin, outcomes
    <2>3. Fifos(fifo') /\ fifo'[Server] = fifo[Server]
      BY ONLY <2>1, <1>1, <1>4 DEF Fifos
    <2>4. /\ DOMAIN writer' = Plugins \cup {Server} /\ writer'[Server] = "closed"
          /\ \A q \in Plugins : writer'[q] = writer[q]
      <3>1. \A q \in Plugins : q # Server
        BY ONLY PipeAssumption DEF PipeAssumption
      <3>2. QED
        BY ONLY <2>2, <1>2, <3>1
    <2>5. Posted(reader', writer', letter', targets')
      BY ONLY <2>2, <2>4, <1>2, <1>4 DEF Posted
    <2>6. QED
      BY ONLY <2>1, <2>2, <2>3, <2>5, <1>1, OthersKeep, IInv
  <1>8. QED
    BY ONLY <1>5, <1>6, <1>7, Forward \/ ForwardWrite \/ ForwardClose

(* A Receive, from its call to its return.                                 *)
LEMMA ReceiveKeeps ==
  ASSUME IInv, NEW p \in Plugins, ReceiveBegin(p) \/ Skip(p) \/ ReceiveEnd(p)
  PROVE  IInv'
  <1>1. /\ fifo' = fifo \/ \E g : fifo' = [fifo EXCEPT ![p] = g]
        /\ reader' = reader \/ reader' = [reader EXCEPT ![p] = "closed"]
        /\ UNCHANGED <<writer, letter, queue, start, end, receivers, targets, pluginId, mid,
                       sent, asked, kept, dispatched, published>>
    <2>1. CASE ReceiveBegin(p)
      BY ONLY <2>1 DEF ReceiveBegin, server, dispatcher, calls, writers, outcomes
    <2>2. CASE Skip(p)
      BY ONLY <2>2 DEF Skip, server, dispatcher, calls, writers, plugin, outcomes
    <2>3. CASE ReceiveEnd(p)
      <3>1. \E g : fifo' = [fifo EXCEPT ![p] = g]
        BY ONLY <2>3 DEF ReceiveEnd
      <3>2. /\ reader' = [reader EXCEPT ![p] = "closed"]
            /\ UNCHANGED <<writer, letter, queue, start, end, receivers, targets, pluginId, mid,
                           sent, asked, kept, dispatched, published>>
        BY ONLY <2>3 DEF ReceiveEnd, server, dispatcher, calls, writers, outcomes
      <3>3. QED
        BY ONLY <3>1, <3>2
    <2>4. QED
      BY ONLY <2>1, <2>2, <2>3, ReceiveBegin(p) \/ Skip(p) \/ ReceiveEnd(p)
  <1>2. /\ Fifos(fifo) /\ mid \in [Plugins -> Nat \cup {-1}]
        /\ Posted(reader, writer, letter, targets)
    BY ONLY IInv DEF IInv, Typed
  <1>3. p # Server
    BY ONLY p \in Plugins, PipeAssumption DEF PipeAssumption
  <1>4. Fifos(fifo') /\ fifo'[Server] = fifo[Server]
    BY ONLY <1>1, <1>2, <1>3 DEF Fifos
  <1>5. DOMAIN reader' = Plugins \cup {Server} /\ reader'[Server] = reader[Server]
    BY ONLY <1>1, <1>2, <1>3 DEF Posted
  <1>6. Posted(reader', writer', letter', targets')
    BY ONLY <1>1, <1>2, <1>5 DEF Posted
  <1>7. QED
    BY ONLY <1>1, <1>2, <1>4, <1>5, <1>6, OthersKeep, IInv

(* The pipe of a plugin is closed. While others have the server's fifo     *)
(* open nothing is lost; else the server has it not open.                  *)
LEMMA CloseKeeps ==
  ASSUME IInv, NEW p \in Plugins, Close(p)
  PROVE  IInv'
  <1>1. /\ writer' = [writer EXCEPT ![p] = "closed"]
        /\ UNCHANGED <<fifo, sent, asked>> \/ (~HasReader(Server) /\ ThrowAway(Server))
        /\ UNCHANGED <<reader, letter, queue, start, end, receivers, targets, pluginId, mid,
                       kept, dispatched, published>>
    BY ONLY Close(p) DEF Close, server, dispatcher, plugin, calls, outcomes
  <1>2. /\ Fifos(fifo) /\ mid \in [Plugins -> Nat \cup {-1}]
        /\ Posted(reader, writer, letter, targets)
    BY ONLY IInv DEF IInv, Typed
  <1>3. p # Server
    BY ONLY p \in Plugins, PipeAssumption DEF PipeAssumption
  <1>4. /\ DOMAIN reader = Plugins \cup {Server} /\ DOMAIN writer = Plugins \cup {Server}
        /\ DOMAIN letter = Plugins
        /\ \A q \in Plugins : writer[q] = "open" => Ready(letter[q])
        /\ targets \in Seq(Plugins) /\ (writer[Server] # "closed" => targets # <<>>)
    BY ONLY <1>2 DEF Posted
  <1>5. /\ DOMAIN writer' = Plugins \cup {Server} /\ writer'[Server] = writer[Server]
        /\ \A q \in Plugins : writer'[q] = "open" => writer[q] = "open"
    BY ONLY <1>1, <1>3, <1>4
  <1>6. Posted(reader', writer', letter', targets')
    BY ONLY <1>1, <1>4, <1>5 DEF Posted
  <1>7. CASE UNCHANGED <<fifo, sent, asked>>
    BY ONLY <1>7, <1>1, <1>2, <1>6, OthersKeep, IInv
  <1>8. CASE ~HasReader(Server) /\ ThrowAway(Server)
    <2>1. reader[Server] # "open"
      BY ONLY <1>8 DEF HasReader
    <2>2. QED
      BY ONLY <2>1, <1>8, <1>1, <1>6, ThrowKeeps, IInv
  <1>9. QED
    BY ONLY <1>1, <1>7, <1>8

(* A reader opens its fifo.                                                *)
LEMMA OpenKeeps ==
  ASSUME IInv, NEW f \in Plugins \cup {Server}, Open(f)
  PROVE  IInv'
  <1>1. /\ reader[f] = "closed" /\ \E r : reader' = [reader EXCEPT ![f] = r]
        /\ UNCHANGED <<fifo, writer, letter, queue, start, end, receivers, targets, pluginId, mid,
                       sent, asked, kept, dispatched, published>>
    BY ONLY Open(f) DEF Open, server, dispatcher, plugin, calls, writers, outcomes
  <1>2. /\ Fifos(fifo) /\ mid \in [Plugins -> Nat \cup {-1}]
        /\ Posted(reader, writer, letter, targets)
    BY ONLY IInv DEF IInv, Typed
  <1>3. DOMAIN reader' = Plugins \cup {Server}
    BY ONLY <1>1, <1>2 DEF Posted
  <1>4. reader'[Server] # "open" => reader[Server] # "open"
    <2>1. CASE f = Server
      BY ONLY <2>1, <1>1
    <2>2. CASE f # Server
      BY ONLY <2>2, <1>1, <1>2 DEF Posted
    <2>3. QED
      BY ONLY <2>1, <2>2
  <1>5. Posted(reader', writer', letter', targets')
    BY ONLY <1>1, <1>2, <1>3 DEF Posted
  <1>6. QED
    BY ONLY <1>1, <1>2, <1>4, <1>5, OthersKeep, IInv

(* A reader comes to the end of its fifo: the server's is empty then.      *)
LEMMA EndKeeps ==
  ASSUME IInv, NEW f \in Plugins \cup {Server}, EndOfFile(f)
  PROVE  IInv'
  <1>1. /\ reader[f] = "open" /\ fifo[f] = <<>> /\ reader' = [reader EXCEPT ![f] = "eof"]
        /\ f = Server => kept' = [sent |-> sent, asked |-> asked]
        /\ f # Server => kept' = kept
        /\ UNCHANGED <<fifo, writer, letter, queue, start, end, receivers, targets, pluginId, mid,
                       sent, asked, dispatched, published>>
    BY ONLY EndOfFile(f) DEF EndOfFile, server, dispatcher, plugin, calls, writers, outcomes
  <1>2. /\ Typed /\ Posted(reader, writer, letter, targets)
        /\ Both(sent, Len(dispatched), fifo[Server], queue, start, end, asked, published)
    BY ONLY IInv DEF IInv
  <1>3. DOMAIN reader' = Plugins \cup {Server}
    BY ONLY <1>1, <1>2 DEF Posted
  <1>4. Posted(reader', writer', letter', targets')
    BY ONLY <1>1, <1>2, <1>3 DEF Posted
  <1>5. CASE f = Server
    <2>1. UNCHANGED <<fifo, queue, start, end, receivers, pluginId, mid, sent, asked, dispatched,
                      published>>
      BY ONLY <1>1
    <2>2. kept'.sent = sent /\ kept'.asked = asked /\ fifo[Server] = <<>>
      BY ONLY <1>1, <1>5
    <2>3. Typed'
      BY ONLY <2>1, <1>2 DEF Typed
    <2>4. /\ Both(sent', Len(dispatched'), fifo'[Server], queue', start', end', asked', published')
          /\ Both(kept'.sent, Len(dispatched'), <<>>, queue', start', end', kept'.asked, published')
      BY ONLY <2>1, <2>2, <1>2
    <2>5. QED
      BY ONLY <2>3, <2>4, <1>4 DEF IInv
  <1>6. CASE f # Server
    <2>1. reader'[Server] = reader[Server]
      BY ONLY <1>6, <1>1, <1>2 DEF Posted
    <2>2. Fifos(fifo) /\ mid \in [Plugins -> Nat \cup {-1}]
      BY ONLY <1>2 DEF Typed
    <2>3. QED
      BY ONLY <2>1, <2>2, <1>1, <1>4, <1>6, OthersKeep, IInv
  <1>7. QED
    BY ONLY <1>5, <1>6

(* It closes the fifo: what was written since is thrown away with it,      *)
(* unless a writer has it open.                                            *)
LEMMA CloseReaderKeeps ==
  ASSUME IInv, NEW f \in Plugins \cup {Server}, CloseReader(f)
  PROVE  IInv'
  <1>1. /\ reader[f] = "eof" /\ reader' = [reader EXCEPT ![f] = "closed"]
        /\ UNCHANGED <<fifo, sent, asked>> \/ ThrowAway(f)
        /\ UNCHANGED <<writer, letter, queue, start, end, receivers, targets, pluginId, mid,
                       kept, dispatched, published>>
    BY ONLY CloseReader(f) DEF CloseReader, server, dispatcher, plugin, calls, writers, outcomes
  <1>2. /\ Fifos(fifo) /\ mid \in [Plugins -> Nat \cup {-1}]
        /\ Posted(reader, writer, letter, targets)
    BY ONLY IInv DEF IInv, Typed
  <1>3. DOMAIN reader' = Plugins \cup {Server}
    BY ONLY <1>1, <1>2 DEF Posted
  <1>4. Posted(reader', writer', letter', targets')
    BY ONLY <1>1, <1>2, <1>3 DEF Posted
  <1>5. reader'[Server] # "open" => reader[Server] # "open"
    <2>1. CASE f = Server
      BY ONLY <2>1, <1>1
    <2>2. CASE f # Server
      BY ONLY <2>2, <1>1, <1>2 DEF Posted
    <2>3. QED
      BY ONLY <2>1, <2>2
  <1>6. CASE UNCHANGED <<fifo, sent, asked>>
    BY ONLY <1>6, <1>1, <1>2, <1>4, <1>5, OthersKeep, IInv
  <1>7. CASE f = Server /\ ThrowAway(f)
    <2>1. reader[Server] # "open" /\ ThrowAway(Server)
      BY ONLY <1>7, <1>1
    <2>2. QED
      BY ONLY <2>1, <1>1, <1>4, ThrowKeeps, IInv
  <1>8. CASE f # Server /\ ThrowAway(f)
    <2>1. fifo' = [fifo EXCEPT ![f] = <<>>] /\ UNCHANGED <<sent, asked>>
      BY ONLY <1>8 DEF ThrowAway, calls
    <2>2. Fifos(fifo') /\ fifo'[Server] = fifo[Server]
      BY ONLY <2>1, <1>2, <1>8 DEF Fifos
    <2>3. QED
      BY ONLY <2>1, <2>2, <1>1, <1>2, <1>4, <1>5, OthersKeep, IInv
  <1>9. QED
    BY ONLY <1>1, <1>6, <1>7, <1>8

(* A step keeps the invariant while no frame overruns the buffer of PSend. *)
LEMMA NextKeeps ==
  ASSUME ~overrun', IInv, [Next]_vars
  PROVE  IInv'
  <1>1. ASSUME NEW p \in Plugins, NEW name \in Topics, NEW data \in Payloads, Send(p, name, data)
        PROVE  IInv'
    BY ONLY <1>1, SendKeeps, ~overrun', IInv
  <1>2. ASSUME NEW p \in Plugins, NEW info \in Registrations, Register(p, info) PROVE IInv'
    BY ONLY <1>2, RegisterSends, ~overrun', IInv
  <1>3. ASSUME NEW p \in Plugins, Write(p) \/ Close(p) PROVE IInv'
    BY ONLY <1>3, WriteKeeps, CloseKeeps, IInv
  <1>4. ASSUME NEW f \in Plugins \cup {Server}, Open(f) \/ EndOfFile(f) \/ CloseReader(f)
        PROVE  IInv'
    BY ONLY <1>4, OpenKeeps, EndKeeps, CloseReaderKeeps, IInv
  <1>5. ASSUME NEW count \in 1..PipeBuf, OnExecute(count) PROVE IInv'
    BY ONLY <1>5, ExecuteKeeps, IInv
  <1>6. CASE Pick
    BY ONLY <1>6, PickKeeps, IInv
  <1>7. CASE Forward \/ ForwardWrite \/ ForwardClose
    BY ONLY <1>7, ForwardKeeps, IInv
  <1>8. ASSUME NEW p \in Plugins, ReceiveBegin(p) \/ Skip(p) \/ ReceiveEnd(p) PROVE IInv'
    BY ONLY <1>8, ReceiveKeeps, IInv
  <1>9. CASE UNCHANGED vars
    <2>1. UNCHANGED <<fifo, reader, writer, letter, queue, start, end, receivers, targets, pluginId,
                      mid, sent, asked, kept, dispatched, published>>
      BY ONLY <1>9 DEF vars, server, dispatcher, plugin, calls, writers, outcomes
    <2>2. /\ Fifos(fifo) /\ mid \in [Plugins -> Nat \cup {-1}]
          /\ Posted(reader, writer, letter, targets)
      BY ONLY IInv DEF IInv, Typed
    <2>3. QED
      BY ONLY <2>1, <2>2, OthersKeep, IInv
  <1>10. QED
    BY ONLY <1>1, <1>2, <1>3, <1>4, <1>5, <1>6, <1>7, <1>8, <1>9, [Next]_vars DEF Next

(* Once a frame has overrun it the history says so.                        *)
LEMMA OverrunStays ==
  ASSUME [Next]_vars, overrun
  PROVE  overrun'
  <1>1. ASSUME NEW p \in Plugins, NEW name \in Topics, NEW data \in Payloads, Send(p, name, data)
        PROVE  overrun'
    <2> PICK message : Calls(p, message)
      BY ONLY <1>1 DEF Send
    <2>1. overrun' = (overrun \/ Overruns(message))
      BY ONLY Calls(p, message) DEF Calls
    <2>2. QED
      BY ONLY <2>1, overrun
  <1>2. ASSUME NEW p \in Plugins, NEW info \in Registrations, Register(p, info) PROVE overrun'
    BY ONLY <1>2, overrun DEF Register, Calls
  <1>3. ASSUME NEW p \in Plugins, Write(p) \/ Close(p) PROVE overrun'
    BY ONLY <1>3, overrun DEF Write, Close
  <1>4. ASSUME NEW f \in Plugins \cup {Server}, Open(f) \/ EndOfFile(f) \/ CloseReader(f)
        PROVE  overrun'
    <2>1. overrun' = overrun
      <3>1. CASE Open(f)
        BY ONLY <3>1 DEF Open
      <3>2. CASE EndOfFile(f)
        BY ONLY <3>2 DEF EndOfFile
      <3>3. CASE CloseReader(f)
        BY ONLY <3>3 DEF CloseReader
      <3>4. QED
        BY ONLY <1>4, <3>1, <3>2, <3>3
    <2>2. QED
      BY ONLY <2>1, overrun
  <1>5. ASSUME NEW count \in 1..PipeBuf, OnExecute(count) PROVE overrun'
    BY ONLY <1>5, overrun DEF OnExecute
  <1>6. CASE Pick \/ Forward \/ ForwardWrite \/ ForwardClose
    BY ONLY <1>6, overrun DEF Pick, Forward, ForwardWrite, ForwardClose
  <1>7. ASSUME NEW p \in Plugins, ReceiveBegin(p) \/ Skip(p) \/ ReceiveEnd(p) PROVE overrun'
    BY ONLY <1>7, overrun DEF ReceiveBegin, Skip, ReceiveEnd
  <1>8. CASE UNCHANGED vars
    BY ONLY <1>8, overrun DEF vars
  <1>9. QED
    BY ONLY <1>1, <1>2, <1>3, <1>4, <1>5, <1>6, <1>7, <1>8, [Next]_vars DEF Next

(* So the invariant holds as long as no frame has overrun it.              *)
LEMMA KeptSoFar == (~overrun => IInv) /\ [Next]_vars => (~overrun => IInv)'
  <1> SUFFICES ASSUME ~overrun => IInv, [Next]_vars, ~overrun' PROVE IInv'
    OBVIOUS
  <1>1. ~overrun
    BY ONLY OverrunStays, [Next]_vars, ~overrun'
  <1>2. QED
    BY ONLY <1>1, NextKeeps, ~overrun => IInv, [Next]_vars, ~overrun'

(* The server publishes what was asked first, in this order.               *)
LEMMA PublishedFollows == IInv => PublishedAsAsked
  <1> SUFFICES ASSUME IInv PROVE PublishedAsAsked
    OBVIOUS
  <1>1. PICK q : Linked(sent, asked, q) /\ Len(dispatched) \in 0..Len(sent)
                 /\ PublishedUpTo(published, asked, q[Len(dispatched)])
    BY ONLY IInv DEF IInv, Both, Link
  <1> PICK k, A : k = q[Len(dispatched)] /\ A = Len(asked)
    OBVIOUS
  <1>2. k = q[Len(dispatched)] /\ A = Len(asked)
    OBVIOUS
  <1>3. asked \in Seq(Ask) /\ q \in [0..Len(sent) -> 0..Len(asked)]
    BY ONLY <1>1 DEF Linked
  <1>4. k \in 0..A
    BY ONLY <1>1, <1>2, <1>3
  <1>5. A \in Nat
    <2>1. asked \in Seq(Ask)
      BY ONLY <1>3
    <2>2. Len(asked) \in Nat
      BY ONLY <2>1, LenProperties, Zenon
    <2>3. QED
      BY ONLY <2>2, <1>2
  <1>6. published \in Seq(Ask) /\ Len(published) = k /\ \A i \in 1..k : published[i] = asked[i]
    BY ONLY <1>1, <1>2 DEF PublishedUpTo
  <1>7. k \in Nat /\ k <= A
    BY ONLY <1>4, <1>5
  <1>8. \A i \in 1..k : published[i] = asked[i] /\ i \in 1..A
    BY ONLY <1>5, <1>6, <1>7
  <1>9. SubSeq(published, 1, k) = SubSeq(asked, 1, k)
    BY ONLY <1>3, <1>5, <1>6, <1>7, <1>8, <1>2, SubSeqProperties
  <1>10. QED
    BY ONLY <1>2, <1>6, <1>7, <1>9 DEF PublishedAsAsked, IsPrefix

(* What the server has read it has dispatched, but for the bytes of a      *)
(* frame that has not come in full.                                        *)
LEMMA CaughtFollows == IInv => CaughtUp
  <1> SUFFICES ASSUME IInv, fifo[Server] = <<>> PROVE Len(dispatched) = Len(sent)
    BY DEF CaughtUp
  <1> PICK D, N : D = Len(dispatched) /\ N = Len(sent)
    OBVIOUS
  <1>0. D = Len(dispatched) /\ N = Len(sent)
    OBVIOUS
  <1>1. PICK bs, B, X, S, R : /\ Laid(sent, bs, B, X) /\ Behind(S, R, B, D, N)
                              /\ InFifo(<<>>, X, R)
    BY ONLY IInv, fifo[Server] = <<>>, <1>0 DEF IInv, Both, Flow
  <1>2. N \in Nat /\ B \in [0..N -> Nat] /\ Len(X) = B[N] /\ Rising(N, B)
    BY ONLY <1>0, <1>1 DEF Laid, Stream
  <1>3. R \in Nat /\ R = B[N]
    <2>1. R \in Nat /\ R + Len(<<>>) = Len(X)
      BY ONLY <1>1 DEF InFifo
    <2>2. QED
      BY ONLY <2>1, <1>2
  <1>4. D \in 0..N /\ (D < N => R < B[D + 1])
    BY ONLY <1>1 DEF Behind
  <1>5. CASE D < N
    <2>1. D + 1 \in 0..N /\ N \in 0..N /\ D + 1 <= N
      BY ONLY <1>5, <1>2, <1>4
    <2>2. B[D + 1] <= B[N] /\ B[D + 1] \in Nat /\ B[N] \in Nat
      BY ONLY <2>1, <1>2 DEF Rising
    <2>3. QED
      BY ONLY <2>2, <1>3, <1>4, <1>5
  <1>6. CASE ~(D < N)
    BY ONLY <1>6, <1>0, <1>2, <1>4
  <1>7. QED
    BY ONLY <1>5, <1>6

-----------------------------------------------------------------------------
(* What Send was given comes out of the server's Publish, whatever bytes   *)
(* it has, in the order of the writes, none twice and none made up,        *)
(* wherever the reads cut the frames and the ring wraps around. None is    *)
(* lost but those that are written when the server is about to close its   *)
(* fifo, or has. All this as long as PSend was given no frame that its     *)
(* buffer does not hold.                                                   *)
THEOREM PublishedAsAskedAlways == Spec => [](~overrun => PublishedAsAsked)
  <1>1. Init => (~overrun => IInv)
    BY InitKeeps
  <1>2. (~overrun => IInv) => (~overrun => PublishedAsAsked)
    BY PublishedFollows
  <1>3. QED
    BY <1>1, <1>2, KeptSoFar, PTL DEF Spec

(* Once the server has read what is in its fifo it has dispatched every    *)
(* message that was not thrown away: no frame waits in the ring until      *)
(* another one follows, and no close leaves one half read, as long as      *)
(* PSend was given no frame that its buffer does not hold.                 *)
THEOREM CaughtUpAlways == Spec => [](~overrun => CaughtUp)
  <1>1. Init => (~overrun => IInv)
    BY InitKeeps
  <1>2. (~overrun => IInv) => (~overrun => CaughtUp)
    BY CaughtFollows
  <1>3. QED
    BY <1>1, <1>2, KeptSoFar, PTL DEF Spec
=============================================================================
