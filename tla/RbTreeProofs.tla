---------------------------- MODULE RbTreeProofs ----------------------------
(* Proofs about RbTree, for every set of keys. The set of keys below a     *)
(* node and the number of black nodes below it are not computed: the       *)
(* invariant says that there is a function S from nodes to sets of keys    *)
(* and a function H from nodes to heights that satisfy, at every node, the *)
(* equation which its definition would have. A step of the restructuring   *)
(* changes S and H at the nodes it moves, and the recursive walks of the   *)
(* code are measured by the size of S.                                     *)
EXTENDS RbTree, FiniteSetTheorems, WellFoundedInduction, TLAPS

-----------------------------------------------------------------------------
(* Recursive walks over nodes that have a rank in a bounded interval.      *)

(* A set of naturals that is not empty has a least element.                *)
LEMMA LeastNat ==
  ASSUME NEW A, A \subseteq Nat, A # {}
  PROVE  \E x \in A : \A y \in A : x <= y
  <1> DEFINE Less == {ss \in Nat \X Nat : ss[1] < ss[2]}
  <1>1. IsWellFoundedOn(Less, Nat)
    BY NatLessThanWellFounded DEF OpToRel
  <1>2. PICK x \in A : \A y \in A : ~ (<<y, x>> \in Less)
    <2> HIDE DEF Less
    <2> QED BY <1>1, WFMin
  <1>3. ASSUME NEW y \in A PROVE x <= y
    <2>1. ~(y < x)
      BY <1>2
    <2>2. QED
      BY <2>1
  <1>4. QED
    BY <1>3

(* Among some nodes with a rank one has the least rank: what is wrong      *)
(* somewhere is wrong for a first time.                                    *)
LEMMA LeastRank ==
  ASSUME NEW D, NEW C, C \subseteq D, C # {}, NEW rank \in [D -> Nat]
  PROVE  \E n \in C : \A m \in C : rank[n] <= rank[m]
  <1> DEFINE A == {rank[n] : n \in C}
  <1>1. A \subseteq Nat /\ A # {}
    OBVIOUS
  <1>2. PICK x \in A : \A y \in A : x <= y
    BY <1>1, LeastNat
  <1>3. PICK n \in C : rank[n] = x
    BY Zenon
  <1>4. QED
    BY <1>2, <1>3

(* A walk over D that goes from n to next[n], which has a lower rank, and  *)
(* ends in Stop, where its result is base[n].                              *)
WalkEnds(D, V, Stop, next, base, rank, B) ==
  /\ B \in Nat
  /\ rank \in [D -> Nat]
  /\ \A n \in D : rank[n] <= B
  /\ \A n \in D : n \in Stop => base[n] \in V
  /\ \A n \in D : n \notin Stop => next[n] \in D /\ rank[next[n]] < rank[n]

(* Such a walk is defined: its equation has a solution.                    *)
LEMMA WalkExists ==
  ASSUME NEW D, NEW V, NEW Stop, NEW next, NEW base, NEW B, NEW rank,
         WalkEnds(D, V, Stop, next, base, rank, B)
  PROVE  \E f \in [D -> V] :
           f = [n \in D |-> IF n \in Stop THEN base[n] ELSE f[next[n]]]
  <1> DEFINE Eq(f, n) == f[n] = IF n \in Stop THEN base[n] ELSE f[next[n]]
             Bad == {k \in Nat : ~ \E f \in [D -> V] : \A n \in D : rank[n] < k => Eq(f, n)}
  <1>a. /\ B \in Nat
        /\ rank \in [D -> Nat]
        /\ \A n \in D : rank[n] <= B
        /\ \A n \in D : n \in Stop => base[n] \in V
        /\ \A n \in D : n \notin Stop => next[n] \in D /\ rank[next[n]] < rank[n]
    BY DEF WalkEnds
  <1> USE <1>a
  <1>0. CASE D = {}
    <2>1. [n \in D |-> n] \in [D -> V]
      BY <1>0
    <2>2. \A f \in [D -> V] : f = [n \in D |-> IF n \in Stop THEN base[n] ELSE f[next[n]]]
      BY <1>0
    <2>3. QED
      BY <2>1, <2>2
  <1>1. CASE D # {}
    <2>1. \E v : v \in V
      <3>1. PICK n \in D : \A m \in D : rank[n] <= rank[m]
        BY <1>1, LeastRank
      <3>2. n \in Stop
        <4>1. SUFFICES ASSUME n \notin Stop PROVE FALSE
          OBVIOUS
        <4>2. next[n] \in D /\ rank[next[n]] < rank[n]
          BY <4>1
        <4>3. rank[n] <= rank[next[n]] /\ rank[n] \in Nat /\ rank[next[n]] \in Nat
          BY <3>1, <4>2
        <4>4. QED
          BY <4>2, <4>3
      <3>3. QED
        BY <3>2
    <2>2. Bad = {}
      <3>1. SUFFICES ASSUME Bad # {} PROVE FALSE
        OBVIOUS
      <3>2. PICK k \in Bad : \A j \in Bad : k <= j
        <4>1. Bad \subseteq Nat
          OBVIOUS
        <4>2. QED
          BY <3>1, <4>1, LeastNat
      <3>3. PICK v : v \in V
        BY <2>1
      <3>4. k # 0
        <4>1. [n \in D |-> v] \in [D -> V]
          BY <3>3
        <4>2. \A n \in D : ~(rank[n] < 0)
          OBVIOUS
        <4>3. QED
          BY <4>1, <4>2
      <3>5. k - 1 \in Nat /\ ~(k <= k - 1)
        BY <3>4
      <3>6. k - 1 \notin Bad
        BY <3>2, <3>5
      <3>7. PICK f \in [D -> V] : \A n \in D : rank[n] < k - 1 => Eq(f, n)
        BY <3>5, <3>6
      <3> DEFINE g == [n \in D |-> IF n \in Stop THEN base[n] ELSE f[next[n]]]
      <3>8. g \in [D -> V]
        OBVIOUS
      <3>9. ASSUME NEW n \in D, rank[n] < k PROVE Eq(g, n)
        <4>1. CASE n \in Stop
          BY <4>1
        <4>2. CASE n \notin Stop
          <5>1. next[n] \in D /\ rank[next[n]] < rank[n]
            BY <4>2
          <5>2. rank[next[n]] \in Nat /\ rank[n] \in Nat
            BY <5>1
          <5>3. rank[next[n]] < k - 1
            BY <5>1, <5>2, <3>9, k \in Nat
          <5>4. Eq(f, next[n])
            BY <5>1, <5>3, <3>7
          <5>5. g[next[n]] = f[next[n]]
            BY <5>1, <5>4
          <5>6. QED
            BY <5>5, <4>2
        <4>3. QED
          BY <4>1, <4>2
      <3>10. k \notin Bad
        <4> HIDE DEF g
        <4>1. \A n \in D : rank[n] < k => Eq(g, n)
          BY <3>9
        <4>2. QED
          BY <3>8, <4>1
      <3>11. QED
        BY <3>10
    <2>3. PICK j \in Nat : j \notin Bad /\ \A n \in D : rank[n] < j
      <3>1. B + 1 \in Nat /\ \A n \in D : rank[n] < B + 1
        OBVIOUS
      <3>2. PICK j \in Nat : \A n \in D : rank[n] < j
        BY <3>1
      <3>3. j \notin Bad
        BY <2>2, Zenon
      <3>4. QED
        <4> HIDE DEF Bad
        <4> QED BY <3>2, <3>3
    <2>a. \E f \in [D -> V] : \A n \in D : rank[n] < j => Eq(f, n)
      BY <2>3
    <2>b. \E f \in [D -> V] : \A n \in D : Eq(f, n)
      <3> HIDE DEF Eq, Bad
      <3> QED BY <2>a, <2>3
    <2>4. PICK f \in [D -> V] : \A n \in D : Eq(f, n)
      <3> HIDE DEF Eq, Bad
      <3> QED BY <2>b
    <2>5. f = [n \in D |-> IF n \in Stop THEN base[n] ELSE f[next[n]]]
      BY <2>4
    <2>6. QED
      BY <2>5
  <1>2. QED
    BY <1>0, <1>1
-----------------------------------------------------------------------------
(* The shape of the tree.                                                  *)

TreeType == [root   : NodesOrNull,
             child  : [Sides -> [Keys -> NodesOrNull]],
             parent : [Keys -> NodesOrNull],
             color  : [Keys -> {Red, Black}]]

(* m comes before n in the direction of side s.                            *)
Precedes(s, m, n) == IF s = "left" THEN m < n ELSE n < m

(* S[n] is the set of keys in the subtree of n.                            *)
Parts(t, S) ==
  /\ S \in [NodesOrNull -> SUBSET Keys]
  /\ S[Null] = {}
  /\ \A n \in Keys, s \in Sides :
        S[n] = {n} \cup S[t.child[s][n]] \cup S[t.child[Other(s)][n]]

(* The tree is a search tree.                                              *)
Ordered(t, S) ==
  \A n \in Keys, s \in Sides :
     \A m \in S[t.child[s][n]] : Precedes(s, m, n)

(* The parent links are the inverse of the child links.                    *)
Linked(t) ==
  /\ \A n \in Keys, s \in Sides : t.child[s][n] # Null => t.parent[t.child[s][n]] = n
  /\ \A n \in Keys : t.parent[n] # Null => \E s \in Sides : t.child[s][t.parent[n]] = n
  /\ t.root # Null => t.parent[t.root] = Null

(* A key that is not in the tree has no links.                             *)
Apart(t, S) ==
  \A n \in Keys : n \notin S[t.root] =>
     t.parent[n] = Null /\ \A s \in Sides : t.child[s][n] = Null

Shape(t, S) ==
  /\ t \in TreeType
  /\ Parts(t, S)
  /\ Ordered(t, S)
  /\ Linked(t)
  /\ Apart(t, S)

(* The fields of a tree of the right type.                                 *)
LEMMA TreeFields ==
  ASSUME NEW t \in TreeType
  PROVE  /\ t.root \in NodesOrNull
         /\ \A n \in Keys, s \in Sides : t.child[s][n] \in NodesOrNull
         /\ \A n \in Keys : t.parent[n] \in NodesOrNull
         /\ \A n \in Keys : t.color[n] \in {Red, Black}
  BY DEF TreeType

(* The two sides.                                                          *)
LEMMA TwoSides ==
  /\ \A s \in Sides : /\ Other(s) \in Sides /\ Other(s) # s /\ Other(Other(s)) = s
                      /\ \A d \in Sides : d = s \/ d = Other(s)
  /\ \A m, n : Toward(m, n) \in Sides
  BY DEF Sides, Other, Toward

(* Precedes is a strict total order of the keys, for either side, and the  *)
(* other side has the opposite one.                                        *)
LEMMA OrderOfKeys ==
  ASSUME NEW s \in Sides, NEW a \in Keys, NEW b \in Keys
  PROVE  /\ Precedes(s, a, b) \/ a = b \/ Precedes(s, b, a)
         /\ ~ (Precedes(s, a, b) /\ Precedes(s, b, a))
         /\ ~ Precedes(s, a, a)
         /\ Precedes(Other(s), a, b) <=> Precedes(s, b, a)
         /\ \A c \in Keys : Precedes(s, a, b) /\ Precedes(s, b, c) => Precedes(s, a, c)
         /\ a # b => Precedes(Toward(a, b), a, b)
         /\ Precedes(s, a, b) => s = Toward(a, b)
  <1>1. a \in Nat /\ b \in Nat /\ \A c \in Keys : c \in Nat
    BY RbTreeAssumption
  <1>2. s = "left" \/ s = "right"
    BY DEF Sides
  <1>3. QED
    BY <1>1, <1>2 DEF Precedes, Other, Toward

(* The sets of keys below the nodes are finite, and smaller below a child. *)
LEMMA BelowShrinks ==
  ASSUME NEW t, NEW S, t \in TreeType, Parts(t, S), Ordered(t, S)
  PROVE  /\ [n \in NodesOrNull |-> Cardinality(S[n])] \in [NodesOrNull -> Nat]
         /\ \A n \in NodesOrNull : /\ IsFiniteSet(S[n])
                                   /\ Cardinality(S[n]) \in Nat
                                   /\ Cardinality(S[n]) <= Cardinality(Keys)
         /\ Cardinality(Keys) \in Nat
         /\ \A n \in Keys, s \in Sides :
              /\ S[t.child[s][n]] \subseteq S[n]
              /\ n \in S[n] /\ n \notin S[t.child[s][n]]
              /\ Cardinality(S[t.child[s][n]]) < Cardinality(S[n])
  <1>1. IsFiniteSet(Keys) /\ Cardinality(Keys) \in Nat
    BY RbTreeAssumption, FS_CardinalityType
  <1>2. ASSUME NEW n \in NodesOrNull
        PROVE  /\ S[n] \subseteq Keys /\ IsFiniteSet(S[n])
               /\ Cardinality(S[n]) \in Nat
               /\ Cardinality(S[n]) <= Cardinality(Keys)
    <2>1. S[n] \subseteq Keys
      BY DEF Parts
    <2>2. QED
      BY <1>1, <2>1, FS_Subset, FS_CardinalityType
  <1>3. ASSUME NEW n \in Keys, NEW s \in Sides
        PROVE  /\ S[t.child[s][n]] \subseteq S[n]
               /\ n \in S[n] /\ n \notin S[t.child[s][n]]
               /\ Cardinality(S[t.child[s][n]]) < Cardinality(S[n])
    <2>1. n \in NodesOrNull /\ t.child[s][n] \in NodesOrNull
      BY TreeFields DEF NodesOrNull
    <2>2. S[t.child[s][n]] \subseteq S[n] /\ n \in S[n]
      BY DEF Parts
    <2>3. n \notin S[t.child[s][n]]
      <3>1. n \in S[t.child[s][n]] => Precedes(s, n, n)
        BY DEF Ordered
      <3>2. QED
        BY <3>1, OrderOfKeys
    <2>4. IsFiniteSet(S[n])
      BY <1>2, <2>1
    <2>5. S[t.child[s][n]] # S[n]
      BY <2>2, <2>3
    <2>6. Cardinality(S[t.child[s][n]]) <= Cardinality(S[n]) /\ (Cardinality(S[t.child[s][n]]) = Cardinality(S[n]) => S[t.child[s][n]] = S[n])
      BY <2>2, <2>4, FS_Subset
    <2>7. Cardinality(S[t.child[s][n]]) \in Nat /\ Cardinality(S[n]) \in Nat
      BY <1>2, <2>1
    <2>8. QED
      BY <2>2, <2>3, <2>5, <2>6, <2>7
  <1>4. [n \in NodesOrNull |-> Cardinality(S[n])] \in [NodesOrNull -> Nat]
    BY <1>2
  <1>5. QED
    BY <1>1, <1>2, <1>3, <1>4
(* A key below a node is the node or below the child on its side.          *)
LEMMA BelowOnSide ==
  ASSUME NEW t, NEW S, t \in TreeType, Parts(t, S), Ordered(t, S),
         NEW n \in Keys, NEW m \in S[n]
  PROVE  /\ m \in Keys
         /\ m = n \/ \E s \in Sides : m \in S[t.child[s][n]]
         /\ m # n => m \in S[t.child[Toward(m, n)][n]]
         /\ \A s \in Sides : m \in S[t.child[s][n]] <=> Precedes(s, m, n)
  <1>1. n \in NodesOrNull /\ m \in Keys
    <2>1. n \in NodesOrNull
      BY DEF NodesOrNull
    <2>2. S[n] \subseteq Keys
      BY <2>1 DEF Parts
    <2>3. QED
      BY <2>1, <2>2
  <1>2. m = n \/ \E s \in Sides : m \in S[t.child[s][n]]
    <2>1. "left" \in Sides /\ Other("left") \in Sides
      BY DEF Sides, Other
    <2>2. S[n] = {n} \cup S[t.child["left"][n]] \cup S[t.child[Other("left")][n]]
      BY <2>1 DEF Parts
    <2>3. QED
      BY <2>1, <2>2
  <1>3. ASSUME NEW s \in Sides, m \in S[t.child[s][n]] PROVE Precedes(s, m, n)
    BY <1>3 DEF Ordered
  <1>4. ASSUME NEW s \in Sides, Precedes(s, m, n) PROVE m \in S[t.child[s][n]]
    <2>1. m # n
      BY <1>1, <1>4, OrderOfKeys
    <2>2. PICK d \in Sides : m \in S[t.child[d][n]]
      BY <1>2, <2>1
    <2>3. Precedes(d, m, n)
      BY <1>3, <2>2
    <2>4. d = Toward(m, n) /\ s = Toward(m, n)
      BY <1>1, <1>4, <2>3, OrderOfKeys
    <2>5. QED
      BY <2>2, <2>4
  <1>5. m # n => m \in S[t.child[Toward(m, n)][n]]
    <2>1. m # n => Precedes(Toward(m, n), m, n)
      BY <1>1, OrderOfKeys, TwoSides
    <2>2. QED
      BY <2>1, <1>4, TwoSides
  <1>6. QED
    BY <1>1, <1>2, <1>3, <1>4, <1>5

(* The subtrees are nested.                                                *)
LEMMA Nested ==
  ASSUME NEW t, NEW S, t \in TreeType, Parts(t, S), Ordered(t, S)
  PROVE  \A n \in NodesOrNull : \A m \in S[n] : S[m] \subseteq S[n]
  <1> DEFINE rank == [n \in NodesOrNull |-> Cardinality(S[n])]
             Bad == {n \in NodesOrNull : \E m \in S[n] : ~(S[m] \subseteq S[n])}
  <1>1. rank \in [NodesOrNull -> Nat]
    BY BelowShrinks
  <1>2. SUFFICES ASSUME Bad # {} PROVE FALSE
    OBVIOUS
  <1>3. PICK n \in Bad : \A m \in Bad : rank[n] <= rank[m]
    <2>1. Bad \subseteq NodesOrNull
      OBVIOUS
    <2>2. QED
      <3> HIDE DEF rank, Bad
      <3> QED BY <1>1, <1>2, <2>1, LeastRank
  <1>4. n \in Keys
    BY DEF Parts, NodesOrNull
  <1>5. PICK m \in S[n] : ~(S[m] \subseteq S[n])
    OBVIOUS
  <1>6. PICK s \in Sides : m \in S[t.child[s][n]]
    BY <1>4, <1>5, BelowOnSide
  <1>7. t.child[s][n] \in NodesOrNull
    BY <1>4, TreeFields
  <1>8. rank[t.child[s][n]] < rank[n]
    BY <1>4, <1>7, BelowShrinks
  <1>9. t.child[s][n] \notin Bad
    BY <1>1, <1>3, <1>7, <1>8
  <1>10. S[m] \subseteq S[t.child[s][n]]
    BY <1>6, <1>7, <1>9
  <1>11. QED
    BY <1>4, <1>5, <1>10, BelowShrinks

(* What is below a node and is not that node has its parent there.         *)
LEMMA ParentWithin ==
  ASSUME NEW t, NEW S, Shape(t, S)
  PROVE  \A n \in NodesOrNull : \A m \in S[n] : m # n => t.parent[m] \in S[n]
  <1> DEFINE rank == [n \in NodesOrNull |-> Cardinality(S[n])]
             Bad == {n \in NodesOrNull : \E m \in S[n] : m # n /\ t.parent[m] \notin S[n]}
  <1>0. t \in TreeType /\ Parts(t, S) /\ Ordered(t, S) /\ Linked(t)
    BY DEF Shape
  <1>1. rank \in [NodesOrNull -> Nat]
    BY <1>0, BelowShrinks
  <1>2. SUFFICES ASSUME Bad # {} PROVE FALSE
    OBVIOUS
  <1>3. PICK n \in Bad : \A m \in Bad : rank[n] <= rank[m]
    <2>1. Bad \subseteq NodesOrNull
      OBVIOUS
    <2>2. QED
      <3> HIDE DEF rank, Bad
      <3> QED BY <1>1, <1>2, <2>1, LeastRank
  <1>4. n \in Keys
    BY <1>0 DEF Parts, NodesOrNull
  <1>5. PICK m \in S[n] : m # n /\ t.parent[m] \notin S[n]
    OBVIOUS
  <1>6. PICK s \in Sides : m \in S[t.child[s][n]]
    BY <1>0, <1>4, <1>5, BelowOnSide
  <1>7. t.child[s][n] \in NodesOrNull /\ t.child[s][n] # Null
    BY <1>0, <1>4, <1>6, TreeFields DEF Parts
  <1>8. rank[t.child[s][n]] < rank[n]
    BY <1>0, <1>4, <1>7, BelowShrinks
  <1>9. t.child[s][n] \notin Bad
    BY <1>1, <1>3, <1>7, <1>8
  <1>10. m = t.child[s][n] \/ t.parent[m] \in S[t.child[s][n]]
    BY <1>6, <1>7, <1>9
  <1>11. t.parent[t.child[s][n]] = n
    BY <1>0, <1>4, <1>7 DEF Linked
  <1>12. S[t.child[s][n]] \subseteq S[n] /\ n \in S[n]
    BY <1>0, <1>4, BelowShrinks
  <1>13. QED
    BY <1>5, <1>10, <1>11, <1>12

(* A node and what is not below it: all that is below the node lies on one *)
(* side of it.                                                             *)
LEMMA Convex ==
  ASSUME NEW t, NEW S, t \in TreeType, Parts(t, S), Ordered(t, S)
  PROVE  \A top \in NodesOrNull : \A n, m \in S[top] : m \notin S[n] =>
            \A a \in S[n], s \in Sides : Precedes(s, a, m) <=> Precedes(s, n, m)
  <1> DEFINE rank == [n \in NodesOrNull |-> Cardinality(S[n])]
             Good(top) == \A n, m \in S[top] : m \notin S[n] =>
                \A a \in S[n], s \in Sides : Precedes(s, a, m) <=> Precedes(s, n, m)
             Bad == {top \in NodesOrNull : ~Good(top)}
  <1>1. rank \in [NodesOrNull -> Nat]
    BY BelowShrinks
  <1>2. SUFFICES ASSUME Bad # {} PROVE FALSE
    OBVIOUS
  <1>3. PICK top \in Bad : \A m \in Bad : rank[top] <= rank[m]
    <2>1. Bad \subseteq NodesOrNull
      OBVIOUS
    <2>2. QED
      <3> HIDE DEF rank, Bad
      <3> QED BY <1>1, <1>2, <2>1, LeastRank
  <1>4. top \in Keys
    BY DEF Parts, NodesOrNull
  <1>5. PICK n \in S[top], m \in S[top] : m \notin S[n] /\ \E a \in S[n], s \in Sides : ~(Precedes(s, a, m) <=> Precedes(s, n, m))
    <2>1. ~Good(top)
      OBVIOUS
    <2>2. QED
      BY <2>1
  <1>6. PICK a \in S[n], s \in Sides : ~(Precedes(s, a, m) <=> Precedes(s, n, m))
    BY <1>5
  <1>7. n # top /\ n \in Keys /\ m \in Keys /\ n \in NodesOrNull
    BY <1>4, <1>5, BelowOnSide DEF NodesOrNull
  <1>8. a \in Keys
    BY <1>6, <1>7, BelowOnSide
  <1>9. PICK d \in Sides : n \in S[t.child[d][top]]
    BY <1>4, <1>5, <1>7, BelowOnSide
  <1> DEFINE c == t.child[d][top]
  <1>10. c \in NodesOrNull
    BY <1>4, TreeFields
  <1>11. a \in S[c] /\ n \in S[c]
    BY <1>6, <1>9, <1>10, Nested
  <1>12. Precedes(d, a, top) /\ Precedes(d, n, top)
    BY <1>4, <1>11 DEF Ordered
  <1>13. CASE m \in S[c]
    <2>1. rank[c] < rank[top]
      BY <1>4, <1>10, BelowShrinks
    <2>2. c \notin Bad
      BY <1>1, <1>3, <1>10, <2>1
    <2>3. Good(c)
      BY <1>10, <2>2
    <2>4. QED
      BY <1>5, <1>6, <1>9, <1>13, <2>3
  <1>14. CASE m \notin S[c]
    <2>1. m = top \/ Precedes(d, top, m)
      <3>1. ~Precedes(d, m, top)
        BY <1>4, <1>5, <1>14, BelowOnSide
      <3>2. QED
        BY <1>4, <1>7, <3>1, OrderOfKeys
    <2>2. Precedes(d, a, m) /\ Precedes(d, n, m)
      BY <1>4, <1>7, <1>8, <1>12, <2>1, OrderOfKeys
    <2>3. s = d \/ s = Other(d)
      BY TwoSides
    <2>4. CASE s = d
      BY <1>6, <2>2, <2>4
    <2>5. CASE s = Other(d)
      <3>1. ~Precedes(d, m, a) /\ ~Precedes(d, m, n)
        BY <1>7, <1>8, <2>2, OrderOfKeys
      <3>2. ~Precedes(s, a, m)
        BY <1>7, <1>8, <2>5, <3>1, OrderOfKeys
      <3>3. ~Precedes(s, n, m)
        BY <1>7, <1>8, <2>5, <3>1, OrderOfKeys
      <3>4. QED
        BY <1>6, <3>2, <3>3
    <2>6. QED
      BY <2>3, <2>4, <2>5
  <1>15. QED
    BY <1>13, <1>14
-----------------------------------------------------------------------------
(* The walks of the code.                                                  *)

(* FindNode finds the keys of the tree and no other.                       *)
LEMMA FindNodeIs ==
  ASSUME NEW t, NEW S, Shape(t, S), NEW key \in Keys
  PROVE  FindNode(t, key) = IF key \in S[t.root] THEN key ELSE Null
  <1> DEFINE rank == [n \in NodesOrNull |-> Cardinality(S[n])]
             Stop == {n \in NodesOrNull : n = Null \/ n = key}
             base == [n \in NodesOrNull |-> n]
             next == [n \in Keys |-> t.child[Toward(key, n)][n]]
  <1>0. t \in TreeType /\ Parts(t, S) /\ Ordered(t, S)
    BY DEF Shape
  <1>1. rank \in [NodesOrNull -> Nat] /\ \A n \in NodesOrNull : rank[n] <= Cardinality(Keys)
    BY <1>0, BelowShrinks
  <1>2. ASSUME NEW n \in NodesOrNull, n \notin Stop
        PROVE  n \in Keys /\ next[n] \in NodesOrNull /\ rank[next[n]] < rank[n]
    <2>1. n \in Keys /\ n # key
      BY <1>2 DEF NodesOrNull
    <2>2. next[n] = t.child[Toward(key, n)][n] /\ Toward(key, n) \in Sides
      BY <2>1, TwoSides
    <2>3. next[n] \in NodesOrNull
      BY <1>0, <2>1, <2>2, TreeFields
    <2>4. QED
      BY <1>0, <2>1, <2>2, <2>3, BelowShrinks
  <1>3. \E f \in [NodesOrNull -> NodesOrNull] :
           f = [n \in NodesOrNull |-> IF n \in Stop THEN base[n] ELSE f[next[n]]]
    <2>1. \A n \in NodesOrNull : n \in Stop => base[n] \in NodesOrNull
      OBVIOUS
    <2>2. Cardinality(Keys) \in Nat
      BY <1>0, BelowShrinks
    <2>3. \A n \in NodesOrNull : n \notin Stop => next[n] \in NodesOrNull /\ rank[next[n]] < rank[n]
      <3> HIDE DEF rank, Stop, base, next
      <3> QED BY <1>2
    <2>4. WalkEnds(NodesOrNull, NodesOrNull, Stop, next, base, rank, Cardinality(Keys))
      <3> HIDE DEF rank, Stop, base, next
      <3> QED BY <1>1, <2>1, <2>2, <2>3 DEF WalkEnds
    <2>5. QED
      <3> HIDE DEF rank, Stop, base, next
      <3> QED BY <2>4, WalkExists
  <1>4. PICK f : f = [n \in NodesOrNull |-> IF n = Null \/ n = key THEN n
                                            ELSE f[t.child[Toward(key, n)][n]]]
    <2>1. PICK f \in [NodesOrNull -> NodesOrNull] :
             f = [n \in NodesOrNull |-> IF n \in Stop THEN base[n] ELSE f[next[n]]]
      BY <1>3
    <2>2. ASSUME NEW n \in NodesOrNull
          PROVE  f[n] = IF n = Null \/ n = key THEN n ELSE f[t.child[Toward(key, n)][n]]
      <3>1. f[n] = IF n \in Stop THEN base[n] ELSE f[next[n]]
        <4> HIDE DEF Stop, base, next
        <4> QED BY <2>1
      <3>2. n \notin Stop => next[n] = t.child[Toward(key, n)][n]
        BY DEF NodesOrNull
      <3>3. QED
        BY <3>1, <3>2
    <2>3. f = [n \in NodesOrNull |-> IF n = Null \/ n = key THEN n
                                     ELSE f[t.child[Toward(key, n)][n]]]
      <3> HIDE DEF Stop, base, next
      <3> QED BY <2>1, <2>2
    <2>4. QED
      BY <2>3
  <1>5. PICK w : /\ FindNode(t, key) = w[t.root]
                 /\ w = [n \in NodesOrNull |-> IF n = Null \/ n = key THEN n
                                               ELSE w[t.child[Toward(key, n)][n]]]
    BY <1>4 DEF FindNode, NodesOrNull
  <1>6. \A n \in NodesOrNull : w[n] = IF n = Null \/ n = key THEN n
                                      ELSE w[t.child[Toward(key, n)][n]]
    BY <1>5
  <1> DEFINE Bad == {n \in NodesOrNull : w[n] # IF key \in S[n] THEN key ELSE Null}
  <1>7. Bad = {}
    <2>1. SUFFICES ASSUME Bad # {} PROVE FALSE
      OBVIOUS
    <2>2. PICK n \in Bad : \A m \in Bad : rank[n] <= rank[m]
      <3>1. Bad \subseteq NodesOrNull
        OBVIOUS
      <3>2. QED
        <4> HIDE DEF rank, Bad
        <4> QED BY <1>1, <2>1, <3>1, LeastRank
    <2>3. n # Null
      BY <1>0, <1>6 DEF Parts, NodesOrNull
    <2>4. n \in Keys
      BY <2>3 DEF NodesOrNull
    <2>5. n # key
      <3>1. n = key => w[n] = key
        BY <1>6
      <3>2. n \in S[n]
        BY <1>0, <2>4, BelowShrinks, TwoSides DEF Sides
      <3>3. QED
        BY <3>1, <3>2
    <2> DEFINE c == t.child[Toward(key, n)][n]
    <2>6. w[n] = w[c]
      BY <1>6, <2>3, <2>5
    <2>7. c \in NodesOrNull /\ S[c] \subseteq S[n] /\ rank[c] < rank[n]
      <3>1. n \notin Stop
        BY <2>3, <2>5
      <3>2. QED
        BY <1>0, <1>2, <2>4, <3>1, BelowShrinks, TwoSides
    <2>8. w[c] = IF key \in S[c] THEN key ELSE Null
      BY <1>1, <2>2, <2>7
    <2>9. key \in S[n] <=> key \in S[c]
      BY <1>0, <2>4, <2>5, <2>7, BelowOnSide
    <2>10. QED
      BY <2>6, <2>8, <2>9
  <1>8. t.root \in NodesOrNull
    BY <1>0, TreeFields
  <1>9. QED
    BY <1>5, <1>7, <1>8

(* Extreme finds the node of a subtree that comes before all the others in *)
(* the direction of the side; nothing hangs on that side of it.            *)
LEMMA ExtremeIs ==
  ASSUME NEW t, NEW S, Shape(t, S), NEW s \in Sides, NEW top \in Keys
  PROVE  /\ Extreme(t, s, top) \in S[top]
         /\ t.child[s][Extreme(t, s, top)] = Null
         /\ \A m \in S[top] : m # Extreme(t, s, top) => Precedes(s, Extreme(t, s, top), m)
  <1> DEFINE rank == [n \in Keys |-> Cardinality(S[n])]
             Stop == {n \in Keys : t.child[s][n] = Null}
             base == [n \in Keys |-> n]
             next == [n \in Keys |-> t.child[s][n]]
  <1>0. t \in TreeType /\ Parts(t, S) /\ Ordered(t, S)
    BY DEF Shape
  <1>1. rank \in [Keys -> Nat] /\ \A n \in Keys : rank[n] <= Cardinality(Keys)
    BY <1>0, BelowShrinks DEF NodesOrNull
  <1>2. ASSUME NEW n \in Keys, n \notin Stop
        PROVE  next[n] \in Keys /\ rank[next[n]] < rank[n]
    <2>1. t.child[s][n] \in Keys
      BY <1>0, <1>2, TreeFields DEF NodesOrNull
    <2>2. QED
      BY <1>0, <2>1, BelowShrinks
  <1>3. \E f \in [Keys -> Keys] :
           f = [n \in Keys |-> IF n \in Stop THEN base[n] ELSE f[next[n]]]
    <2>1. \A n \in Keys : n \in Stop => base[n] \in Keys
      OBVIOUS
    <2>2. Cardinality(Keys) \in Nat
      BY <1>0, BelowShrinks
    <2>3. \A n \in Keys : n \notin Stop => next[n] \in Keys /\ rank[next[n]] < rank[n]
      <3> HIDE DEF rank, Stop, base, next
      <3> QED BY <1>2
    <2>4. WalkEnds(Keys, Keys, Stop, next, base, rank, Cardinality(Keys))
      <3> HIDE DEF rank, Stop, base, next
      <3> QED BY <1>1, <2>1, <2>2, <2>3 DEF WalkEnds
    <2>5. QED
      <3> HIDE DEF rank, Stop, base, next
      <3> QED BY <2>4, WalkExists
  <1>4. PICK f : f = [n \in Keys |-> IF t.child[s][n] = Null THEN n ELSE f[t.child[s][n]]]
    BY <1>3
  <1>5. PICK w : /\ Extreme(t, s, top) = w[top]
                 /\ w = [n \in Keys |-> IF t.child[s][n] = Null THEN n ELSE w[t.child[s][n]]]
    BY <1>4, RbTreeAssumption DEF Extreme
  <1>6. \A n \in Keys : w[n] = IF t.child[s][n] = Null THEN n ELSE w[t.child[s][n]]
    BY <1>5
  <1> DEFINE Good(n) == /\ w[n] \in S[n]
                        /\ t.child[s][w[n]] = Null
                        /\ \A m \in S[n] : m # w[n] => Precedes(s, w[n], m)
             Bad == {n \in Keys : ~Good(n)}
  <1>7. Bad = {}
    <2>1. SUFFICES ASSUME Bad # {} PROVE FALSE
      OBVIOUS
    <2>2. PICK n \in Bad : \A m \in Bad : rank[n] <= rank[m]
      <3>1. Bad \subseteq Keys
        OBVIOUS
      <3>2. QED
        <4> HIDE DEF rank, Bad
        <4> QED BY <1>1, <2>1, <3>1, LeastRank
    <2> DEFINE c == t.child[s][n]
    <2>3. n \in Keys /\ n \in S[n] /\ S[c] \subseteq S[n]
      BY <1>0, BelowShrinks
    <2>4. \A m \in S[n] : /\ m \in Keys
                          /\ m = n \/ m \in S[c] \/ Precedes(s, n, m)
      <3>1. ASSUME NEW m \in S[n] PROVE m \in Keys /\ (m = n \/ m \in S[c] \/ Precedes(s, n, m))
        <4>1. m \in Keys /\ (m \in S[c] <=> Precedes(s, m, n))
          BY <1>0, <2>3, BelowOnSide
        <4>2. QED
          BY <2>3, <4>1, OrderOfKeys
      <3>2. QED
        BY <3>1
    <2>5. CASE c = Null
      <3>1. w[n] = n
        BY <1>6, <2>3, <2>5
      <3>2. S[c] = {}
        BY <1>0, <2>5 DEF Parts
      <3>3. Good(n)
        BY <2>3, <2>4, <2>5, <3>1, <3>2
      <3>4. QED
        BY <3>3
    <2>6. CASE c # Null
      <3>1. w[n] = w[c]
        BY <1>6, <2>3, <2>6
      <3>2. c \in Keys /\ rank[c] < rank[n]
        <4>1. n \notin Stop
          BY <2>6
        <4>2. QED
          BY <1>2, <2>3, <4>1
      <3>3. Good(c)
        BY <1>1, <2>2, <2>3, <3>2
      <3>4. w[n] \in S[c] /\ w[n] \in Keys /\ Precedes(s, w[n], n)
        BY <1>0, <2>3, <2>4, <3>1, <3>3 DEF Ordered
      <3>5. ASSUME NEW m \in S[n], m # w[n] PROVE Precedes(s, w[n], m)
        <4>1. CASE m \in S[c]
          BY <3>1, <3>3, <3>5, <4>1
        <4>2. CASE m = n
          BY <3>4, <4>2
        <4>3. CASE Precedes(s, n, m)
          BY <2>3, <2>4, <3>4, <4>3, OrderOfKeys
        <4>4. QED
          BY <2>4, <4>1, <4>2, <4>3
      <3>6. Good(n)
        BY <2>3, <3>1, <3>3, <3>4, <3>5
      <3>7. QED
        BY <3>6
    <2>7. QED
      BY <2>5, <2>6
  <1>8. Good(top)
    BY <1>7
  <1>9. QED
    BY <1>5, <1>8
(* Place finds the node under which a new key belongs: nothing hangs on    *)
(* the side of the key, and the key lies on the same side of every other   *)
(* node as that node.                                                      *)
LEMMA PlaceIs ==
  ASSUME NEW t, NEW S, Shape(t, S), NEW k \in Keys, k \notin S[t.root], t.root # Null
  PROVE  /\ Place(t, k) \in S[t.root]
         /\ t.child[Toward(k, Place(t, k))][Place(t, k)] = Null
         /\ \A m \in S[t.root] : m # Place(t, k) => Toward(k, m) = Toward(Place(t, k), m)
  <1> DEFINE down(n) == t.child[Toward(k, n)][n]
             rank == [n \in Keys |-> Cardinality(S[n])]
             Stop == {n \in Keys : down(n) = Null}
             base == [n \in Keys |-> n]
             next == [n \in Keys |-> down(n)]
  <1>0. t \in TreeType /\ Parts(t, S) /\ Ordered(t, S)
    BY DEF Shape
  <1>1. rank \in [Keys -> Nat] /\ \A n \in Keys : rank[n] <= Cardinality(Keys)
    BY <1>0, BelowShrinks DEF NodesOrNull
  <1>2. ASSUME NEW n \in Keys, n \notin Stop
        PROVE  next[n] \in Keys /\ rank[next[n]] < rank[n]
    <2>1. t.child[Toward(k, n)][n] \in Keys
      BY <1>0, <1>2, TreeFields, TwoSides DEF NodesOrNull
    <2>2. QED
      BY <1>0, <2>1, BelowShrinks, TwoSides
  <1>3. \E f \in [Keys -> Keys] :
           f = [n \in Keys |-> IF n \in Stop THEN base[n] ELSE f[next[n]]]
    <2>1. \A n \in Keys : n \in Stop => base[n] \in Keys
      OBVIOUS
    <2>2. Cardinality(Keys) \in Nat
      BY <1>0, BelowShrinks
    <2>3. \A n \in Keys : n \notin Stop => next[n] \in Keys /\ rank[next[n]] < rank[n]
      <3> HIDE DEF rank, Stop, base, next
      <3> QED BY <1>2
    <2>4. WalkEnds(Keys, Keys, Stop, next, base, rank, Cardinality(Keys))
      <3> HIDE DEF rank, Stop, base, next
      <3> QED BY <1>1, <2>1, <2>2, <2>3 DEF WalkEnds
    <2>5. QED
      <3> HIDE DEF rank, Stop, base, next
      <3> QED BY <2>4, WalkExists
  <1>4. PICK f : f = [n \in Keys |-> IF t.child[Toward(k, n)][n] = Null THEN n
                                     ELSE f[t.child[Toward(k, n)][n]]]
    <2> HIDE <1>2
    <2> QED BY <1>3
  <1>r. t.root \in Keys
    BY <1>0, TreeFields DEF NodesOrNull
  <1>5. PICK w : /\ Place(t, k) = w[t.root]
                 /\ w = [n \in Keys |-> IF t.child[Toward(k, n)][n] = Null THEN n
                                        ELSE w[t.child[Toward(k, n)][n]]]
    BY ONLY <1>4, Zenon DEF Place
  <1>6. \A n \in Keys : w[n] = IF down(n) = Null THEN n ELSE w[down(n)]
    BY <1>5
  <1> DEFINE Good(n) == k \notin S[n] =>
                        /\ w[n] \in S[n]
                        /\ t.child[Toward(k, w[n])][w[n]] = Null
                        /\ \A m \in S[n] : m # w[n] => Toward(k, m) = Toward(w[n], m)
             Bad == {n \in Keys : ~Good(n)}
  <1>7. Bad = {}
    <2>1. SUFFICES ASSUME Bad # {} PROVE FALSE
      OBVIOUS
    <2>2. PICK n \in Bad : \A m \in Bad : rank[n] <= rank[m]
      <3>1. Bad \subseteq Keys
        OBVIOUS
      <3>2. QED
        <4> HIDE DEF rank, Bad
        <4> QED BY <1>1, <2>1, <3>1, LeastRank
    <2> DEFINE d == Toward(k, n)
               c == t.child[d][n]
    <2>a. d \in Sides
      BY TwoSides
    <2>3. n \in Keys /\ n \in S[n] /\ S[c] \subseteq S[n] /\ k \notin S[n]
      BY <1>0, <2>a, BelowShrinks
    <2>b. Precedes(d, k, n)
      <3>1. k # n
        BY <2>3
      <3>2. QED
        BY <2>3, <2>a, <3>1, OrderOfKeys
    <2>4. \A m \in S[n] : /\ m \in Keys
                          /\ m = n \/ m \in S[c] \/ (Precedes(d, n, m) /\ Toward(k, m) = d)
      <3>1. ASSUME NEW m \in S[n] PROVE m \in Keys /\ (m = n \/ m \in S[c] \/ (Precedes(d, n, m) /\ Toward(k, m) = d))
        <4>1. m \in Keys /\ (m \in S[c] <=> Precedes(d, m, n))
          BY <1>0, <2>3, <2>a, BelowOnSide
        <4>2. Precedes(d, n, m) => Precedes(d, k, m)
          BY <2>3, <2>a, <2>b, <4>1, OrderOfKeys
        <4>3. Precedes(d, n, m) => Toward(k, m) = d
          BY <2>a, <4>1, <4>2, OrderOfKeys
        <4>4. QED
          BY <2>3, <2>a, <4>1, <4>3, OrderOfKeys
      <3>2. QED
        BY <3>1
    <2>5. CASE c = Null
      <3>1. w[n] = n
        BY <1>6, <2>3, <2>5
      <3>2. S[c] = {}
        BY <1>0, <2>5 DEF Parts
      <3>3. ASSUME NEW m \in S[n], m # n PROVE Toward(k, m) = Toward(n, m)
        <4>1. m \in Keys /\ Precedes(d, n, m) /\ Toward(k, m) = d
          BY <2>4, <3>2, <3>3
        <4>2. Toward(n, m) = d
          BY <2>3, <2>a, <4>1, OrderOfKeys
        <4>3. QED
          BY <4>1, <4>2
      <3>4. Good(n)
        BY <2>3, <2>5, <3>1, <3>3
      <3>5. QED
        BY <3>4
    <2>6. CASE c # Null
      <3>1. w[n] = w[c]
        BY <1>6, <2>3, <2>6
      <3>2. c \in Keys /\ rank[c] < rank[n]
        <4>1. n \notin Stop
          BY <2>6
        <4>2. QED
          BY <1>2, <2>3, <4>1
      <3>3. Good(c)
        BY <1>1, <2>2, <2>3, <3>2
      <3>4. k \notin S[c]
        BY <2>3
      <3>5. w[n] \in S[c] /\ w[n] \in Keys /\ Precedes(d, w[n], n)
        BY <1>0, <2>3, <2>4, <2>a, <3>1, <3>3, <3>4 DEF Ordered
      <3>6. ASSUME NEW m \in S[n], m # w[n] PROVE Toward(k, m) = Toward(w[n], m)
        <4>1. CASE m \in S[c]
          BY <3>1, <3>3, <3>4, <3>6, <4>1
        <4>2. CASE m = n
          <5>1. Toward(w[n], n) = d
            BY <2>3, <2>a, <3>5, OrderOfKeys
          <5>2. QED
            BY <4>2, <5>1
        <4>3. CASE Precedes(d, n, m) /\ Toward(k, m) = d
          <5>1. m \in Keys /\ Precedes(d, w[n], m)
            BY <2>3, <2>4, <2>a, <3>5, <4>3, OrderOfKeys
          <5>2. Toward(w[n], m) = d
            BY <2>a, <3>5, <5>1, OrderOfKeys
          <5>3. QED
            BY <4>3, <5>2
        <4>4. QED
          BY <2>4, <4>1, <4>2, <4>3
      <3>7. Good(n)
        BY <2>3, <3>1, <3>3, <3>4, <3>5, <3>6
      <3>8. QED
        BY <3>7
    <2>7. QED
      BY <2>5, <2>6
  <1>8. Good(t.root)
    BY <1>7, <1>r
  <1>9. QED
    BY <1>5, <1>8

(* Advance finds the key of the tree that follows, in the direction in     *)
(* which side s comes last, or nothing when no key of the tree does.       *)
LEMMA AdvanceIs ==
  ASSUME NEW t, NEW S, Shape(t, S), NEW s \in Sides, NEW node \in S[t.root]
  PROVE  LET T == S[t.root]
             o == Other(s)
             r == Advance(t, s, node)
         IN /\ r = Null => \A m \in T : ~Precedes(o, node, m)
            /\ r # Null => /\ r \in T /\ Precedes(o, node, r)
                           /\ \A m \in T : Precedes(o, node, m) => m = r \/ Precedes(o, r, m)
  <1> DEFINE T == S[t.root]
             o == Other(s)
             rank == [n \in Keys |-> Cardinality(Keys) - Cardinality(S[n])]
             Stop == {n \in Keys : t.parent[n] = Null \/ t.child[o][t.parent[n]] = n}
             base == [n \in Keys |-> t.parent[n]]
             next == [n \in Keys |-> t.parent[n]]
  <1>0. t \in TreeType /\ Parts(t, S) /\ Ordered(t, S) /\ Linked(t)
    BY DEF Shape
  <1>r. t.root \in NodesOrNull /\ T \subseteq Keys /\ o \in Sides /\ Other(o) = s /\ o # s
    BY <1>0, TreeFields, TwoSides DEF Parts
  <1>1. rank \in [Keys -> Nat] /\ \A n \in Keys : rank[n] <= Cardinality(Keys)
    <2>1. ASSUME NEW n \in Keys
          PROVE Cardinality(Keys) - Cardinality(S[n]) \in Nat /\ Cardinality(Keys) - Cardinality(S[n]) <= Cardinality(Keys)
      <3>1. /\ Cardinality(S[n]) \in Nat /\ Cardinality(S[n]) <= Cardinality(Keys)
            /\ Cardinality(Keys) \in Nat
        BY <1>0, BelowShrinks DEF NodesOrNull
      <3>2. QED
        BY <3>1
    <2>2. QED
      BY <2>1
  <1>2. ASSUME NEW n \in Keys, n \notin Stop
        PROVE  /\ t.parent[n] \in Keys /\ rank[t.parent[n]] < rank[n]
               /\ t.child[s][t.parent[n]] = n
    <2>1. t.parent[n] \in Keys /\ t.child[o][t.parent[n]] # n
      BY <1>0, <1>2, TreeFields DEF NodesOrNull
    <2>2. t.child[s][t.parent[n]] = n
      <3>1. PICK d \in Sides : t.child[d][t.parent[n]] = n
        BY <1>0, <1>2 DEF Linked
      <3>2. QED
        BY <2>1, <3>1, TwoSides
    <2>3. Cardinality(S[n]) < Cardinality(S[t.parent[n]])
      BY <1>0, <2>1, <2>2, BelowShrinks
    <2>4. /\ Cardinality(S[n]) \in Nat /\ Cardinality(S[t.parent[n]]) \in Nat
          /\ Cardinality(Keys) \in Nat
      BY <1>0, <2>1, BelowShrinks DEF NodesOrNull
    <2>5. QED
      BY <2>1, <2>2, <2>3, <2>4
  <1>3. \E f \in [Keys -> NodesOrNull] :
           f = [n \in Keys |-> IF n \in Stop THEN base[n] ELSE f[next[n]]]
    <2>1. \A n \in Keys : n \in Stop => base[n] \in NodesOrNull
      BY <1>0, TreeFields
    <2>2. Cardinality(Keys) \in Nat
      BY <1>0, BelowShrinks
    <2>3. \A n \in Keys : n \notin Stop => next[n] \in Keys /\ rank[next[n]] < rank[n]
      <3>1. \A n \in Keys : next[n] = t.parent[n]
        OBVIOUS
      <3>2. QED
        <4> HIDE DEF rank, Stop, base, next
        <4> QED BY <1>2, <3>1
    <2>4. WalkEnds(Keys, NodesOrNull, Stop, next, base, rank, Cardinality(Keys))
      <3> HIDE DEF rank, Stop, base, next
      <3> QED BY <1>1, <2>1, <2>2, <2>3 DEF WalkEnds
    <2>5. QED
      <3> HIDE DEF rank, Stop, base, next
      <3> QED BY <2>4, WalkExists
  <1>4. PICK f : f = [n \in Keys |-> IF t.parent[n] = Null \/ t.child[Other(s)][t.parent[n]] = n
                                     THEN t.parent[n] ELSE f[t.parent[n]]]
    BY <1>3
  <1>5. PICK w : /\ Advance(t, s, node) = IF t.child[s][node] # Null
                                          THEN Extreme(t, Other(s), t.child[s][node])
                                          ELSE w[node]
                 /\ w = [n \in Keys |-> IF t.parent[n] = Null \/ t.child[Other(s)][t.parent[n]] = n
                                        THEN t.parent[n] ELSE w[t.parent[n]]]
    <2> DEFINE anc == CHOOSE w : w = [n \in Keys |-> IF t.parent[n] = Null \/ t.child[Other(s)][t.parent[n]] = n
                                                    THEN t.parent[n] ELSE w[t.parent[n]]]
    <2>1. anc = [n \in Keys |-> IF t.parent[n] = Null \/ t.child[Other(s)][t.parent[n]] = n
                                THEN t.parent[n] ELSE anc[t.parent[n]]]
      BY ONLY <1>4, Zenon
    <2>2. Advance(t, s, node) = IF t.child[s][node] # Null
                                THEN Extreme(t, Other(s), t.child[s][node]) ELSE anc[node]
      BY ONLY Zenon DEF Advance
    <2>3. QED
      BY ONLY <2>1, <2>2, Zenon
  <1>6. \A n \in Keys : w[n] = IF n \in Stop THEN t.parent[n] ELSE w[t.parent[n]]
    BY <1>5
  <1>c. ASSUME NEW n \in T, NEW m \in T, m \notin S[n], NEW a \in S[n]
        PROVE  Precedes(o, a, m) <=> Precedes(o, n, m)
    BY <1>0, <1>r, <1>c, Convex
  <1> DEFINE Good(n) ==
               /\ w[n] = Null => \A m \in T \ S[n] : ~Precedes(o, n, m)
               /\ w[n] # Null => /\ w[n] \in T \ S[n] /\ Precedes(o, n, w[n])
                                 /\ \A m \in T \ S[n] : Precedes(o, n, m) => m = w[n] \/ Precedes(o, w[n], m)
             Bad == {n \in T : ~Good(n)}
  <1>7. Bad = {}
    <2>1. SUFFICES ASSUME Bad # {} PROVE FALSE
      OBVIOUS
    <2>2. PICK n \in Bad : \A m \in Bad : rank[n] <= rank[m]
      <3>1. Bad \subseteq Keys
        BY <1>r
      <3>2. QED
        <4> HIDE DEF rank, Bad
        <4> QED BY <1>1, <2>1, <3>1, LeastRank
    <2> DEFINE p == t.parent[n]
    <2>3. n \in T /\ n \in Keys
      BY <1>r
    <2>4. CASE n = t.root
      <3>1. p = Null
        BY <1>0, <1>r, <2>3, <2>4, RbTreeAssumption DEF Linked
      <3>2. w[n] = Null
        BY <1>6, <2>3, <3>1
      <3>3. T \ S[n] = {}
        BY <2>4
      <3>4. Good(n)
        BY <3>2, <3>3
      <3>5. QED
        BY <3>4
    <2>5. CASE n # t.root
      <3>1. p \in T /\ p \in Keys /\ p # Null
        BY <1>r, <2>3, <2>5, ParentWithin, RbTreeAssumption
      <3>2. PICK d \in Sides : t.child[d][p] = n
        BY <1>0, <2>3, <3>1 DEF Linked
      <3>3. S[n] \subseteq S[p] /\ p \notin S[n] /\ n \in S[n] /\ n \in S[p] /\ p \in S[p]
        BY <1>0, <2>3, <3>1, <3>2, <1>r, BelowShrinks
      <3>4. ASSUME NEW m \in T, m \notin S[p]
            PROVE  m \notin S[n] /\ (Precedes(o, n, m) <=> Precedes(o, p, m))
        BY <1>c, <3>1, <3>3, <3>4
      <3>5. ASSUME NEW m \in S[p]
            PROVE  m \in Keys /\ (m = p \/ m \in S[n] \/ (Precedes(d, p, m) /\ m \notin S[n]))
        <4>1. m \in Keys /\ (m \in S[t.child[d][p]] <=> Precedes(d, m, p))
          BY <1>0, <3>1, <3>2, <3>5, BelowOnSide
        <4>2. QED
          BY <3>1, <3>2, <4>1, OrderOfKeys
      <3>6. CASE n \in Stop
        <4>1. w[n] = p /\ t.child[o][p] = n
          BY <1>6, <2>3, <3>1, <3>6
        <4>2. d = o
          <5>1. n \in S[t.child[o][p]] /\ n \in S[t.child[d][p]]
            BY <3>2, <3>3, <4>1
          <5>2. Precedes(o, n, p) /\ Precedes(d, n, p)
            BY <1>0, <1>r, <3>1, <5>1 DEF Ordered
          <5>3. QED
            BY <1>r, <2>3, <3>1, <5>2, OrderOfKeys
        <4>3. Precedes(o, n, p)
          BY <1>0, <1>r, <3>1, <3>3, <4>1 DEF Ordered
        <4>4. ASSUME NEW m \in T \ S[n], Precedes(o, n, m) PROVE m = p \/ Precedes(o, p, m)
          <5>1. CASE m \in S[p]
            BY <3>5, <4>2, <5>1
          <5>2. CASE m \notin S[p]
            BY <3>4, <4>4, <5>2
          <5>3. QED
            BY <5>1, <5>2
        <4>5. Good(n)
          BY <3>1, <3>3, <4>1, <4>3, <4>4
        <4>6. QED
          BY <4>5
      <3>7. CASE n \notin Stop
        <4>1. w[n] = w[p] /\ t.child[s][p] = n /\ rank[p] < rank[n]
          BY <1>2, <1>6, <2>3, <3>7
        <4>2. Good(p)
          <5>1. rank[p] \in Nat /\ rank[n] \in Nat
            BY <1>1, <2>3, <3>1
          <5>2. ~(rank[n] <= rank[p])
            BY <4>1, <5>1
          <5>3. p \notin Bad
            BY <2>2, <5>2
          <5>4. QED
            BY <3>1, <5>3
        <4>3. d = s
          <5>1. n \in S[t.child[s][p]] /\ n \in S[t.child[d][p]]
            BY <3>2, <3>3, <4>1
          <5>2. Precedes(s, n, p) /\ Precedes(d, n, p)
            BY <1>0, <3>1, <5>1 DEF Ordered
          <5>3. QED
            BY <2>3, <3>1, <5>2, OrderOfKeys
        <4>4. Precedes(s, n, p) /\ Precedes(o, p, n)
          <5>1. Precedes(s, n, p)
            BY <1>0, <3>1, <3>3, <4>1 DEF Ordered
          <5>2. QED
            BY <2>3, <3>1, <5>1, OrderOfKeys
        <4>5. ASSUME NEW m \in T \ S[n], Precedes(o, n, m) PROVE m \in T \ S[p] /\ Precedes(o, p, m)
          <5>1. m \notin S[p]
            <6>1. SUFFICES ASSUME m \in S[p] PROVE FALSE
              OBVIOUS
            <6>2. m \in Keys /\ (m = p \/ Precedes(s, p, m))
              BY <3>5, <4>3, <6>1
            <6>3. Precedes(s, n, m)
              BY <2>3, <3>1, <4>4, <6>2, OrderOfKeys
            <6>4. QED
              BY <2>3, <4>5, <6>2, <6>3, OrderOfKeys
          <5>2. QED
            BY <3>4, <4>5, <5>1
        <4>6. w[n] # Null => w[n] \in T \ S[n] /\ Precedes(o, n, w[n])
          BY <3>4, <4>1, <4>2
        <4>7. Good(n)
          BY <4>1, <4>2, <4>5, <4>6
        <4>8. QED
          BY <4>7
      <3>8. QED
        BY <3>6, <3>7
    <2>6. QED
      BY <2>4, <2>5
  <1> DEFINE r == Advance(t, s, node)
  <1>n. node \in Keys /\ node \in S[node]
    BY <1>0, <1>r, BelowShrinks
  <1>8. CASE t.child[s][node] # Null
    <2> DEFINE c == t.child[s][node]
    <2>1. c \in Keys
      BY <1>0, <1>8, <1>n, TreeFields DEF NodesOrNull
    <2>2. r = Extreme(t, o, c)
      BY <1>5, <1>8
    <2>3. r \in S[c] /\ \A m \in S[c] : m # r => Precedes(o, r, m)
      <3> HIDE DEF r, c
      <3> QED BY <1>r, <2>1, <2>2, ExtremeIs
    <2>4. S[c] \subseteq S[node] /\ S[node] \subseteq T
      BY <1>0, <1>r, <1>n, BelowShrinks, Nested
    <2>5. r \in T /\ r \in Keys /\ r # Null
      BY <1>r, <2>3, <2>4, RbTreeAssumption
    <2>6. Precedes(o, node, r)
      <3>1. Precedes(s, r, node)
        BY <1>0, <1>n, <2>3 DEF Ordered
      <3>2. QED
        BY <1>n, <2>5, <3>1, OrderOfKeys
    <2>7. ASSUME NEW m \in T, Precedes(o, node, m) PROVE m = r \/ Precedes(o, r, m)
      <3>1. m \in Keys /\ Precedes(s, m, node)
        BY <1>n, <1>r, <2>7, OrderOfKeys
      <3>2. CASE m \in S[node]
        <4>1. m \in S[c]
          BY <1>0, <1>n, <3>1, <3>2, BelowOnSide
        <4>2. QED
          BY <2>3, <4>1
      <3>3. CASE m \notin S[node]
        BY <1>c, <2>3, <2>4, <2>7, <3>3
      <3>4. QED
        BY <3>2, <3>3
    <2>8. QED
      BY <2>5, <2>6, <2>7
  <1>9. CASE t.child[s][node] = Null
    <2>1. r = w[node]
      BY <1>5, <1>9
    <2>2. Good(node)
      BY <1>7
    <2>3. ASSUME NEW m \in T, Precedes(o, node, m) PROVE m \notin S[node]
      <3>1. SUFFICES ASSUME m \in S[node] PROVE FALSE
        OBVIOUS
      <3>2. m \in Keys /\ Precedes(s, m, node)
        BY <1>n, <1>r, <2>3, OrderOfKeys
      <3>3. m \in S[t.child[s][node]]
        BY <1>0, <1>n, <3>1, <3>2, BelowOnSide
      <3>4. QED
        BY <1>0, <1>9, <3>3 DEF Parts
    <2>4. QED
      BY <2>1, <2>2, <2>3
  <1>10. QED
    BY <1>8, <1>9
-----------------------------------------------------------------------------
(* What the changes of links and colours leave in each field.              *)

(* u is t with c hung on side s of n.                                       *)
Hung(t, u, n, s, c) ==
  /\ u \in TreeType
  /\ u.root = t.root
  /\ u.color = t.color
  /\ \A d \in Sides, k \in Keys :
       u.child[d][k] = IF d = s /\ k = n THEN c ELSE t.child[d][k]
  /\ \A k \in Keys : u.parent[k] = IF k = c THEN n ELSE t.parent[k]

(* u is t with m in the place that n had on side e of p.                   *)
Lifted(t, u, p, e, m) ==
  /\ u \in TreeType
  /\ u.root = IF p = Null THEN m ELSE t.root
  /\ u.color = t.color
  /\ \A d \in Sides, k \in Keys :
       u.child[d][k] = IF k = p /\ d = e THEN m ELSE t.child[d][k]
  /\ \A k \in Keys : u.parent[k] = IF k = m THEN p ELSE t.parent[k]

(* u is t with n in colour c.                                               *)
Painted(t, u, n, c) ==
  /\ u \in TreeType
  /\ u.root = t.root /\ u.child = t.child /\ u.parent = t.parent
  /\ \A k \in Keys : u.color[k] = IF k = n THEN c ELSE t.color[k]

(* Hang changes one child link and the parent link of the child.           *)
LEMMA HangFields ==
  ASSUME NEW t \in TreeType, NEW n \in Keys, NEW s \in Sides, NEW c \in NodesOrNull
  PROVE  Hung(t, Hang(t, n, s, c), n, s, c)
  <1>1. CASE c = Null
    BY <1>1, RbTreeAssumption DEF Hang, TreeType, NodesOrNull, Hung
  <1>2. CASE c # Null
    <2>1. c \in Keys
      BY <1>2 DEF NodesOrNull
    <2>2. QED
      BY <1>2, <2>1 DEF Hang, TreeType, NodesOrNull, Hung
  <1>3. QED
    BY <1>1, <1>2

(* Lift changes the link that led to n, which may be the root, and the     *)
(* parent link of m.                                                       *)
LEMMA LiftFields ==
  ASSUME NEW t \in TreeType, NEW n \in Keys, NEW m \in NodesOrNull
  PROVE  Lifted(t, Lift(t, n, m), t.parent[n], SideOf(t, n), m)
  <1> PICK p : p = t.parent[n]
    OBVIOUS
  <1> PICK s : s = SideOf(t, n)
    OBVIOUS
  <1>0. s \in Sides /\ p \in NodesOrNull /\ (p = Null \/ p \in Keys)
    BY TreeFields DEF SideOf, Sides, NodesOrNull
  <1>1. PICK h : h = IF p = Null THEN [t EXCEPT !.root = m]
                     ELSE [t EXCEPT !.child[s][p] = m]
    OBVIOUS
  <1>2. Lift(t, n, m) = IF m = Null THEN h ELSE [h EXCEPT !.parent[m] = p]
    BY <1>1 DEF Lift
  <1>3. /\ h \in TreeType
        /\ h.root = IF p = Null THEN m ELSE t.root
        /\ h.color = t.color
        /\ h.parent = t.parent
        /\ \A d \in Sides, k \in Keys :
             h.child[d][k] = IF k = p /\ d = s THEN m ELSE t.child[d][k]
    <2>1. CASE p = Null
      BY <1>1, <2>1, RbTreeAssumption DEF TreeType
    <2>2. CASE p # Null
      BY <1>0, <1>1, <2>2 DEF TreeType
    <2>3. QED
      BY <2>1, <2>2
  <1>4. CASE m = Null
    <2>1. Lift(t, n, m) = h
      BY <1>2, <1>4
    <2>2. QED
      BY <1>3, <1>4, <2>1, RbTreeAssumption DEF Lifted
  <1>5. CASE m # Null
    <2>1. Lift(t, n, m) = [h EXCEPT !.parent[m] = p] /\ m \in Keys
      BY <1>2, <1>5 DEF NodesOrNull
    <2>2. PICK u : u = [h EXCEPT !.parent[m] = p]
      OBVIOUS
    <2>3. /\ u \in TreeType /\ u.root = h.root /\ u.color = h.color /\ u.child = h.child
          /\ \A k \in Keys : u.parent[k] = IF k = m THEN p ELSE h.parent[k]
      BY <1>0, <1>3, <2>1, <2>2 DEF TreeType
    <2>4. QED
      BY <1>3, <2>1, <2>2, <2>3 DEF Lifted
  <1>6. QED
    BY <1>4, <1>5

(* Paint changes one colour.                                               *)
LEMMA PaintFields ==
  ASSUME NEW t \in TreeType, NEW n \in NodesOrNull, NEW c \in {Red, Black}
  PROVE  Painted(t, Paint(t, n, c), n, c)
  <1>1. CASE n = Null
    BY <1>1, RbTreeAssumption DEF Paint, Painted
  <1>2. CASE n # Null
    <2>1. n \in Keys
      BY <1>2 DEF NodesOrNull
    <2>2. QED
      BY <1>2, <2>1 DEF Paint, TreeType, Painted
  <1>3. QED
    BY <1>1, <1>2

(* A node and its parent: the side on which it hangs.                      *)
LEMMA SideOfIs ==
  ASSUME NEW t, NEW S, Shape(t, S), NEW n \in Keys, t.parent[n] # Null
  PROVE  /\ t.parent[n] \in Keys
         /\ SideOf(t, n) \in Sides
         /\ t.child[SideOf(t, n)][t.parent[n]] = n
         /\ t.child[Other(SideOf(t, n))][t.parent[n]] # n
         /\ \A s \in Sides : t.child[s][t.parent[n]] = n => s = SideOf(t, n)
  <1> PICK p : p = t.parent[n]
    OBVIOUS
  <1>0. t \in TreeType /\ Parts(t, S) /\ Ordered(t, S) /\ Linked(t)
    BY DEF Shape
  <1>1. p \in Keys
    BY <1>0, TreeFields DEF NodesOrNull
  <1>2. PICK d \in Sides : t.child[d][p] = n
    BY <1>0 DEF Linked
  <1>3. ASSUME NEW s \in Sides, t.child[s][p] = n PROVE s = d
    <2>1. n \in S[n]
      BY <1>0, BelowShrinks
    <2>2. Precedes(s, n, p) /\ Precedes(d, n, p)
      BY <1>0, <1>1, <1>2, <1>3, <2>1 DEF Ordered
    <2>3. QED
      BY <1>1, <2>2, OrderOfKeys
  <1>4. SideOf(t, n) = d
    <2>1. "left" \in Sides /\ "right" \in Sides /\ (d = "left" \/ d = "right")
      BY DEF Sides
    <2>2. QED
      BY <1>2, <1>3, <2>1 DEF SideOf
  <1>5. QED
    BY <1>1, <1>2, <1>3, <1>4, TwoSides
(* The keys below the nodes after a rotation of n: the riser has what n    *)
(* had, and n keeps its own child and the inner grandchild.                *)
Turned(t, S, n, s) ==
  [S EXCEPT ![t.child[Other(s)][n]] = S[n],
            ![n] = {n} \cup S[t.child[s][n]] \cup S[t.child[s][t.child[Other(s)][n]]]]

(* The nodes a rotation touches are different ones.                        *)
LEMMA AroundNode ==
  ASSUME NEW t, NEW S, Shape(t, S), NEW n \in Keys, NEW s \in Sides,
         t.child[Other(s)][n] # Null
  PROVE  LET riser == t.child[Other(s)][n]
             inner == t.child[s][riser]
             p     == t.parent[n]
         IN /\ riser \in Keys /\ riser # n
            /\ inner \in NodesOrNull /\ inner # n /\ inner # riser
            /\ p \in NodesOrNull /\ p # n /\ p # riser /\ (inner # Null => inner # p)
            /\ t.parent[riser] = n
            /\ inner # Null => t.parent[inner] = riser
  <1> PICK riser : riser = t.child[Other(s)][n]
    OBVIOUS
  <1> PICK inner : inner = t.child[s][riser]
    OBVIOUS
  <1> PICK p : p = t.parent[n]
    OBVIOUS
  <1>0. t \in TreeType /\ Parts(t, S) /\ Ordered(t, S) /\ Linked(t)
    BY DEF Shape
  <1>1. Other(s) \in Sides /\ riser \in Keys /\ inner \in NodesOrNull /\ p \in NodesOrNull
    BY <1>0, TwoSides, TreeFields DEF NodesOrNull
  <1>2. t.parent[riser] = n /\ (inner # Null => t.parent[inner] = riser)
    BY <1>0, <1>1 DEF Linked
  <1>3. /\ Cardinality(S[riser]) \in Nat /\ Cardinality(S[n]) \in Nat
        /\ Cardinality(S[inner]) \in Nat /\ Cardinality(S[p]) \in Nat
        /\ Cardinality(S[inner]) < Cardinality(S[riser])
        /\ Cardinality(S[riser]) < Cardinality(S[n])
    BY <1>0, <1>1, BelowShrinks DEF NodesOrNull
  <1>4. p # Null => Cardinality(S[n]) < Cardinality(S[p])
    <2>1. SUFFICES ASSUME p # Null PROVE Cardinality(S[n]) < Cardinality(S[p])
      OBVIOUS
    <2>2. PICK d \in Sides : t.child[d][p] = n
      BY <1>0, <2>1 DEF Linked
    <2>3. p \in Keys
      BY <1>1, <2>1 DEF NodesOrNull
    <2>4. QED
      BY <1>0, <2>2, <2>3, BelowShrinks
  <1>5. riser # n /\ inner # n /\ inner # riser
    BY <1>3
  <1>6. p # n /\ p # riser
    BY <1>1, <1>3, <1>4, RbTreeAssumption
  <1>7. inner # Null => inner # p
    BY <1>3, <1>4
  <1>8. QED
    BY <1>1, <1>2, <1>5, <1>6, <1>7

(* u is t after a rotation of n, below side e of p, by which riser rises   *)
(* and inner changes its parent.                                           *)
Rotated(t, u, n, s, riser, inner, p, e) ==
  /\ u \in TreeType
  /\ u.root = IF p = Null THEN riser ELSE t.root
  /\ u.color = t.color
  /\ u.child[Other(s)][n] = inner
  /\ u.child[s][n] = t.child[s][n]
  /\ u.child[s][riser] = n
  /\ u.child[Other(s)][riser] = t.child[Other(s)][riser]
  /\ p # Null => u.child[e][p] = riser /\ u.child[Other(e)][p] = t.child[Other(e)][p]
  /\ \A d \in Sides, k \in Keys \ {n, riser, p} : u.child[d][k] = t.child[d][k]
  /\ u.parent[n] = riser /\ u.parent[riser] = p
  /\ inner # Null => u.parent[inner] = n
  /\ \A k \in Keys \ {n, riser, inner} : u.parent[k] = t.parent[k]

(* The three changes of links that make a rotation.                        *)
LEMMA ThreeLinks ==
  ASSUME NEW t, NEW t1, NEW t2, NEW u, NEW n \in Keys, NEW s \in Sides, NEW riser \in Keys,
         NEW inner \in NodesOrNull, NEW p \in NodesOrNull, NEW e \in Sides,
         riser # n, inner # n, inner # riser, p # n, p # riser,
         Lifted(t, t1, p, e, riser), Hung(t1, t2, n, Other(s), inner), Hung(t2, u, riser, s, n)
  PROVE  Rotated(t, u, n, s, riser, inner, p, e)
  <1>1. /\ u \in TreeType
        /\ u.root = IF p = Null THEN riser ELSE t.root
        /\ u.color = t.color
    BY DEF Lifted, Hung
  <1>2. Other(s) \in Sides /\ Other(s) # s /\ Other(e) \in Sides /\ Other(e) # e
    BY TwoSides
  <1>3. ASSUME NEW d \in Sides, NEW k \in Keys
        PROVE  u.child[d][k] = IF d = s /\ k = riser THEN n
                               ELSE IF d = Other(s) /\ k = n THEN inner
                               ELSE IF k = p /\ d = e THEN riser ELSE t.child[d][k]
    <2>1. u.child[d][k] = IF d = s /\ k = riser THEN n ELSE t2.child[d][k]
      BY DEF Hung
    <2>2. t2.child[d][k] = IF d = Other(s) /\ k = n THEN inner ELSE t1.child[d][k]
      BY DEF Hung
    <2>3. t1.child[d][k] = IF k = p /\ d = e THEN riser ELSE t.child[d][k]
      BY DEF Lifted
    <2>4. QED
      BY <2>1, <2>2, <2>3
  <1>4. ASSUME NEW k \in Keys
        PROVE  u.parent[k] = IF k = n THEN riser ELSE IF k = inner THEN n
                             ELSE IF k = riser THEN p ELSE t.parent[k]
    <2>1. u.parent[k] = IF k = n THEN riser ELSE t2.parent[k]
      BY DEF Hung
    <2>2. t2.parent[k] = IF k = inner THEN n ELSE t1.parent[k]
      BY DEF Hung
    <2>3. t1.parent[k] = IF k = riser THEN p ELSE t.parent[k]
      BY DEF Lifted
    <2>4. QED
      BY <2>1, <2>2, <2>3
  <1>5. /\ u.child[Other(s)][n] = inner
        /\ u.child[s][n] = t.child[s][n]
        /\ u.child[s][riser] = n
        /\ u.child[Other(s)][riser] = t.child[Other(s)][riser]
    BY <1>2, <1>3
  <1>6. p # Null => u.child[e][p] = riser /\ u.child[Other(e)][p] = t.child[Other(e)][p]
    BY <1>2, <1>3 DEF NodesOrNull
  <1>7. \A d \in Sides, k \in Keys \ {n, riser, p} : u.child[d][k] = t.child[d][k]
    BY <1>3
  <1>8. /\ u.parent[n] = riser /\ u.parent[riser] = p
        /\ inner # Null => u.parent[inner] = n
        /\ \A k \in Keys \ {n, riser, inner} : u.parent[k] = t.parent[k]
    BY <1>4 DEF NodesOrNull
  <1>9. QED
    BY <1>1, <1>5, <1>6, <1>7, <1>8 DEF Rotated

(* What a rotation does to each field.                                     *)
LEMMA RotateFields ==
  ASSUME NEW t, NEW S, Shape(t, S), NEW n \in Keys, NEW s \in Sides,
         t.child[Other(s)][n] # Null
  PROVE  Rotated(t, Rotate(t, n, s), n, s, t.child[Other(s)][n],
                 t.child[s][t.child[Other(s)][n]], t.parent[n], SideOf(t, n))
  <1> DEFINE riser == t.child[Other(s)][n]
             inner == t.child[s][riser]
             p     == t.parent[n]
             e     == SideOf(t, n)
             t1    == Lift(t, n, riser)
             t2    == Hang(t1, n, Other(s), inner)
             u     == Hang(t2, riser, s, n)
  <1>0. t \in TreeType
    BY DEF Shape
  <1>1. /\ riser \in Keys /\ riser # n
        /\ inner \in NodesOrNull /\ inner # n /\ inner # riser
        /\ p \in NodesOrNull /\ p # n /\ p # riser
    BY AroundNode
  <1>2. Other(s) \in Sides /\ riser \in NodesOrNull /\ n \in NodesOrNull /\ e \in Sides
    BY <1>1, TwoSides DEF NodesOrNull, SideOf, Sides
  <1>7. Rotate(t, n, s) = u
    BY DEF Rotate
  <1> HIDE DEF riser, inner, p, e
  <1>3. Lifted(t, t1, p, e, riser) /\ t1 \in TreeType
    <2>1. Lifted(t, Lift(t, n, riser), t.parent[n], SideOf(t, n), riser)
      BY <1>0, <1>2, LiftFields
    <2>2. QED
      BY <2>1 DEF p, e, Lifted
  <1> HIDE DEF t1
  <1>4. Hung(t1, t2, n, Other(s), inner) /\ t2 \in TreeType
    <2>1. Hung(t1, Hang(t1, n, Other(s), inner), n, Other(s), inner)
      BY <1>1, <1>2, <1>3, HangFields
    <2>2. QED
      BY <2>1 DEF Hung
  <1> HIDE DEF t2
  <1>5. Hung(t2, u, riser, s, n)
    BY <1>1, <1>2, <1>4, HangFields
  <1> HIDE DEF u
  <1>6. Rotated(t, u, n, s, riser, inner, p, e)
    BY <1>1, <1>2, <1>3, <1>4, <1>5, ThreeLinks
  <1>8. QED
    BY <1>6, <1>7 DEF riser, inner, p, e
(* A node that is not alone is in the tree; one without a parent is then   *)
(* the root.                                                               *)
LEMMA InTheTree ==
  ASSUME NEW t, NEW S, Shape(t, S), NEW n \in Keys
  PROVE  /\ t.parent[n] # Null => n \in S[t.root]
         /\ \A s \in Sides : t.child[s][n] # Null => n \in S[t.root]
         /\ n \in S[t.root] /\ t.parent[n] = Null => n = t.root
         /\ n \in S[t.root] => S[n] \subseteq S[t.root]
         /\ \A s \in Sides : n \in S[t.root] /\ t.child[s][n] # Null => t.child[s][n] \in S[t.root]
  <1>0. t \in TreeType /\ Parts(t, S) /\ Ordered(t, S)
    BY DEF Shape
  <1>1. t.root \in NodesOrNull
    BY <1>0, TreeFields
  <1>2. t.parent[n] # Null => n \in S[t.root]
    BY DEF Shape, Apart
  <1>3. \A s \in Sides : t.child[s][n] # Null => n \in S[t.root]
    BY DEF Shape, Apart
  <1>4. n \in S[t.root] => S[n] \subseteq S[t.root]
    BY <1>0, <1>1, Nested
  <1>5. n \in S[t.root] /\ t.parent[n] = Null => n = t.root
    <2>1. SUFFICES ASSUME n \in S[t.root], t.parent[n] = Null, n # t.root PROVE FALSE
      OBVIOUS
    <2>2. t.parent[n] \in S[t.root]
      BY <1>1, <2>1, ParentWithin
    <2>3. S[t.root] \subseteq Keys
      BY <1>0, <1>1 DEF Parts
    <2>4. QED
      BY <2>1, <2>2, <2>3, RbTreeAssumption
  <1>6. ASSUME NEW s \in Sides, n \in S[t.root], t.child[s][n] # Null
        PROVE  t.child[s][n] \in S[t.root]
    <2>1. t.child[s][n] \in Keys
      BY <1>0, <1>6, TreeFields DEF NodesOrNull
    <2>2. t.child[s][n] \in S[t.child[s][n]]
      BY <1>0, <2>1, BelowShrinks, TwoSides
    <2>3. S[t.child[s][n]] \subseteq S[n]
      BY <1>0, BelowShrinks
    <2>4. QED
      BY <1>4, <1>6, <2>2, <2>3
  <1>7. QED
    BY <1>2, <1>3, <1>4, <1>5, <1>6

(* The two children of a node are different ones, and no node is its own   *)
(* child.                                                                  *)
LEMMA ChildrenDiffer ==
  ASSUME NEW t, NEW S, Shape(t, S), NEW n \in Keys, NEW s \in Sides
  PROVE  /\ t.child[s][n] # n
         /\ t.child[s][n] # Null => t.child[Other(s)][n] # t.child[s][n]
         /\ t.child[s][n] # Null => t.child[s][n] \in Keys /\ t.parent[t.child[s][n]] = n
  <1>0. t \in TreeType /\ Parts(t, S) /\ Ordered(t, S) /\ Linked(t)
    BY DEF Shape
  <1>1. t.child[s][n] # n
    <2>1. n \in S[n] /\ n \notin S[t.child[s][n]]
      BY <1>0, BelowShrinks
    <2>2. QED
      BY <2>1
  <1>2. ASSUME t.child[s][n] # Null
        PROVE  /\ t.child[Other(s)][n] # t.child[s][n]
               /\ t.child[s][n] \in Keys /\ t.parent[t.child[s][n]] = n
    <2> PICK c : c = t.child[s][n]
      OBVIOUS
    <2>1. c \in Keys /\ t.parent[c] = n
      BY <1>0, <1>2, TreeFields DEF NodesOrNull, Linked
    <2>2. c \in S[c]
      BY <1>0, <2>1, BelowShrinks
    <2>3. Precedes(s, c, n)
      BY <1>0, <2>2 DEF Ordered
    <2>4. t.child[Other(s)][n] = c => Precedes(Other(s), c, n)
      BY <1>0, <2>2, TwoSides DEF Ordered
    <2>5. QED
      BY <2>1, <2>3, <2>4, OrderOfKeys
  <1>3. QED
    BY <1>1, <1>2

(* A rotation keeps the shape and the keys of the tree.                    *)
LEMMA RotateShape ==
  ASSUME NEW t, NEW S, Shape(t, S), NEW n \in Keys, NEW s \in Sides,
         NEW riser, riser = t.child[Other(s)][n], riser # Null,
         NEW inner, inner = t.child[s][riser], NEW p, p = t.parent[n],
         NEW e, e = SideOf(t, n), NEW u, Rotated(t, u, n, s, riser, inner, p, e),
         NEW R, R = Turned(t, S, n, s)
  PROVE  Shape(u, R) /\ R[u.root] = S[t.root]
  <1> PICK o : o = Other(s)
    OBVIOUS
  <1> PICK lo : lo = t.child[s][n]
    OBVIOUS
  <1> PICK outer : outer = t.child[o][riser]
    OBVIOUS
  <1>0. t \in TreeType /\ Parts(t, S) /\ Ordered(t, S) /\ Linked(t) /\ Apart(t, S)
    BY DEF Shape
  <1>s. o \in Sides /\ o # s /\ Other(o) = s /\ \A d \in Sides : d = s \/ d = o
    BY TwoSides
  <1>1. /\ riser \in Keys /\ riser # n
        /\ inner \in NodesOrNull /\ inner # n /\ inner # riser
        /\ p \in NodesOrNull /\ p # n /\ p # riser /\ (inner # Null => inner # p)
        /\ t.parent[riser] = n
        /\ inner # Null => inner \in Keys /\ t.parent[inner] = riser
    <2>1. /\ riser \in Keys /\ riser # n
          /\ inner \in NodesOrNull /\ inner # n /\ inner # riser
          /\ p \in NodesOrNull /\ p # n /\ p # riser /\ (inner # Null => inner # p)
          /\ t.parent[riser] = n
          /\ inner # Null => t.parent[inner] = riser
      <3> DEFINE rr == t.child[Other(s)][n]
                 ii == t.child[s][rr]
                 pp == t.parent[n]
      <3>1. /\ rr \in Keys /\ rr # n
            /\ ii \in NodesOrNull /\ ii # n /\ ii # rr
            /\ pp \in NodesOrNull /\ pp # n /\ pp # rr /\ (ii # Null => ii # pp)
            /\ t.parent[rr] = n
            /\ ii # Null => t.parent[ii] = rr
        <4>1. t.child[Other(s)][n] # Null
          OBVIOUS
        <4>2. Shape(t, S) /\ n \in Keys /\ s \in Sides
          OBVIOUS
        <4>3. QED
          BY ONLY <4>1, <4>2, AroundNode
      <3>2. rr = riser /\ ii = inner /\ pp = p
        OBVIOUS
      <3> HIDE DEF rr, ii, pp
      <3>3. QED
        BY <3>1, <3>2
    <2>2. inner # Null => inner \in Keys
      BY <2>1 DEF NodesOrNull
    <2>3. QED
      BY <2>1, <2>2
  <1>2. /\ lo \in NodesOrNull /\ lo # n /\ lo # riser
        /\ lo # Null => lo \in Keys /\ t.parent[lo] = n /\ lo # inner
    BY <1>0, <1>1, <1>s, ChildrenDiffer, TreeFields DEF NodesOrNull
  <1>3. /\ outer \in NodesOrNull /\ outer # riser /\ outer # n
        /\ outer # Null => outer \in Keys /\ t.parent[outer] = riser /\ outer # inner
    <2>1. /\ outer \in NodesOrNull /\ outer # riser
          /\ outer # Null => outer \in Keys /\ t.parent[outer] = riser /\ outer # inner
      BY <1>0, <1>1, <1>s, ChildrenDiffer, TreeFields
    <2>2. outer # n
      BY <1>1, <2>1, RbTreeAssumption
    <2>3. QED
      BY <2>1, <2>2
  <1>4. p # Null => p \in Keys /\ e \in Sides /\ Other(e) \in Sides /\ Other(e) # e
                    /\ t.child[e][p] = n /\ t.child[Other(e)][p] # n
                    /\ \A d \in Sides : d = e \/ d = Other(e)
    BY SideOfIs, TwoSides
  <1>5. R \in [NodesOrNull -> SUBSET Keys] /\ R[riser] = S[n] /\ R[n] = {n} \cup S[lo] \cup S[inner]
        /\ \A k \in NodesOrNull : k # n /\ k # riser => R[k] = S[k]
    <2>1. S \in [NodesOrNull -> SUBSET Keys] /\ n \in NodesOrNull /\ riser \in NodesOrNull
      BY <1>0, <1>1 DEF Parts, NodesOrNull
    <2>2. R = [S EXCEPT ![riser] = S[n], ![n] = {n} \cup S[lo] \cup S[inner]]
      BY DEF Turned
    <2>3. S[n] \in SUBSET Keys /\ {n} \cup S[lo] \cup S[inner] \in SUBSET Keys
      BY <1>1, <1>2, <2>1
    <2>4. QED
      BY <1>1, <2>1, <2>2, <2>3
  <1>6. S[riser] = {riser} \cup S[inner] \cup S[outer] /\ S[n] = {n} \cup S[lo] \cup S[riser]
    BY <1>0, <1>1 DEF Parts
  <1>7. ASSUME NEW k \in Keys \ {n, riser}, NEW d \in Sides
        PROVE  R[k] = S[k] /\ R[u.child[d][k]] = S[t.child[d][k]]
    <2>1. t.child[d][k] \in NodesOrNull /\ t.child[d][k] # riser
      BY <1>0, <1>1, <1>7, TreeFields, ChildrenDiffer, RbTreeAssumption
    <2>2. CASE k = p
      <3>1. d = e => R[u.child[d][k]] = S[t.child[d][k]]
        BY <1>4, <1>5, <1>7, <2>2, RbTreeAssumption DEF Rotated
      <3>2. d # e => u.child[d][k] = t.child[d][k] /\ t.child[d][k] # n
        BY <1>4, <1>7, <2>2, RbTreeAssumption DEF Rotated
      <3>3. QED
        BY <1>5, <1>7, <2>1, <3>1, <3>2 DEF NodesOrNull
    <2>3. CASE k # p
      <3>1. u.child[d][k] = t.child[d][k]
        BY <1>7, <2>3 DEF Rotated
      <3>2. t.child[d][k] # n
        BY <1>7, <2>3, ChildrenDiffer, RbTreeAssumption
      <3>3. QED
        BY <1>5, <1>7, <2>1, <3>1, <3>2 DEF NodesOrNull
    <2>4. QED
      BY <2>2, <2>3
  <1>8. /\ u.child[s][n] = lo /\ u.child[o][n] = inner
        /\ u.child[s][riser] = n /\ u.child[o][riser] = outer
    BY DEF Rotated
  <1>9. /\ R[lo] = S[lo] /\ R[inner] = S[inner] /\ R[outer] = S[outer]
    BY <1>1, <1>2, <1>3, <1>5
  <1>10. Parts(u, R)
    <2>1. R[Null] = {}
      BY <1>0, <1>1, <1>5, RbTreeAssumption DEF Parts, NodesOrNull
    <2>2. ASSUME NEW k \in Keys, NEW d \in Sides
          PROVE  R[k] = {k} \cup R[u.child[d][k]] \cup R[u.child[Other(d)][k]]
      <3>1. CASE k = n
        <4>1. R[n] = {n} \cup R[lo] \cup R[inner]
          BY <1>5, <1>9
        <4>2. /\ d = s => u.child[d][k] = lo /\ u.child[Other(d)][k] = inner
              /\ d = o => u.child[d][k] = inner /\ u.child[Other(d)][k] = lo
          BY <1>8, <1>s, <3>1
        <4>3. QED
          BY <1>s, <3>1, <4>1, <4>2
      <3>2. CASE k = riser
        <4>1. R[riser] = {riser} \cup R[n] \cup R[outer]
          BY <1>5, <1>6, <1>9
        <4>2. /\ d = s => u.child[d][k] = n /\ u.child[Other(d)][k] = outer
              /\ d = o => u.child[d][k] = outer /\ u.child[Other(d)][k] = n
          BY <1>8, <1>s, <3>2
        <4>3. QED
          BY <1>s, <3>2, <4>1, <4>2
      <3>3. CASE k \notin {n, riser}
        <4>1. R[k] = S[k] /\ R[u.child[d][k]] = S[t.child[d][k]]
          BY <1>7, <3>3
        <4>2. R[u.child[Other(d)][k]] = S[t.child[Other(d)][k]]
          BY <1>7, <3>3, TwoSides
        <4>3. S[k] = {k} \cup S[t.child[d][k]] \cup S[t.child[Other(d)][k]]
          BY <1>0 DEF Parts
        <4>4. QED
          BY <4>1, <4>2, <4>3
      <3>4. QED
        BY <3>1, <3>2, <3>3
    <2>3. QED
      BY <1>5, <2>1, <2>2 DEF Parts
  <1>11. Ordered(u, R)
    <2>1. ASSUME NEW k \in Keys, NEW d \in Sides, NEW m \in R[u.child[d][k]]
          PROVE  Precedes(d, m, k)
      <3>1. CASE k = n /\ d = s
        BY <1>0, <1>8, <1>9, <2>1, <3>1 DEF Ordered
      <3>2. CASE k = n /\ d = o
        <4>1. m \in S[riser]
          BY <1>6, <1>8, <1>9, <2>1, <3>2
        <4>2. QED
          BY <1>0, <3>2, <4>1 DEF Ordered
      <3>3. CASE k = riser /\ d = s
        <4>1. m \in {n} \cup S[lo] \cup S[inner]
          BY <1>5, <1>8, <2>1, <3>3
        <4>2. Precedes(s, n, riser)
          <5>1. Precedes(o, riser, n)
            BY <1>0, <1>6, <1>s DEF Ordered
          <5>2. QED
            BY <1>1, <1>s, <5>1, OrderOfKeys
        <4>3. CASE m \in S[lo]
          <5>1. Precedes(s, m, n) /\ m \in Keys
            BY <1>0, <1>2, <4>3 DEF Ordered, Parts
          <5>2. QED
            BY <1>1, <3>3, <4>2, <5>1, OrderOfKeys
        <4>4. CASE m \in S[inner]
          BY <1>0, <1>1, <3>3, <4>4 DEF Ordered
        <4>5. QED
          BY <3>3, <4>1, <4>2, <4>3, <4>4
      <3>4. CASE k = riser /\ d = o
        BY <1>0, <1>1, <1>8, <1>9, <1>s, <2>1, <3>4 DEF Ordered
      <3>5. CASE k \notin {n, riser}
        <4>1. m \in S[t.child[d][k]]
          BY <1>7, <2>1, <3>5
        <4>2. QED
          BY <1>0, <4>1 DEF Ordered
      <3>6. QED
        BY <1>s, <3>1, <3>2, <3>3, <3>4, <3>5
    <2>2. QED
      BY <2>1 DEF Ordered
  <1>12. n \in S[t.root] /\ (p = Null => n = t.root) /\ t.root # Null /\ (p # Null => p \in S[t.root])
         /\ t.root \in Keys
    <2>1. n \in S[t.root] /\ (p = Null => n = t.root)
      BY <1>s, InTheTree
    <2>2. t.root # Null
      BY <1>0, <2>1 DEF Parts
    <2>3. p # Null => p \in S[t.root]
      BY <1>4, InTheTree, RbTreeAssumption
    <2>4. QED
      BY <1>0, <2>1, <2>2, <2>3, TreeFields DEF NodesOrNull
  <1>13. p # Null => t.root # n /\ t.root # riser /\ t.root # inner
    <2>1. t.parent[t.root] = Null
      BY <1>0, <1>12 DEF Linked
    <2>2. QED
      BY <1>1, <1>12, <2>1, RbTreeAssumption
  <1>14. R[u.root] = S[t.root]
    <2>1. CASE p = Null
      BY <1>5, <1>12, <2>1 DEF Rotated
    <2>2. CASE p # Null
      BY <1>5, <1>12, <1>13, <2>2 DEF Rotated, NodesOrNull
    <2>3. QED
      BY <2>1, <2>2
  <1>15. Apart(u, R)
    <2>1. ASSUME NEW k \in Keys, k \notin S[t.root]
          PROVE  u.parent[k] = Null /\ \A d \in Sides : u.child[d][k] = Null
      <3>1. t.parent[k] = Null /\ \A d \in Sides : t.child[d][k] = Null
        BY <1>0, <2>1 DEF Apart
      <3>2. k # n /\ k # riser /\ k # inner /\ k # p
        BY <1>1, <1>12, <2>1, <3>1, RbTreeAssumption
      <3>3. u.parent[k] = t.parent[k] /\ \A d \in Sides : u.child[d][k] = t.child[d][k]
        BY <3>2 DEF Rotated
      <3>4. QED
        BY <3>1, <3>3
    <2>2. QED
      BY <1>14, <2>1 DEF Apart
  <1>16. Linked(u)
    <2>1. ASSUME NEW k \in Keys, NEW d \in Sides, u.child[d][k] # Null
          PROVE  u.parent[u.child[d][k]] = k
      <3>1. CASE k = n /\ d = s
        <4>1. u.child[d][k] = lo /\ lo # Null
          BY <1>8, <2>1, <3>1
        <4>2. u.parent[lo] = t.parent[lo]
          BY <1>2, <4>1 DEF Rotated
        <4>3. QED
          BY <1>2, <3>1, <4>1, <4>2
      <3>2. CASE k = n /\ d = o
        BY <1>8, <2>1, <3>2 DEF Rotated
      <3>3. CASE k = riser /\ d = s
        BY <1>8, <3>3 DEF Rotated
      <3>4. CASE k = riser /\ d = o
        <4>1. u.child[d][k] = outer /\ outer # Null
          BY <1>8, <2>1, <3>4
        <4>2. u.parent[outer] = t.parent[outer]
          BY <1>3, <4>1 DEF Rotated
        <4>3. QED
          BY <1>3, <3>4, <4>1, <4>2
      <3>5. CASE k \notin {n, riser} /\ k = p /\ d = e
        BY <3>5, RbTreeAssumption DEF Rotated
      <3>6. CASE k \notin {n, riser} /\ ~(k = p /\ d = e)
        <4>1. u.child[d][k] = t.child[d][k]
          <5>1. CASE k = p
            <6>1. p # Null /\ d = Other(e)
              BY <1>4, <3>6, <5>1, RbTreeAssumption
            <6>2. QED
              BY <5>1, <6>1 DEF Rotated
          <5>2. CASE k # p
            BY <3>6, <5>2 DEF Rotated
          <5>3. QED
            BY <5>1, <5>2
        <4>2. PICK c : c = t.child[d][k]
          OBVIOUS
        <4>3. c \in Keys /\ t.parent[c] = k
          BY <2>1, <4>1, <4>2, ChildrenDiffer
        <4>4. c # n
          BY <1>4, <3>6, <4>2, <4>3, RbTreeAssumption
        <4>5. c # riser /\ c # inner
          BY <1>1, <3>6, <4>3, RbTreeAssumption
        <4>6. u.parent[c] = t.parent[c]
          BY <4>3, <4>4, <4>5 DEF Rotated
        <4>7. QED
          BY <4>1, <4>2, <4>3, <4>6
      <3>7. QED
        BY <1>s, <3>1, <3>2, <3>3, <3>4, <3>5, <3>6
    <2>2. ASSUME NEW k \in Keys, u.parent[k] # Null
          PROVE  \E d \in Sides : u.child[d][u.parent[k]] = k
      <3>1. CASE k = n
        BY <1>8, <3>1 DEF Rotated
      <3>2. CASE k = riser
        BY <1>4, <2>2, <3>2 DEF Rotated
      <3>3. CASE k = inner
        BY <1>8, <1>s, <3>3, RbTreeAssumption DEF Rotated
      <3>4. CASE k \notin {n, riser, inner}
        <4>1. u.parent[k] = t.parent[k]
          BY <3>4 DEF Rotated
        <4>2. PICK q : q = t.parent[k]
          OBVIOUS
        <4>3. PICK d \in Sides : t.child[d][q] = k
          BY <1>0, <2>2, <4>1, <4>2 DEF Linked
        <4>4. q \in Keys
          BY <1>0, <2>2, <4>1, <4>2, TreeFields DEF NodesOrNull
        <4>5. CASE q = n
          BY <1>8, <1>s, <3>4, <4>1, <4>2, <4>3, <4>5
        <4>6. CASE q = riser
          BY <1>8, <1>s, <3>4, <4>1, <4>2, <4>3, <4>6
        <4>7. CASE q = p
          <5>1. p # Null /\ d = Other(e)
            BY <1>4, <3>4, <4>3, <4>4, <4>7, RbTreeAssumption
          <5>2. u.child[Other(e)][p] = t.child[Other(e)][p]
            BY <5>1 DEF Rotated
          <5>3. QED
            BY <4>1, <4>2, <4>3, <4>7, <5>1, <5>2
        <4>8. CASE q \notin {n, riser, p}
          <5>1. u.child[d][q] = t.child[d][q]
            BY <4>3, <4>4, <4>8 DEF Rotated
          <5>2. QED
            BY <4>1, <4>2, <4>3, <5>1
        <4>9. QED
          BY <4>5, <4>6, <4>7, <4>8
      <3>5. QED
        BY <3>1, <3>2, <3>3, <3>4
    <2>3. u.root # Null => u.parent[u.root] = Null
      <3>1. CASE p = Null
        BY <3>1 DEF Rotated
      <3>2. CASE p # Null
        <4>1. u.root = t.root /\ t.parent[t.root] = Null
          BY <1>0, <1>12, <3>2 DEF Rotated, Linked
        <4>2. u.parent[t.root] = t.parent[t.root]
          BY <1>12, <1>13, <3>2 DEF Rotated
        <4>3. QED
          BY <4>1, <4>2
      <3>3. QED
        BY <3>1, <3>2
    <2>4. QED
      BY <2>1, <2>2, <2>3 DEF Linked
  <1>17. u \in TreeType
    BY DEF Rotated
  <1>18. QED
    BY <1>10, <1>11, <1>14, <1>15, <1>16, <1>17 DEF Shape
-----------------------------------------------------------------------------
(* The colours. H[n] is the number of black nodes on each way down from n. *)

Weight(t, n) == IF t.color[n] = Black THEN 1 ELSE 0

(* While a black node is missing it is missing on side f of q.             *)
Lack(q, f, n, d) == IF n = q /\ d = f THEN 1 ELSE 0

LevelAt(t, H, q, f, n) ==
  \A d \in Sides : H[n] = H[t.child[d][n]] + Weight(t, n) + Lack(q, f, n, d)

Level(t, H, q, f) ==
  /\ H \in [NodesOrNull -> Nat \ {0}]
  /\ H[Null] = 1
  /\ \A n \in Keys : LevelAt(t, H, q, f, n)

(* The red nodes with a red parent are some of X.                          *)
RedPairs(t, X) ==
  \A n \in Keys : IsRed(t, n) /\ IsRed(t, t.parent[n]) => n \in X

(* A child of a child of a node is not the node.                           *)
LEMMA NoCircleOfTwo ==
  ASSUME NEW t, NEW S, t \in TreeType, Parts(t, S), Ordered(t, S), NEW n \in Keys,
         NEW c \in Keys, NEW d \in Sides, t.child[d][n] = c, NEW e \in Sides
  PROVE  t.child[e][c] # n
  <1>1. SUFFICES ASSUME t.child[e][c] = n PROVE FALSE
    OBVIOUS
  <1>2. c \in S[c] /\ n \in S[n]
    BY BelowShrinks
  <1>3. n \in S[c] /\ n \notin S[c]
    BY <1>1, <1>2, BelowShrinks
  <1>4. QED
    BY <1>3

(* The heights H satisfy, but for the two nodes that turn, the equations of *)
(* t; with h for n and H[n] for the riser they satisfy those two in the    *)
(* new order.                                                              *)
HeightsFit(t, H, n, s, riser, inner, q, f, h) ==
  /\ H \in [NodesOrNull -> Nat \ {0}] /\ H[Null] = 1 /\ h \in Nat \ {0}
  /\ \A k \in Keys \ {n, riser} : LevelAt(t, H, q, f, k)
  /\ h = H[t.child[s][n]] + Weight(t, n) + Lack(q, f, n, s)
  /\ h = H[inner] + Weight(t, n) + Lack(q, f, n, Other(s))
  /\ H[n] = h + Weight(t, riser) + Lack(q, f, riser, s)
  /\ H[n] = H[t.child[Other(s)][riser]] + Weight(t, riser) + Lack(q, f, riser, Other(s))

(* The heights after a rotation: it needs the equation of the two nodes it *)
(* turns to hold in the new order.                                         *)
LEMMA RotateHeights ==
  ASSUME NEW t, NEW S, Shape(t, S), NEW n \in Keys, NEW s \in Sides,
         NEW riser, riser = t.child[Other(s)][n], riser # Null,
         NEW inner, inner = t.child[s][riser], NEW p, p = t.parent[n],
         NEW e, e = SideOf(t, n), NEW u, Rotated(t, u, n, s, riser, inner, p, e),
         NEW H, NEW q, NEW f, NEW h, HeightsFit(t, H, n, s, riser, inner, q, f, h)
  PROVE  Level(u, [H EXCEPT ![riser] = H[n], ![n] = h], q, f)
  <1> PICK K : K = [H EXCEPT ![riser] = H[n], ![n] = h]
    OBVIOUS
  <1>h. /\ H \in [NodesOrNull -> Nat \ {0}] /\ H[Null] = 1 /\ h \in Nat \ {0}
        /\ \A k \in Keys \ {n, riser} : LevelAt(t, H, q, f, k)
        /\ h = H[t.child[s][n]] + Weight(t, n) + Lack(q, f, n, s)
        /\ h = H[inner] + Weight(t, n) + Lack(q, f, n, Other(s))
        /\ H[n] = h + Weight(t, riser) + Lack(q, f, riser, s)
        /\ H[n] = H[t.child[Other(s)][riser]] + Weight(t, riser) + Lack(q, f, riser, Other(s))
    BY DEF HeightsFit
  <1> PICK o : o = Other(s)
    OBVIOUS
  <1> PICK lo : lo = t.child[s][n]
    OBVIOUS
  <1> PICK outer : outer = t.child[o][riser]
    OBVIOUS
  <1>0. t \in TreeType /\ Parts(t, S) /\ Ordered(t, S) /\ Linked(t) /\ Apart(t, S)
    BY DEF Shape
  <1>s. o \in Sides /\ o # s /\ Other(o) = s /\ \A d \in Sides : d = s \/ d = o
    BY TwoSides
  <1>1. t.child[o][n] = riser /\ riser \in NodesOrNull /\ riser \in Keys /\ riser # n /\ t.parent[riser] = n
    BY <1>0, <1>s, ChildrenDiffer, TreeFields
  <1>2. inner \in NodesOrNull /\ inner # riser /\ inner # n
    <2>1. inner \in NodesOrNull /\ inner # riser
      BY <1>0, <1>1, ChildrenDiffer, TreeFields
    <2>2. inner # n
      <3>1. t.child[s][riser] # n
        BY <1>0, <1>1, <1>s, NoCircleOfTwo
      <3>2. QED
        BY <3>1
    <2>3. QED
      BY <2>1, <2>2
  <1>3. lo \in NodesOrNull /\ lo # n /\ lo # riser
    BY <1>0, <1>1, <1>s, ChildrenDiffer, TreeFields
  <1>4. outer \in NodesOrNull /\ outer # riser /\ outer # n
    <2>1. outer \in NodesOrNull /\ outer # riser
      BY <1>0, <1>1, <1>s, ChildrenDiffer, TreeFields
    <2>2. outer # n
      <3>1. t.child[o][riser] # n
        BY <1>0, <1>1, <1>s, NoCircleOfTwo
      <3>2. QED
        BY <3>1
    <2>3. QED
      BY <2>1, <2>2
  <1>5. K \in [NodesOrNull -> Nat \ {0}] /\ K[riser] = H[n] /\ K[n] = h
        /\ \A k \in NodesOrNull : k # n /\ k # riser => K[k] = H[k]
    <2>1. n \in NodesOrNull
      BY DEF NodesOrNull
    <2>2. H[n] \in Nat \ {0}
      BY <1>h, <2>1
    <2>3. H \in [NodesOrNull -> Nat \ {0}] /\ h \in Nat \ {0}
      BY <1>h
    <2>4. QED
      BY <1>1, <2>1, <2>2, <2>3
  <1>6. K[Null] = 1
    <2>1. H[Null] = 1
      BY <1>h
    <2>2. QED
      BY <1>1, <1>5, <2>1, RbTreeAssumption DEF NodesOrNull
  <1>7. K[lo] = H[lo] /\ K[inner] = H[inner] /\ K[outer] = H[outer]
    BY <1>2, <1>3, <1>4, <1>5
  <1>8. /\ u.child[s][n] = lo /\ u.child[o][n] = inner
        /\ u.child[s][riser] = n /\ u.child[o][riser] = outer
        /\ u.color = t.color
    BY DEF Rotated
  <1>9. \A k \in Keys : Weight(u, k) = Weight(t, k)
    BY <1>8 DEF Weight
  <1>g. /\ h = H[lo] + Weight(t, n) + Lack(q, f, n, s)
        /\ h = H[inner] + Weight(t, n) + Lack(q, f, n, o)
        /\ H[n] = h + Weight(t, riser) + Lack(q, f, riser, s)
        /\ H[n] = H[outer] + Weight(t, riser) + Lack(q, f, riser, o)
    BY <1>h
  <1>10. LevelAt(u, K, q, f, n)
    <2>1. K[n] = K[u.child[s][n]] + Weight(u, n) + Lack(q, f, n, s)
      BY <1>g, <1>5, <1>7, <1>8, <1>9
    <2>2. K[n] = K[u.child[o][n]] + Weight(u, n) + Lack(q, f, n, o)
      BY <1>g, <1>5, <1>7, <1>8, <1>9
    <2>3. QED
      BY <1>s, <2>1, <2>2 DEF LevelAt
  <1>11. LevelAt(u, K, q, f, riser)
    <2>1. K[riser] = K[u.child[s][riser]] + Weight(u, riser) + Lack(q, f, riser, s)
      BY <1>g, <1>1, <1>5, <1>8, <1>9
    <2>2. K[riser] = K[u.child[o][riser]] + Weight(u, riser) + Lack(q, f, riser, o)
      BY <1>g, <1>1, <1>5, <1>7, <1>8, <1>9
    <2>3. QED
      BY <1>s, <2>1, <2>2 DEF LevelAt
  <1>12. ASSUME NEW k \in Keys, k # n, k # riser PROVE LevelAt(u, K, q, f, k)
    <2>1. ASSUME NEW d \in Sides PROVE K[u.child[d][k]] = H[t.child[d][k]]
      <3>0. t.child[d][k] \in NodesOrNull
        BY <1>0, TreeFields
      <3>1. t.child[d][k] \in NodesOrNull /\ t.child[d][k] # riser
        <4>1. t.child[d][k] # Null => t.parent[t.child[d][k]] = k
          BY ChildrenDiffer
        <4>2. riser # Null
          BY <1>1, RbTreeAssumption
        <4>3. QED
          BY <1>1, <1>12, <3>0, <4>1, <4>2
      <3>2. CASE t.child[d][k] = n
        <4>1. k = p /\ p # Null /\ d = e
          <5>1. k = p /\ p # Null
            BY <3>2, ChildrenDiffer, RbTreeAssumption
          <5>2. d = e
            BY <3>2, <5>1, SideOfIs
          <5>3. QED
            BY <5>1, <5>2
        <4>2. u.child[d][k] = riser
          BY <4>1 DEF Rotated
        <4>3. QED
          BY <1>5, <3>2, <4>2
      <3>3. CASE t.child[d][k] # n
        <4>1. u.child[d][k] = t.child[d][k]
          <5>1. CASE k = p
            <6>1. p # Null /\ d = Other(e)
              <7>1. p # Null
                BY <5>1, RbTreeAssumption
              <7>2. t.child[e][p] = n /\ e \in Sides
                BY <7>1, SideOfIs
              <7>3. QED
                BY <3>3, <5>1, <7>1, <7>2, TwoSides
            <6>2. QED
              BY <5>1, <6>1 DEF Rotated
          <5>2. CASE k # p
            BY <1>12, <5>2 DEF Rotated
          <5>3. QED
            BY <5>1, <5>2
        <4>2. QED
          BY <1>5, <3>1, <3>3, <4>1
      <3>4. QED
        BY <3>2, <3>3
    <2>2. K[k] = H[k]
      BY <1>5, <1>12 DEF NodesOrNull
    <2>3. LevelAt(t, H, q, f, k)
      BY <1>h, <1>12
    <2>4. ASSUME NEW d \in Sides PROVE K[k] = K[u.child[d][k]] + Weight(u, k) + Lack(q, f, k, d)
      <3>1. H[k] = H[t.child[d][k]] + Weight(t, k) + Lack(q, f, k, d)
        BY <2>3 DEF LevelAt
      <3>2. QED
        BY <1>9, <2>1, <2>2, <3>1
    <2>5. QED
      BY <2>4 DEF LevelAt
  <1>13. QED
    BY <1>h, <1>5, <1>6, <1>10, <1>11, <1>12 DEF Level
(* u is t with other colours.                                              *)
Repainted(t, u) ==
  /\ u \in TreeType
  /\ u.root = t.root /\ u.child = t.child /\ u.parent = t.parent

(* The shape does not depend on the colours.                               *)
LEMMA RepaintedShape ==
  ASSUME NEW t, NEW S, Shape(t, S), NEW u, Repainted(t, u)
  PROVE  Shape(u, S)
  <1>1. u.root = t.root /\ u.child = t.child /\ u.parent = t.parent
    BY DEF Repainted
  <1>2. Parts(u, S)
    <2>1. Parts(t, S)
      BY DEF Shape
    <2>2. QED
      BY <1>1, <2>1 DEF Parts
  <1>3. Ordered(u, S)
    <2>1. Ordered(t, S)
      BY DEF Shape
    <2>2. QED
      BY <1>1, <2>1 DEF Ordered
  <1>4. Linked(u)
    <2>1. Linked(t)
      BY DEF Shape
    <2>2. QED
      BY <1>1, <2>1 DEF Linked
  <1>5. Apart(u, S)
    <2>1. Apart(t, S)
      BY DEF Shape
    <2>2. QED
      BY <1>1, <2>1 DEF Apart
  <1>6. QED
    BY <1>2, <1>3, <1>4, <1>5 DEF Shape, Repainted

(* u is t with three nodes painted, one after the other.                   *)
Recoloured(t, u, a, ca, b, cb, c, cc) ==
  /\ Repainted(t, u)
  /\ \A k \in Keys : u.color[k] = IF k = c THEN cc ELSE IF k = b THEN cb
                                  ELSE IF k = a THEN ca ELSE t.color[k]

(* Two nodes painted: the second one twice.                                *)
LEMMA PaintTwo ==
  ASSUME NEW t \in TreeType, NEW a \in NodesOrNull, NEW b \in NodesOrNull,
         NEW ca \in {Red, Black}, NEW cb \in {Red, Black},
         NEW u, u = Paint(Paint(t, a, ca), b, cb)
  PROVE  Recoloured(t, u, a, ca, b, cb, b, cb)
  <1> PICK t1 : t1 = Paint(t, a, ca)
    OBVIOUS
  <1>1. Painted(t, t1, a, ca)
    BY PaintFields
  <1>2. t1 \in TreeType
    BY <1>1 DEF Painted
  <1>3. Painted(t1, u, b, cb)
    <2>1. u = Paint(t1, b, cb)
      OBVIOUS
    <2>2. QED
      BY ONLY <1>2, <2>1, PaintFields, b \in NodesOrNull, cb \in {Red, Black}
  <1>4. QED
    BY <1>1, <1>3 DEF Painted, Repainted, Recoloured

(* Three nodes painted.                                                    *)
LEMMA PaintThree ==
  ASSUME NEW t \in TreeType, NEW a \in NodesOrNull, NEW b \in NodesOrNull, NEW c \in NodesOrNull,
         NEW ca \in {Red, Black}, NEW cb \in {Red, Black}, NEW cc \in {Red, Black},
         NEW u, u = Paint(Paint(Paint(t, a, ca), b, cb), c, cc)
  PROVE  Recoloured(t, u, a, ca, b, cb, c, cc)
  <1> PICK t1 : t1 = Paint(Paint(t, a, ca), b, cb)
    OBVIOUS
  <1>1. Recoloured(t, t1, a, ca, b, cb, b, cb)
    BY PaintTwo
  <1>2. t1 \in TreeType
    BY <1>1 DEF Repainted, Recoloured
  <1>3. Painted(t1, u, c, cc)
    <2>1. u = Paint(t1, c, cc)
      OBVIOUS
    <2>2. QED
      BY ONLY <1>2, <2>1, PaintFields, c \in NodesOrNull, cc \in {Red, Black}
  <1>4. QED
    BY <1>1, <1>3 DEF Painted, Repainted, Recoloured

(* A height over a node, when nothing is missing.                          *)
LEMMA LevelSame ==
  ASSUME NEW t, NEW H, NEW n \in Keys, NEW d \in Sides, LevelAt(t, H, Null, "left", n)
  PROVE  H[n] = H[t.child[d][n]] + Weight(t, n) + 0
  <1>1. n # Null
    BY RbTreeAssumption
  <1>2. Lack(Null, "left", n, d) = 0
    BY <1>1 DEF Lack
  <1>3. QED
    BY <1>2 DEF LevelAt

(* The tree while an insert balances it: x is red, and if its parent is    *)
(* red too then no other red node has a red parent.                        *)
Balancing(t, S, H, x) ==
  /\ Shape(t, S)
  /\ Level(t, H, Null, "left")
  /\ x \in S[t.root]
  /\ IsRed(t, x)
  /\ RedPairs(t, {x})
  /\ IsRed(t, t.root) => t.root = x

(* p, g and uncle are the parent, grandparent and uncle of x.              *)
FamilyOf(t, S, x, p, g, s, uncle) ==
  /\ t \in TreeType /\ x \in Keys /\ x # t.root
  /\ p \in Keys /\ p \in S[t.root] /\ p # x /\ p # t.root
  /\ g \in Keys /\ g \in S[t.root] /\ g # p /\ g # x
  /\ t.color[g] = Black /\ ~IsRed(t, g) /\ t.color[x] = Red /\ t.color[p] = Red
  /\ s \in Sides /\ t.child[s][g] = p /\ t.child[Other(s)][g] = uncle
  /\ t.parent[x] = p /\ t.parent[p] = g
  /\ uncle \in NodesOrNull /\ uncle # p /\ uncle # g /\ uncle # x
  /\ uncle # Null => t.parent[uncle] = g

(* The parent, grandparent and uncle of x when there is work to do.        *)
LEMMA Family ==
  ASSUME NEW t, NEW S, NEW H, NEW x, Balancing(t, S, H, x), x # t.root,
         NEW p, p = t.parent[x], IsRed(t, p), NEW g, g = t.parent[p],
         NEW s, s = SideOf(t, p), NEW uncle, uncle = t.child[Other(s)][g]
  PROVE  FamilyOf(t, S, x, p, g, s, uncle)
  <1>0. Shape(t, S) /\ t \in TreeType /\ Parts(t, S) /\ Ordered(t, S) /\ Linked(t)
    BY DEF Balancing, Shape
  <1>1. t.root \in NodesOrNull /\ S[t.root] \subseteq Keys
    BY <1>0, TreeFields DEF Parts
  <1>2. x \in Keys /\ t.color[x] = Red
    BY <1>1 DEF Balancing, IsRed
  <1>3. p \in Keys /\ t.color[p] = Red
    BY <1>0, <1>2, TreeFields DEF NodesOrNull, IsRed
  <1>4. p # x /\ p # t.root /\ p \in S[t.root]
    <2>1. PICK d \in Sides : t.child[d][p] = x
      BY <1>0, <1>2, <1>3, RbTreeAssumption DEF Linked
    <2>2. p # x
      BY <1>0, <1>3, <2>1, ChildrenDiffer
    <2>3. p # t.root
      BY <2>2 DEF Balancing
    <2>4. p \in S[t.root]
      BY <1>0, <1>2, <1>3, <2>1, InTheTree, RbTreeAssumption
    <2>5. QED
      BY <2>2, <2>3, <2>4
  <1>5. g # Null
    BY <1>0, <1>3, <1>4, InTheTree
  <1>6. g \in Keys /\ s \in Sides /\ t.child[s][g] = p
    BY <1>0, <1>3, <1>5, SideOfIs
  <1>7. g # p
    BY <1>0, <1>6, ChildrenDiffer
  <1>8. g # x
    <2>1. PICK d \in Sides : t.child[d][p] = x
      BY <1>0, <1>2, <1>3, RbTreeAssumption DEF Linked
    <2>2. QED
      BY <1>0, <1>3, <1>6, <2>1, NoCircleOfTwo
  <1>9. ~IsRed(t, g)
    BY <1>3, <1>4 DEF Balancing, RedPairs
  <1>10. t.color[g] = Black
    BY <1>0, <1>5, <1>6, <1>9, TreeFields DEF IsRed
  <1>11. g \in S[t.root]
    BY <1>0, <1>3, <1>6, InTheTree, RbTreeAssumption
  <1>12. /\ uncle \in NodesOrNull /\ uncle # p /\ uncle # g
         /\ uncle # Null => t.parent[uncle] = g
    <2>1. Other(s) \in Sides
      BY <1>6, TwoSides
    <2>2. uncle \in NodesOrNull /\ uncle # g /\ (uncle # Null => t.parent[uncle] = g)
      BY <1>0, <1>6, <2>1, ChildrenDiffer, TreeFields
    <2>3. uncle # p
      BY <1>0, <1>3, <1>6, ChildrenDiffer, RbTreeAssumption
    <2>4. QED
      BY <2>2, <2>3
  <1>13. uncle # x
    BY <1>2, <1>7, <1>12, RbTreeAssumption
  <1>14. QED
    BY <1>0, <1>2, <1>3, <1>4, <1>6, <1>7, <1>8, <1>9, <1>10, <1>11, <1>12, <1>13 DEF FamilyOf

(* The uncle is red: the colours change and the work goes on at g.         *)
LEMMA RecolourUncle ==
  ASSUME NEW t, NEW S, NEW H, NEW x, Balancing(t, S, H, x), NEW p, NEW g, NEW s, NEW uncle,
         FamilyOf(t, S, x, p, g, s, uncle), IsRed(t, uncle),
         NEW u, Recoloured(t, u, p, Black, uncle, Black, g, Red)
  PROVE  \E K : Balancing(u, S, K, g)
  <1>1. /\ t \in TreeType /\ x \in Keys /\ x # t.root
        /\ p \in Keys /\ p \in S[t.root] /\ p # x /\ p # t.root
        /\ g \in Keys /\ g \in S[t.root] /\ g # p /\ g # x
        /\ t.color[g] = Black /\ ~IsRed(t, g) /\ t.color[x] = Red /\ t.color[p] = Red
        /\ s \in Sides /\ t.child[s][g] = p /\ t.child[Other(s)][g] = uncle
        /\ t.parent[x] = p /\ t.parent[p] = g
        /\ uncle \in NodesOrNull /\ uncle # p /\ uncle # g /\ uncle # x
        /\ uncle # Null => t.parent[uncle] = g
    BY DEF FamilyOf
  <1>2. uncle \in Keys /\ t.color[uncle] = Red /\ t.parent[uncle] = g
    BY <1>1 DEF IsRed, NodesOrNull
  <1>3. /\ Repainted(t, u)
        /\ \A k \in Keys : u.color[k] = IF k = g THEN Red ELSE IF k = uncle THEN Black
                                        ELSE IF k = p THEN Black ELSE t.color[k]
    BY DEF Recoloured
  <1>4. u.root = t.root /\ u.child = t.child /\ u.parent = t.parent
    BY <1>3 DEF Repainted
  <1>s. Shape(t, S) /\ Linked(t)
    BY DEF Balancing, Shape
  <1>5. Shape(u, S)
    BY <1>3, <1>s, RepaintedShape
  <1>6. Red # Black
    BY DEF Red, Black
  <1> DEFINE K == [H EXCEPT ![p] = H[p] + 1, ![uncle] = H[uncle] + 1]
  <1>7. H \in [NodesOrNull -> Nat \ {0}] /\ H[Null] = 1
    BY DEF Balancing, Level
  <1>8. /\ K \in [NodesOrNull -> Nat \ {0}] /\ K[p] = H[p] + 1 /\ K[uncle] = H[uncle] + 1
        /\ \A k \in NodesOrNull : k # p /\ k # uncle => K[k] = H[k]
    <2>1. p \in NodesOrNull /\ uncle \in NodesOrNull
      BY <1>1 DEF NodesOrNull
    <2>2. QED
      BY <1>1, <1>7, <2>1
  <1> HIDE DEF K
  <1>9. Level(u, K, Null, "left")
    <2>1. K[Null] = 1
      BY <1>1, <1>2, <1>7, <1>8, RbTreeAssumption DEF NodesOrNull
    <2>2. ASSUME NEW k \in Keys PROVE LevelAt(u, K, Null, "left", k)
      <3>1. ASSUME NEW d \in Sides
            PROVE  K[k] = K[t.child[d][k]] + Weight(u, k) + Lack(Null, "left", k, d)
        <4>1. H[k] = H[t.child[d][k]] + Weight(t, k) + 0
          BY LevelSame DEF Balancing, Level
        <4>2. Lack(Null, "left", k, d) = 0
          BY RbTreeAssumption DEF Lack
        <4>3. t.child[d][k] \in NodesOrNull /\ H[t.child[d][k]] \in Nat /\ H[k] \in Nat
          <5>1. t.child[d][k] \in NodesOrNull /\ k \in NodesOrNull
            BY <1>1, TreeFields DEF NodesOrNull
          <5>2. QED
            BY <1>7, <5>1
        <4>4. CASE k = g
          <5>1. t.child[d][g] = p \/ t.child[d][g] = uncle
            <6>1. d = s \/ d = Other(s)
              BY <1>1, TwoSides
            <6>2. QED
              BY <1>1, <6>1
          <5>2. K[t.child[d][g]] = H[t.child[d][g]] + 1
            BY <1>8, <5>1
          <5>3. K[g] = H[g] /\ Weight(u, g) = 0 /\ Weight(t, g) = 1
            BY <1>1, <1>3, <1>6, <1>8 DEF Weight, NodesOrNull
          <5>4. QED
            BY <4>1, <4>2, <4>3, <4>4, <5>2, <5>3
        <4>5. CASE k # g
          <5>1. t.child[d][k] # p /\ t.child[d][k] # uncle
            <6>1. t.child[d][k] # Null => t.parent[t.child[d][k]] = k
              BY <1>s, ChildrenDiffer
            <6>2. p # Null /\ uncle # Null
              BY <1>1, <1>2, RbTreeAssumption
            <6>3. QED
              BY <1>1, <1>2, <4>5, <6>1, <6>2
          <5>2. K[t.child[d][k]] = H[t.child[d][k]]
            BY <1>8, <4>3, <5>1
          <5>3. CASE k = p \/ k = uncle
            <6>1. K[k] = H[k] + 1 /\ Weight(u, k) = 1 /\ Weight(t, k) = 0
              BY <1>1, <1>2, <1>3, <1>6, <1>8, <5>3 DEF Weight
            <6>2. QED
              BY <4>1, <4>2, <4>3, <5>2, <6>1
          <5>4. CASE k # p /\ k # uncle
            <6>1. K[k] = H[k] /\ Weight(u, k) = Weight(t, k)
              BY <1>3, <1>8, <4>5, <5>4 DEF Weight, NodesOrNull
            <6>2. QED
              BY <4>1, <4>2, <4>3, <5>2, <6>1
          <5>5. QED
            BY <5>3, <5>4
        <4>6. QED
          BY <4>4, <4>5
      <3>2. QED
        BY <1>4, <3>1 DEF LevelAt
    <2>3. QED
      BY <1>8, <2>1, <2>2 DEF Level
  <1>10. IsRed(u, g) /\ g \in S[u.root]
    BY <1>1, <1>3, <1>4, RbTreeAssumption DEF IsRed
  <1>11. RedPairs(u, {g})
    <2>1. SUFFICES ASSUME NEW k \in Keys, IsRed(u, k), IsRed(u, t.parent[k]), k # g PROVE FALSE
      BY <1>4 DEF RedPairs
    <2>2. k # p /\ k # uncle /\ t.color[k] = Red
      BY <1>2, <1>3, <1>6, <2>1 DEF IsRed
    <2>3. t.parent[k] \in Keys
      BY <1>1, <2>1, TreeFields DEF IsRed, NodesOrNull
    <2>4. t.parent[k] # g
      <3>1. SUFFICES ASSUME t.parent[k] = g PROVE FALSE
        OBVIOUS
      <3>2. PICK d \in Sides : t.child[d][g] = k
        BY <1>1, <1>s, <2>3, <3>1, RbTreeAssumption DEF Linked
      <3>3. d = s \/ d = Other(s)
        BY <1>1, TwoSides
      <3>4. QED
        BY <1>1, <2>2, <3>2, <3>3
    <2>5. t.color[t.parent[k]] = Red /\ t.parent[k] # p /\ t.parent[k] # uncle
      BY <1>2, <1>3, <1>6, <2>1, <2>3, <2>4 DEF IsRed
    <2>6. IsRed(t, k) /\ IsRed(t, t.parent[k])
      BY <2>2, <2>3, <2>5, RbTreeAssumption DEF IsRed
    <2>7. k = x
      BY <2>6 DEF Balancing, RedPairs
    <2>8. QED
      BY <1>1, <2>5, <2>7
  <1>12. IsRed(u, u.root) => u.root = g
    <2>1. SUFFICES ASSUME IsRed(u, t.root), t.root # g PROVE FALSE
      BY <1>4
    <2>2. t.root \in Keys
      BY <1>1, <2>1, TreeFields DEF IsRed, NodesOrNull
    <2>3. t.color[t.root] = Red
      BY <1>3, <1>6, <2>1, <2>2 DEF IsRed
    <2>4. IsRed(t, t.root)
      BY <2>2, <2>3, RbTreeAssumption DEF IsRed
    <2>5. QED
      BY <1>1, <2>4 DEF Balancing
  <1>13. QED
    BY <1>5, <1>9, <1>10, <1>11, <1>12 DEF Balancing
(* A red node low below a red node mid below a black node top, all on the  *)
(* same side, and no red node on the other side of top.                    *)
Line(t, S, H, low, mid, top, s) ==
  /\ Shape(t, S)
  /\ Level(t, H, Null, "left")
  /\ low \in Keys /\ mid \in Keys /\ top \in Keys /\ s \in Sides
  /\ low \in S[t.root] /\ top \in S[t.root]
  /\ t.child[s][top] = mid /\ t.child[s][mid] = low
  /\ t.parent[mid] = top /\ t.parent[low] = mid
  /\ t.color[low] = Red /\ t.color[mid] = Red /\ t.color[top] = Black
  /\ ~IsRed(t, t.child[Other(s)][top])
  /\ RedPairs(t, {low})
  /\ ~IsRed(t, t.root)

(* While x has a red parent the root is black.                             *)
LEMMA BlackRoot ==
  ASSUME NEW t, NEW S, NEW H, NEW x, Balancing(t, S, H, x), NEW p, NEW g, NEW s, NEW uncle,
         FamilyOf(t, S, x, p, g, s, uncle)
  PROVE  ~IsRed(t, t.root)
  BY DEF Balancing, FamilyOf

(* x lies on the same side of its parent as the parent of the grandparent. *)
LEMMA Straight ==
  ASSUME NEW t, NEW S, NEW H, NEW x, Balancing(t, S, H, x), NEW p, NEW g, NEW s, NEW uncle,
         FamilyOf(t, S, x, p, g, s, uncle), ~IsRed(t, uncle), x # t.child[Other(s)][p]
  PROVE  Line(t, S, H, x, p, g, s)
  <1>1. /\ t \in TreeType /\ x \in Keys /\ p \in Keys /\ g \in Keys /\ s \in Sides
        /\ t.parent[x] = p
    BY DEF FamilyOf
  <1>2. Linked(t)
    BY DEF Balancing, Shape
  <1>3. PICK d \in Sides : t.child[d][p] = x
    BY <1>1, <1>2, RbTreeAssumption DEF Linked
  <1>4. t.child[s][p] = x
    <2>1. d = s \/ d = Other(s)
      BY <1>1, TwoSides
    <2>2. QED
      BY <1>3, <2>1
  <1>5. ~IsRed(t, t.root)
    BY BlackRoot
  <1>6. QED
    BY <1>4, <1>5 DEF Line, FamilyOf, Balancing

(* x lies on the other side: a rotation of its parent makes the line.      *)
LEMMA Bent ==
  ASSUME NEW t, NEW S, NEW H, NEW x, Balancing(t, S, H, x), NEW p, NEW g, NEW s, NEW uncle,
         FamilyOf(t, S, x, p, g, s, uncle), ~IsRed(t, uncle), t.child[Other(s)][p] = x,
         NEW u, NEW inner, inner = t.child[s][x], Rotated(t, u, p, s, x, inner, g, s)
  PROVE  \E R, K : Line(u, R, K, p, x, g, s) /\ R[u.root] = S[t.root]
  <1>1. /\ t \in TreeType /\ x \in Keys /\ x # t.root
        /\ p \in Keys /\ p \in S[t.root] /\ p # x /\ p # t.root
        /\ g \in Keys /\ g \in S[t.root] /\ g # p /\ g # x
        /\ t.color[g] = Black /\ t.color[x] = Red /\ t.color[p] = Red
        /\ s \in Sides /\ t.child[s][g] = p /\ t.child[Other(s)][g] = uncle
        /\ t.parent[x] = p /\ t.parent[p] = g
        /\ uncle \in NodesOrNull /\ uncle # p
    BY DEF FamilyOf
  <1>s. /\ Shape(t, S) /\ Level(t, H, Null, "left") /\ RedPairs(t, {x})
        /\ Parts(t, S) /\ Ordered(t, S) /\ x \in S[t.root]
    BY DEF Balancing, Shape
  <1>2. x # Null /\ g # Null /\ p # Null
    BY <1>1, RbTreeAssumption
  <1>3. s = SideOf(t, p)
    BY <1>1, <1>2, <1>s, SideOfIs
  <1> PICK R : R = Turned(t, S, p, s)
    OBVIOUS
  <1>4. Shape(u, R) /\ R[u.root] = S[t.root]
    BY <1>1, <1>2, <1>3, <1>s, RotateShape
  <1>5. Red # Black
    BY DEF Red, Black
  <1>h. H \in [NodesOrNull -> Nat \ {0}] /\ H[Null] = 1 /\ \A k \in Keys : LevelAt(t, H, Null, "left", k)
    BY <1>s DEF Level
  <1>6. /\ H[p] = H[t.child[s][p]] + Weight(t, p) + 0
        /\ H[p] = H[x] + Weight(t, p) + 0
        /\ H[x] = H[inner] + Weight(t, x) + 0
        /\ H[x] = H[t.child[Other(s)][x]] + Weight(t, x) + 0
    BY <1>1, <1>h, LevelSame, TwoSides
  <1>7. Weight(t, p) = 0 /\ Weight(t, x) = 0
    BY <1>1, <1>5 DEF Weight
  <1>8. \A d : Lack(Null, "left", p, d) = 0 /\ Lack(Null, "left", x, d) = 0
    BY <1>2 DEF Lack
  <1>9. H[p] \in Nat \ {0} /\ H[x] \in Nat \ {0} /\ H[x] = H[p]
    <2>1. H[p] \in Nat \ {0} /\ H[x] \in Nat \ {0}
      BY <1>1, <1>h DEF NodesOrNull
    <2>2. QED
      BY <1>6, <1>7, <2>1
  <1> PICK K : K = [H EXCEPT ![x] = H[p], ![p] = H[p]]
    OBVIOUS
  <1>10. Level(u, K, Null, "left")
    <2>1. inner \in NodesOrNull /\ t.child[Other(s)][x] \in NodesOrNull /\ t.child[s][p] \in NodesOrNull
      BY <1>1, TreeFields, TwoSides
    <2>2. H[inner] \in Nat /\ H[t.child[Other(s)][x]] \in Nat /\ H[t.child[s][p]] \in Nat
      BY <1>h, <2>1
    <2>3. /\ H[p] = H[t.child[s][p]] + Weight(t, p) + Lack(Null, "left", p, s)
          /\ H[p] = H[inner] + Weight(t, p) + Lack(Null, "left", p, Other(s))
          /\ H[p] = H[p] + Weight(t, x) + Lack(Null, "left", x, s)
          /\ H[p] = H[t.child[Other(s)][x]] + Weight(t, x) + Lack(Null, "left", x, Other(s))
      BY <1>6, <1>7, <1>8, <1>9, <2>2
    <2>4. \A k \in Keys \ {p, x} : LevelAt(t, H, Null, "left", k)
      BY <1>h
    <2>5. x = t.child[Other(s)][p] /\ g = t.parent[p]
      BY <1>1
    <2>6. HeightsFit(t, H, p, s, x, inner, Null, "left", H[p])
      BY <1>h, <1>9, <2>3, <2>4 DEF HeightsFit
    <2>7. QED
      BY <1>1, <1>2, <1>3, <1>s, <2>5, <2>6, RotateHeights
  <1>11. /\ u.color = t.color /\ u.parent[p] = x /\ u.parent[x] = g
         /\ inner # Null => u.parent[inner] = p
         /\ \A k \in Keys \ {p, x, inner} : u.parent[k] = t.parent[k]
         /\ u.child[s][x] = p /\ u.child[s][g] = x
         /\ u.child[Other(s)][g] = uncle
         /\ u.root = t.root
    BY <1>1, <1>2 DEF Rotated
  <1>12. \A k : IsRed(u, k) <=> IsRed(t, k)
    BY <1>11 DEF IsRed
  <1>13. ~IsRed(t, inner)
    <2>1. SUFFICES ASSUME IsRed(t, inner) PROVE FALSE
      OBVIOUS
    <2>2. inner \in Keys /\ t.parent[inner] = x /\ inner # x
      BY <1>1, <1>s, <2>1, ChildrenDiffer DEF IsRed
    <2>3. IsRed(t, x)
      BY <1>1, <1>2 DEF IsRed
    <2>4. QED
      BY <1>s, <2>1, <2>2, <2>3 DEF RedPairs
  <1>14. RedPairs(u, {p})
    <2>1. SUFFICES ASSUME NEW k \in Keys, IsRed(u, k), IsRed(u, u.parent[k]), k # p PROVE FALSE
      BY DEF RedPairs
    <2>2. k # inner
      BY <1>12, <1>13, <2>1
    <2>3. k # x
      BY <1>1, <1>5, <1>11, <1>12, <2>1 DEF IsRed
    <2>4. u.parent[k] = t.parent[k]
      BY <1>11, <2>1, <2>2, <2>3
    <2>5. QED
      BY <1>12, <1>s, <2>1, <2>3, <2>4 DEF RedPairs
  <1>15. ~IsRed(u, u.root)
    BY <1>11, <1>12, BlackRoot
  <1>16. Line(u, R, K, p, x, g, s)
    BY <1>1, <1>4, <1>10, <1>11, <1>12, <1>14, <1>15 DEF Line
  <1>17. QED
    BY <1>4, <1>16

(* The last rotation: mid takes the place and the colour of top.           *)
LEMMA LineTurn ==
  ASSUME NEW t, NEW S, NEW H, NEW low, NEW mid, NEW top, NEW s, Line(t, S, H, low, mid, top, s),
         NEW v, Recoloured(t, v, mid, Black, top, Red, top, Red),
         NEW u, NEW inner, inner = t.child[Other(s)][mid], NEW p, p = t.parent[top],
         NEW e, e = SideOf(t, top), Rotated(v, u, top, Other(s), mid, inner, p, e)
  PROVE  \E R, K : Balancing(u, R, K, low) /\ R[u.root] = S[t.root]
  <1> PICK o : o = Other(s)
    OBVIOUS
  <1> PICK uncle : uncle = t.child[o][top]
    OBVIOUS
  <1>1. /\ Shape(t, S) /\ Level(t, H, Null, "left") /\ RedPairs(t, {low})
        /\ low \in Keys /\ mid \in Keys /\ top \in Keys /\ s \in Sides
        /\ low \in S[t.root] /\ top \in S[t.root]
        /\ t.child[s][top] = mid /\ t.child[s][mid] = low
        /\ t.parent[mid] = top /\ t.parent[low] = mid
        /\ t.color[low] = Red /\ t.color[mid] = Red /\ t.color[top] = Black
        /\ ~IsRed(t, uncle) /\ ~IsRed(t, t.root)
    BY DEF Line
  <1>0. t \in TreeType /\ Parts(t, S) /\ Ordered(t, S) /\ Linked(t)
    BY <1>1 DEF Shape
  <1>s. o \in Sides /\ o # s /\ Other(o) = s /\ \A d \in Sides : d = s \/ d = o
    BY <1>1, TwoSides
  <1>2. Red # Black /\ low # Null /\ mid # Null /\ top # Null
    BY <1>1, RbTreeAssumption DEF Red, Black
  <1>3. mid # top /\ low # mid /\ low # top
    <2>1. mid # top /\ low # mid
      BY <1>1, ChildrenDiffer
    <2>2. low # top
      BY <1>1, <1>2
    <2>3. QED
      BY <2>1, <2>2
  <1>4. /\ inner \in NodesOrNull /\ inner # mid /\ inner # top /\ inner # low
        /\ inner # Null => inner \in Keys /\ t.parent[inner] = mid
    <2>1. inner = t.child[o][mid]
      OBVIOUS
    <2>2. inner \in NodesOrNull /\ inner # mid /\ (inner # Null => inner \in Keys /\ t.parent[inner] = mid)
      BY <1>0, <1>1, <1>s, <2>1, ChildrenDiffer, TreeFields
    <2>3. inner # low
      BY <1>1, <1>2, <2>1, ChildrenDiffer
    <2>4. inner # top
      BY <1>0, <1>1, <1>s, <2>1, NoCircleOfTwo
    <2>5. QED
      BY <2>2, <2>3, <2>4
  <1>5. Repainted(t, v) /\ \A k \in Keys : v.color[k] = IF k = top THEN Red ELSE IF k = mid THEN Black
                                                        ELSE t.color[k]
    BY DEF Recoloured
  <1>6. v.root = t.root /\ v.child = t.child /\ v.parent = t.parent /\ v \in TreeType
    BY <1>5 DEF Repainted
  <1>7. Shape(v, S)
    BY <1>1, <1>5, RepaintedShape
  <1>8. e = SideOf(v, top) /\ p = v.parent[top] /\ inner = v.child[o][mid] /\ mid = v.child[s][top]
        /\ mid = v.child[Other(o)][top]
    BY <1>1, <1>6, <1>s DEF SideOf
  <1>t. Rotated(v, u, top, o, mid, inner, p, e)
    OBVIOUS
  <1> PICK R : R = Turned(v, S, top, o)
    OBVIOUS
  <1>9. Shape(u, R) /\ R[u.root] = S[t.root]
    <2>1. Shape(u, R) /\ R[u.root] = S[v.root]
      BY <1>1, <1>2, <1>7, <1>8, <1>s, <1>t, RotateShape
    <2>2. QED
      BY <1>6, <2>1
  <1>h. H \in [NodesOrNull -> Nat \ {0}] /\ H[Null] = 1 /\ \A k \in Keys : LevelAt(t, H, Null, "left", k)
    BY <1>1 DEF Level
  <1> PICK h : h = H[mid]
    OBVIOUS
  <1>10. /\ h \in Nat \ {0} /\ H[top] = h + 1 /\ H[uncle] = h /\ H[inner] = h /\ H[low] = h
    <2>1. /\ H[top] = H[mid] + Weight(t, top) + 0
          /\ H[top] = H[uncle] + Weight(t, top) + 0
          /\ H[mid] = H[inner] + Weight(t, mid) + 0
          /\ H[mid] = H[low] + Weight(t, mid) + 0
      BY <1>1, <1>h, <1>s, LevelSame
    <2>2. Weight(t, top) = 1 /\ Weight(t, mid) = 0
      BY <1>1, <1>2 DEF Weight
    <2>3. uncle \in NodesOrNull
      BY <1>0, <1>1, <1>s, TreeFields
    <2>4. H[mid] \in Nat \ {0} /\ H[uncle] \in Nat /\ H[inner] \in Nat /\ H[low] \in Nat /\ H[top] \in Nat
      BY <1>1, <1>4, <1>h, <2>3 DEF NodesOrNull
    <2>5. QED
      BY <2>1, <2>2, <2>4
  <1> PICK K : K = [H EXCEPT ![mid] = H[top], ![top] = h]
    OBVIOUS
  <1>11. Level(u, K, Null, "left")
    <2>1. Weight(v, top) = 0 /\ Weight(v, mid) = 1
      BY <1>1, <1>2, <1>3, <1>5 DEF Weight
    <2>2. \A d : Lack(Null, "left", top, d) = 0 /\ Lack(Null, "left", mid, d) = 0
      BY <1>2 DEF Lack
    <2>3. /\ h = H[v.child[o][top]] + Weight(v, top) + Lack(Null, "left", top, o)
          /\ h = H[inner] + Weight(v, top) + Lack(Null, "left", top, Other(o))
          /\ H[top] = h + Weight(v, mid) + Lack(Null, "left", mid, o)
          /\ H[top] = H[v.child[Other(o)][mid]] + Weight(v, mid) + Lack(Null, "left", mid, Other(o))
      BY <1>1, <1>6, <1>10, <1>s, <2>1, <2>2
    <2>4. ASSUME NEW k \in Keys \ {top, mid} PROVE LevelAt(v, H, Null, "left", k)
      <3>1. LevelAt(t, H, Null, "left", k) /\ Weight(v, k) = Weight(t, k) /\ v.child = t.child
        BY <1>5, <1>6, <1>h DEF Weight
      <3>2. QED
        BY <3>1 DEF LevelAt
    <2>5. \A k \in Keys \ {top, mid} : LevelAt(v, H, Null, "left", k)
      BY <2>4
    <2>6. HeightsFit(v, H, top, o, mid, inner, Null, "left", h)
      BY <1>h, <1>10, <2>3, <2>5 DEF HeightsFit
    <2>7. QED
      BY <1>1, <1>2, <1>7, <1>8, <1>s, <1>t, <2>6, RotateHeights
  <1>12. /\ u.color = v.color /\ u.parent[top] = mid /\ u.parent[mid] = p
         /\ inner # Null => u.parent[inner] = top
         /\ \A k \in Keys \ {top, mid, inner} : u.parent[k] = t.parent[k]
         /\ u.root = IF p = Null THEN mid ELSE t.root
    BY <1>6 DEF Rotated
  <1>13. \A k \in Keys : u.color[k] = IF k = top THEN Red ELSE IF k = mid THEN Black ELSE t.color[k]
    BY <1>5, <1>12
  <1>14. ~IsRed(t, inner)
    <2>1. SUFFICES ASSUME IsRed(t, inner) PROVE FALSE
      OBVIOUS
    <2>2. inner \in Keys /\ t.parent[inner] = mid
      BY <1>4, <2>1 DEF IsRed
    <2>3. IsRed(t, mid)
      BY <1>1, <1>2 DEF IsRed
    <2>4. QED
      BY <1>1, <1>4, <2>1, <2>2, <2>3 DEF RedPairs
  <1>15. ASSUME NEW k \in Keys, IsRed(u, k), IsRed(u, u.parent[k]) PROVE FALSE
    <2>1. IsRed(u, k) /\ IsRed(u, u.parent[k]) /\ k \in Keys
      BY <1>15
    <2>2. k # mid /\ u.color[k] = Red
      BY ONLY <1>2, <1>3, <1>13, <2>1 DEF IsRed
    <2>3. k # top
      BY <1>1, <1>2, <1>3, <1>12, <1>13, <2>1 DEF IsRed
    <2>4. IsRed(t, k)
      BY <1>13, <2>2, <2>3, RbTreeAssumption DEF IsRed
    <2>5. k # inner
      BY <1>14, <2>4
    <2>6. u.parent[k] = t.parent[k]
      BY ONLY <1>12, <2>1, <2>2, <2>3, <2>5
    <2>13. IsRed(u, t.parent[k])
      BY ONLY <2>1, <2>6
    <2>14. t.parent[k] \in NodesOrNull
      BY ONLY <1>0, <2>1, TreeFields
    <2>7. t.parent[k] \in Keys /\ u.color[t.parent[k]] = Red
      BY ONLY <2>13, <2>14 DEF IsRed, NodesOrNull
    <2>8. t.parent[k] # mid
      BY ONLY <1>2, <1>3, <1>13, <2>7
    <2>9. t.parent[k] # top
      <3>1. SUFFICES ASSUME t.parent[k] = top PROVE FALSE
        OBVIOUS
      <3>2. PICK d \in Sides : t.child[d][top] = k
        BY <1>0, <1>2, <3>1 DEF Linked
      <3>3. k = mid \/ k = uncle
        BY <1>1, <1>s, <3>2
      <3>4. QED
        BY <1>1, <2>2, <2>4, <3>3
    <2>10. IsRed(t, t.parent[k])
      BY ONLY <1>13, <2>7, <2>8, <2>9, RbTreeAssumption DEF IsRed
    <2>11. k = low
      BY <1>1, <2>4, <2>10 DEF RedPairs
    <2>12. QED
      BY <1>1, <2>8, <2>11
  <1>16. ~IsRed(u, u.root)
    <2>1. CASE p = Null
      BY <1>1, <1>2, <1>12, <1>13, <2>1 DEF IsRed
    <2>2. CASE p # Null
      <3>1. u.root = t.root /\ t.root # top
        <4>1. t.root = top => t.parent[top] = Null
          BY <1>0, <1>2 DEF Linked
        <4>2. QED
          BY <1>12, <2>2, <4>1
      <3>2. SUFFICES ASSUME IsRed(u, t.root) PROVE FALSE
        BY <3>1
      <3>3. t.root \in Keys
        BY <1>0, <3>2, TreeFields DEF IsRed, NodesOrNull
      <3>4. t.color[t.root] = Red
        BY <1>2, <1>13, <3>1, <3>2, <3>3 DEF IsRed
      <3>5. QED
        BY <1>1, <3>2, <3>4 DEF IsRed
    <2>3. QED
      BY <2>1, <2>2
  <1>17. IsRed(u, low)
    BY <1>1, <1>2, <1>3, <1>13 DEF IsRed
  <1>18. RedPairs(u, {low})
    BY ONLY <1>15, Zenon DEF RedPairs
  <1>19. Balancing(u, R, K, low)
    BY <1>1, <1>9, <1>11, <1>16, <1>17, <1>18 DEF Balancing
  <1>20. QED
    BY <1>9, <1>19
(* The two colours and the rotation at the end of an iteration.            *)
LEMMA TurnTheLine ==
  ASSUME NEW t, NEW S, NEW H, NEW low, NEW mid, NEW top, NEW s, Line(t, S, H, low, mid, top, s),
         NEW u, u = Rotate(Paint(Paint(t, mid, Black), top, Red), top, Other(s))
  PROVE  \E R, K : Balancing(u, R, K, low) /\ R[u.root] = S[t.root]
  <1> PICK v : v = Paint(Paint(t, mid, Black), top, Red)
    OBVIOUS
  <1> PICK inner : inner = t.child[Other(s)][mid]
    OBVIOUS
  <1> PICK p : p = t.parent[top]
    OBVIOUS
  <1> PICK e : e = SideOf(t, top)
    OBVIOUS
  <1>1. /\ Shape(t, S) /\ t \in TreeType /\ mid \in Keys /\ top \in Keys /\ s \in Sides
        /\ t.child[s][top] = mid
    BY ONLY Line(t, S, H, low, mid, top, s) DEF Line, Shape
  <1>2. Recoloured(t, v, mid, Black, top, Red, top, Red)
    BY ONLY <1>1, PaintTwo, v = Paint(Paint(t, mid, Black), top, Red) DEF NodesOrNull
  <1>3. Repainted(t, v) /\ v.child = t.child /\ v.parent = t.parent
    BY ONLY <1>2 DEF Recoloured, Repainted
  <1>4. Shape(v, S)
    BY ONLY <1>1, <1>3, RepaintedShape
  <1>5. Other(s) \in Sides /\ Other(Other(s)) = s
    BY ONLY <1>1, TwoSides
  <1>6. v.child[Other(Other(s))][top] = mid /\ mid # Null
    BY ONLY <1>1, <1>3, <1>5, RbTreeAssumption
  <1>7. Rotated(v, Rotate(v, top, Other(s)), top, Other(s), v.child[Other(Other(s))][top],
                v.child[Other(s)][v.child[Other(Other(s))][top]], v.parent[top], SideOf(v, top))
    BY ONLY <1>1, <1>4, <1>5, <1>6, RotateFields
  <1>8. u = Rotate(v, top, Other(s)) /\ inner = v.child[Other(s)][mid] /\ p = v.parent[top]
        /\ e = SideOf(v, top)
    BY ONLY <1>3, v = Paint(Paint(t, mid, Black), top, Red), inner = t.child[Other(s)][mid],
            p = t.parent[top], e = SideOf(t, top),
            u = Rotate(Paint(Paint(t, mid, Black), top, Red), top, Other(s)) DEF SideOf
  <1>9. Rotated(v, u, top, Other(s), mid, inner, p, e)
    BY ONLY <1>6, <1>7, <1>8
  <1>10. QED
    BY ONLY <1>2, <1>9, LineTurn, Line(t, S, H, low, mid, top, s), inner = t.child[Other(s)][mid],
            p = t.parent[top], e = SideOf(t, top)

(* The rotation of the parent when x lies on the other side.               *)
LEMMA BendToLine ==
  ASSUME NEW t, NEW S, NEW H, NEW x, Balancing(t, S, H, x), NEW p, NEW g, NEW s, NEW uncle,
         FamilyOf(t, S, x, p, g, s, uncle), ~IsRed(t, uncle), t.child[Other(s)][p] = x,
         NEW u, u = Rotate(t, p, s)
  PROVE  \E R, K : Line(u, R, K, p, x, g, s) /\ R[u.root] = S[t.root]
  <1>1. /\ x \in Keys /\ p \in Keys /\ g \in Keys /\ s \in Sides
        /\ t.child[s][g] = p /\ t.parent[p] = g
    BY DEF FamilyOf
  <1>2. x # Null /\ g # Null
    BY <1>1, RbTreeAssumption
  <1>3. Shape(t, S)
    BY DEF Balancing
  <1>4. SideOf(t, p) = s
    BY ONLY <1>1, <1>2, <1>3, SideOfIs
  <1>5. Rotated(t, Rotate(t, p, s), p, s, t.child[Other(s)][p],
                t.child[s][t.child[Other(s)][p]], t.parent[p], SideOf(t, p))
    BY ONLY <1>1, <1>2, <1>3, RotateFields, t.child[Other(s)][p] = x
  <1>6. Rotated(t, u, p, s, x, t.child[s][x], g, s)
    BY ONLY <1>1, <1>4, <1>5, u = Rotate(t, p, s), t.child[Other(s)][p] = x
  <1>7. QED
    BY <1>6, Bent

(* An iteration of the loop of BalanceTree keeps the keys of the tree and  *)
(* moves the red pair, if one is left, to the new x.                       *)
LEMMA BalanceStepKeeps ==
  ASSUME BalanceStep, NEW S, NEW H, Balancing(tree, S, H, call.x)
  PROVE  \E R, K, y : Balancing(tree', R, K, y) /\ R[tree'.root] = S[tree.root]
                      /\ call' = [call EXCEPT !.x = y]
  <1> PICK x : x = call.x
    OBVIOUS
  <1> PICK p : p = tree.parent[x]
    OBVIOUS
  <1> PICK g : g = tree.parent[p]
    OBVIOUS
  <1> PICK s : s = SideOf(tree, p)
    OBVIOUS
  <1> PICK uncle : uncle = tree.child[Other(s)][g]
    OBVIOUS
  <1>1. /\ x # tree.root /\ IsRed(tree, p)
        /\ IF IsRed(tree, uncle)
           THEN /\ tree' = Paint(Paint(Paint(tree, p, Black), uncle, Black), g, Red)
                /\ call' = [call EXCEPT !.x = g]
           ELSE LET bent  == x = tree.child[Other(s)][p]
                    low   == IF bent THEN p ELSE x
                    t1    == IF bent THEN Rotate(tree, p, s) ELSE tree
                    mid   == t1.parent[low]
                    top   == t1.parent[mid]
                IN /\ tree' = Rotate(Paint(Paint(t1, mid, Black), top, Red),
                                     top, Other(s))
                   /\ call' = [call EXCEPT !.x = low]
    BY DEF BalanceStep
  <1>2. FamilyOf(tree, S, x, p, g, s, uncle) /\ Balancing(tree, S, H, x)
    BY <1>1, Family
  <1>3. CASE IsRed(tree, uncle)
    <2>1. /\ tree' = Paint(Paint(Paint(tree, p, Black), uncle, Black), g, Red)
          /\ call' = [call EXCEPT !.x = g]
      BY ONLY <1>1, <1>3
    <2>2. tree \in TreeType /\ p \in NodesOrNull /\ g \in NodesOrNull /\ uncle \in NodesOrNull
      BY ONLY <1>2 DEF FamilyOf, NodesOrNull
    <2>3. Recoloured(tree, tree', p, Black, uncle, Black, g, Red)
      BY ONLY <2>1, <2>2, PaintThree
    <2>4. PICK K : Balancing(tree', S, K, g)
      BY ONLY <1>2, <1>3, <2>3, RecolourUncle
    <2>5. tree'.root = tree.root
      BY ONLY <2>3 DEF Recoloured, Repainted
    <2>6. S[tree'.root] = S[tree.root]
      BY ONLY <2>5
    <2>7. QED
      BY ONLY <2>1, <2>4, <2>6
  <1>4. CASE ~IsRed(tree, uncle) /\ x # tree.child[Other(s)][p]
    <2>1. Line(tree, S, H, x, p, g, s)
      BY ONLY <1>2, <1>4, Straight
    <2>2. tree.parent[x] = p /\ tree.parent[p] = g
      BY ONLY <2>1 DEF Line
    <2>3. /\ tree' = Rotate(Paint(Paint(tree, p, Black), g, Red), g, Other(s))
          /\ call' = [call EXCEPT !.x = x]
      BY ONLY <1>1, <1>4, <2>2
    <2>4. \E R, K : Balancing(tree', R, K, x) /\ R[tree'.root] = S[tree.root]
      BY ONLY <2>1, <2>3, TurnTheLine
    <2>5. QED
      BY ONLY <2>3, <2>4
  <1>5. CASE ~IsRed(tree, uncle) /\ x = tree.child[Other(s)][p]
    <2> PICK t1 : t1 = Rotate(tree, p, s)
      OBVIOUS
    <2>0. t1 = Rotate(tree, p, s)
      OBVIOUS
    <2>1. PICK R1, K1 : Line(t1, R1, K1, p, x, g, s) /\ R1[t1.root] = S[tree.root]
      BY ONLY <1>2, <1>5, <2>0, BendToLine
    <2>2. t1.parent[p] = x /\ t1.parent[x] = g
      BY ONLY <2>1 DEF Line
    <2>3. /\ tree' = Rotate(Paint(Paint(t1, x, Black), g, Red), g, Other(s))
          /\ call' = [call EXCEPT !.x = p]
      BY ONLY <1>1, <1>5, <2>0, <2>2
    <2>4. \E R, K : Balancing(tree', R, K, p) /\ R[tree'.root] = R1[t1.root]
      BY ONLY <2>1, <2>3, TurnTheLine
    <2>5. QED
      BY ONLY <2>1, <2>3, <2>4
  <1>6. QED
    BY ONLY <1>3, <1>4, <1>5-----------------------------------------------------------------------------
(* The end of both loops: one node is painted black.                       *)

(* A red-black tree.                                                       *)
Settled(t, S, H) ==
  /\ Shape(t, S)
  /\ Level(t, H, Null, "left")
  /\ RedPairs(t, {})
  /\ ~IsRed(t, t.root)

(* Each red node with a red parent is x or a child of x.                   *)
RedNear(t, x) ==
  \A k \in Keys : IsRed(t, k) /\ IsRed(t, t.parent[k]) => k = x \/ t.parent[k] = x

(* All that is wrong with the tree is mended when n turns black.           *)
OneBlackAway(t, S, H, n, q, f) ==
  /\ Shape(t, S) /\ Level(t, H, q, f) /\ f \in Sides
  /\ RedNear(t, n)
  /\ IsRed(t, t.root) => t.root = n
  /\ n \in NodesOrNull
  /\ \/ IsRed(t, n) /\ q = t.parent[n] /\ (q # Null => t.child[f][q] = n)
     \/ ~IsRed(t, n) /\ q = Null

(* Nothing is missing below no node.                                       *)
LEMMA LevelNull ==
  ASSUME NEW t, NEW H, NEW f, NEW f1, Level(t, H, Null, f)
  PROVE  Level(t, H, Null, f1)
  <1>1. \A n \in Keys : n # Null
    BY RbTreeAssumption
  <1>2. \A n \in Keys, d \in Sides : Lack(Null, f, n, d) = Lack(Null, f1, n, d)
    BY <1>1 DEF Lack
  <1>3. QED
    BY <1>2 DEF Level, LevelAt

(* A red node turns black: the ways through it get the node they lacked.   *)
LEMMA BlackenHeights ==
  ASSUME NEW t, NEW S, NEW H, NEW n \in Keys, NEW q, NEW f \in Sides,
         Shape(t, S), Level(t, H, q, f), t.color[n] = Red, q = t.parent[n],
         q # Null => t.child[f][q] = n,
         NEW u, Painted(t, u, n, Black)
  PROVE  Level(u, [H EXCEPT ![n] = H[n] + 1], Null, "left")
  <1> PICK K : K = [H EXCEPT ![n] = H[n] + 1]
    OBVIOUS
  <1>0. t \in TreeType /\ q \in NodesOrNull
    BY TreeFields DEF Shape
  <1>1. H \in [NodesOrNull -> Nat \ {0}] /\ H[Null] = 1 /\ \A k \in Keys : LevelAt(t, H, q, f, k)
    BY DEF Level
  <1>2. n \in NodesOrNull /\ n # Null /\ H[n] \in Nat
    BY <1>1, RbTreeAssumption DEF NodesOrNull
  <1>3. K \in [NodesOrNull -> Nat \ {0}] /\ K[n] = H[n] + 1
        /\ \A k \in NodesOrNull : k # n => K[k] = H[k]
    BY <1>1, <1>2
  <1>4. K[Null] = 1
    BY <1>1, <1>2, <1>3 DEF NodesOrNull
  <1>5. u.child = t.child /\ \A k \in Keys : u.color[k] = IF k = n THEN Black ELSE t.color[k]
    BY DEF Painted
  <1>6. Red # Black
    BY DEF Red, Black
  <1>7. n # q
    BY <1>0, <1>2, ChildrenDiffer DEF NodesOrNull
  <1>8. ASSUME NEW k \in Keys, NEW d \in Sides
        PROVE  K[k] = K[u.child[d][k]] + Weight(u, k) + Lack(Null, "left", k, d)
    <2>1. H[k] = H[t.child[d][k]] + Weight(t, k) + Lack(q, f, k, d)
      BY <1>1 DEF LevelAt
    <2>2. Lack(Null, "left", k, d) = 0
      BY RbTreeAssumption DEF Lack
    <2>3. t.child[d][k] \in NodesOrNull /\ k \in NodesOrNull /\ t.child[d][k] # k
      BY <1>0, ChildrenDiffer, TreeFields DEF NodesOrNull
    <2>4. H[t.child[d][k]] \in Nat
      BY <1>1, <2>3
    <2>5. CASE k = n
      <3>1. Weight(u, n) = 1 /\ Weight(t, n) = 0 /\ Lack(q, f, n, d) = 0
        BY <1>5, <1>6, <1>7 DEF Weight, Lack
      <3>2. K[t.child[d][n]] = H[t.child[d][n]]
        BY <1>3, <2>3, <2>5
      <3>3. H[n] = H[t.child[d][n]]
        BY <2>1, <2>4, <2>5, <3>1
      <3>4. QED
        BY <1>3, <1>5, <2>2, <2>4, <2>5, <3>1, <3>2, <3>3
    <2>6. CASE k # n /\ t.child[d][k] = n
      <3>1. k = q /\ q # Null
        <4>1. t.child[d][k] # Null => t.parent[t.child[d][k]] = k
          BY ChildrenDiffer
        <4>2. k # Null
          BY RbTreeAssumption
        <4>3. t.parent[n] = k
          BY ONLY <1>2, <2>6, <4>1
        <4>4. QED
          BY ONLY <4>2, <4>3, q = t.parent[n]
      <3>2. d = f
        <4>1. d = f \/ d = Other(f)
          BY TwoSides
        <4>2. QED
          BY <1>2, <2>6, <3>1, <4>1, ChildrenDiffer
      <3>3. Lack(q, f, k, d) = 1
        BY <3>1, <3>2 DEF Lack
      <3>4. Weight(u, k) = Weight(t, k) /\ Weight(t, k) \in Nat
        BY <1>5, <2>6 DEF Weight
      <3>5. QED
        BY <1>2, <1>3, <1>5, <2>1, <2>2, <2>3, <2>6, <3>3, <3>4
    <2>7. CASE k # n /\ t.child[d][k] # n
      <3>1. Lack(q, f, k, d) = 0
        <4>1. k # Null
          BY RbTreeAssumption
        <4>2. ~(k = q /\ d = f)
          BY ONLY <2>7, <4>1, q # Null => t.child[f][q] = n
        <4>3. QED
          BY ONLY <4>2 DEF Lack
      <3>2. Weight(u, k) = Weight(t, k)
        BY <1>5, <2>7 DEF Weight
      <3>3. K[k] = H[k] /\ K[t.child[d][k]] = H[t.child[d][k]]
        BY <1>3, <2>3, <2>7
      <3>4. QED
        BY <1>5, <2>1, <2>2, <3>1, <3>2, <3>3
    <2>8. QED
      BY <2>5, <2>6, <2>7
  <1>9. QED
    BY <1>3, <1>4, <1>8 DEF Level, LevelAt

(* Then the tree is a red-black tree.                                      *)
LEMMA Blacken ==
  ASSUME NEW t, NEW S, NEW H, NEW n, NEW q, NEW f, OneBlackAway(t, S, H, n, q, f),
         NEW u, u = Paint(t, n, Black)
  PROVE  /\ \E K : Settled(u, S, K)
         /\ u.root = t.root
  <1>1. Shape(t, S) /\ t \in TreeType /\ Level(t, H, q, f) /\ f \in Sides /\ n \in NodesOrNull
    BY DEF OneBlackAway, Shape
  <1>2. Painted(t, u, n, Black)
    BY ONLY <1>1, PaintFields, u = Paint(t, n, Black)
  <1>3. /\ u.root = t.root /\ u.parent = t.parent /\ u.child = t.child
        /\ \A k \in Keys : u.color[k] = IF k = n THEN Black ELSE t.color[k]
    BY <1>2 DEF Painted
  <1>4. Shape(u, S)
    BY <1>1, <1>2, RepaintedShape DEF Painted, Repainted
  <1>5. Red # Black
    BY DEF Red, Black
  <1>6. ASSUME NEW k \in NodesOrNull PROVE IsRed(u, k) <=> IsRed(t, k) /\ k # n
    BY <1>3, <1>5 DEF IsRed, NodesOrNull
  <1>7. RedPairs(u, {})
    <2>1. ASSUME NEW k \in Keys, IsRed(u, k), IsRed(u, u.parent[k]) PROVE FALSE
      <3>1. t.parent[k] \in NodesOrNull /\ k \in NodesOrNull
        BY <1>1, TreeFields DEF NodesOrNull
      <3>2. IsRed(t, k) /\ IsRed(t, t.parent[k]) /\ k # n /\ t.parent[k] # n
        BY ONLY <1>3, <1>6, <2>1, <3>1
      <3>3. RedNear(t, n)
        BY DEF OneBlackAway
      <3>4. QED
        BY <3>2, <3>3 DEF RedNear
    <2>2. QED
      BY ONLY <2>1, Zenon DEF RedPairs
  <1>8. ~IsRed(u, u.root)
    <2>1. t.root \in NodesOrNull
      BY <1>1, TreeFields
    <2>2. IsRed(t, t.root) => t.root = n
      BY DEF OneBlackAway
    <2>3. QED
      BY <1>3, <1>6, <2>1, <2>2
  <1>9. \E K : Level(u, K, Null, "left")
    <2>1. CASE IsRed(t, n)
      <3>1. n \in Keys /\ t.color[n] = Red
        BY <1>1, <2>1 DEF IsRed, NodesOrNull
      <3>2. q = t.parent[n] /\ (q # Null => t.child[f][q] = n)
        BY <2>1 DEF OneBlackAway
      <3>3. Level(u, [H EXCEPT ![n] = H[n] + 1], Null, "left")
        BY ONLY <1>1, <1>2, <3>1, <3>2, BlackenHeights
      <3>4. QED
        BY <3>3
    <2>2. CASE ~IsRed(t, n)
      <3>1. q = Null
        BY <2>2 DEF OneBlackAway
      <3>2. Level(t, H, Null, "left")
        BY <1>1, <3>1, LevelNull
      <3>3. \A k \in Keys : Weight(u, k) = Weight(t, k)
        <4>1. ASSUME NEW k \in Keys PROVE u.color[k] = t.color[k]
          <5>1. k = n => t.color[k] # Red
            BY <2>2, RbTreeAssumption DEF IsRed
          <5>2. t.color[k] \in {Red, Black}
            BY <1>1, TreeFields
          <5>3. QED
            BY <1>3, <5>1, <5>2
        <4>2. QED
          BY <4>1 DEF Weight
      <3>4. Level(u, H, Null, "left")
        BY <1>3, <3>2, <3>3 DEF Level, LevelAt
      <3>5. QED
        BY <3>4
    <2>3. QED
      BY <2>1, <2>2
  <1>10. QED
    BY <1>3, <1>4, <1>7, <1>8, <1>9 DEF Settled-----------------------------------------------------------------------------
(* The loop of RebalanceForErase.                                          *)

(* The ways below x, on side s of p, lack a black node; all else is well.  *)
Deficit(t, S, H, x, p, s) ==
  /\ Shape(t, S) /\ Level(t, H, p, s) /\ s \in Sides
  /\ p \in Keys /\ p \in S[t.root] /\ t.child[s][p] = x
  /\ ~IsRed(t, x)
  /\ RedPairs(t, {})
  /\ ~IsRed(t, t.root)

(* w is the sibling of x, near and far are its children.                   *)
Siblings(t, H, x, p, s, w, near, far) ==
  /\ t \in TreeType /\ p \in Keys /\ s \in Sides
  /\ t.child[s][p] = x /\ t.child[Other(s)][p] = w
  /\ t.child[s][w] = near /\ t.child[Other(s)][w] = far
  /\ x \in NodesOrNull /\ x # p /\ x # w /\ (x # Null => t.parent[x] = p)
  /\ w \in Keys /\ w # p /\ t.parent[w] = p
  /\ near \in NodesOrNull /\ near # w /\ near # p
  /\ far \in NodesOrNull /\ far # w /\ far # p
  /\ near # Null => near # x /\ near # far /\ t.parent[near] = w
  /\ far # Null => far # x /\ near # far /\ t.parent[far] = w

(* Their heights.                                                          *)
SiblingHeights(t, H, x, p, w, near, far) ==
  /\ H \in [NodesOrNull -> Nat \ {0}] /\ H[Null] = 1
  /\ H[x] \in Nat \ {0} /\ H[near] \in Nat \ {0} /\ H[far] \in Nat \ {0}
  /\ H[p] = H[x] + Weight(t, p) + 1
  /\ H[w] = H[x] + 1
  /\ H[w] = H[near] + Weight(t, w)
  /\ H[w] = H[far] + Weight(t, w)

(* The sibling is there, since it has more black nodes below it than x.    *)
LEMMA SiblingsAre ==
  ASSUME NEW t, NEW S, NEW H, NEW x, NEW p, NEW s, Deficit(t, S, H, x, p, s),
         NEW w, w = t.child[Other(s)][p], NEW near, near = t.child[s][w],
         NEW far, far = t.child[Other(s)][w]
  PROVE  /\ Siblings(t, H, x, p, s, w, near, far)
         /\ SiblingHeights(t, H, x, p, w, near, far)
  <1> PICK o : o = Other(s)
    OBVIOUS
  <1>0. /\ Shape(t, S) /\ t \in TreeType /\ Parts(t, S) /\ Ordered(t, S) /\ Linked(t)
        /\ s \in Sides /\ p \in Keys /\ t.child[s][p] = x
    BY DEF Deficit, Shape
  <1>1. /\ H \in [NodesOrNull -> Nat \ {0}] /\ H[Null] = 1
        /\ \A k \in Keys : LevelAt(t, H, p, s, k)
    BY DEF Deficit, Level
  <1>s. o \in Sides /\ o # s /\ Other(o) = s
    BY <1>0, TwoSides
  <1>2. t.child[o][p] = w /\ t.child[s][w] = near /\ t.child[o][w] = far
    OBVIOUS
  <1>3. x \in NodesOrNull /\ w \in NodesOrNull /\ p \in NodesOrNull
    BY ONLY <1>0, <1>2, <1>s, TreeFields DEF NodesOrNull
  <1>4. H[x] \in Nat \ {0} /\ H[w] \in Nat \ {0} /\ H[p] \in Nat \ {0}
    BY ONLY <1>1, <1>3
  <1>5. H[p] = H[x] + Weight(t, p) + 1 /\ H[p] = H[w] + Weight(t, p) + 0
    <2>1. LevelAt(t, H, p, s, p)
      BY <1>0, <1>1
    <2>2. H[p] = H[x] + Weight(t, p) + Lack(p, s, p, s) /\ H[p] = H[w] + Weight(t, p) + Lack(p, s, p, o)
      BY ONLY <1>0, <1>2, <1>s, <2>1 DEF LevelAt
    <2>3. Lack(p, s, p, s) = 1 /\ Lack(p, s, p, o) = 0
      BY ONLY <1>s DEF Lack
    <2>4. QED
      BY ONLY <2>2, <2>3
  <1>6. Weight(t, p) \in Nat /\ Weight(t, w) \in Nat
    BY ONLY Zenon, 0 \in Nat, 1 \in Nat DEF Weight
  <1>7. H[w] = H[x] + 1
    BY ONLY <1>4, <1>5, <1>6
  <1>8. w # Null
    <2>1. H[w] # 1
      BY ONLY <1>4, <1>7
    <2>2. QED
      BY ONLY <1>1, <2>1
  <1>9. w \in Keys
    BY ONLY <1>3, <1>8 DEF NodesOrNull
  <1>10. near \in NodesOrNull /\ far \in NodesOrNull
    BY ONLY <1>0, <1>2, <1>9, <1>s, TreeFields
  <1>11. H[near] \in Nat \ {0} /\ H[far] \in Nat \ {0}
    BY ONLY <1>1, <1>10
  <1>12. x # p /\ w # p /\ x # w /\ (x # Null => t.parent[x] = p) /\ t.parent[w] = p
    BY ONLY <1>0, <1>2, <1>8, <1>s, ChildrenDiffer
  <1>13. near # w /\ far # w /\ near # p /\ far # p
    <2>1. near # w /\ far # w
      BY ONLY <1>0, <1>2, <1>9, <1>s, ChildrenDiffer
    <2>2. near # p /\ far # p
      BY ONLY <1>0, <1>2, <1>9, <1>s, NoCircleOfTwo
    <2>3. QED
      BY ONLY <2>1, <2>2
  <1>14. /\ near # Null => near # far /\ t.parent[near] = w
         /\ far # Null => near # far /\ t.parent[far] = w
    <2>1. /\ t.child[s][w] # Null => t.child[o][w] # t.child[s][w] /\ t.parent[t.child[s][w]] = w
          /\ t.child[o][w] # Null => t.child[s][w] # t.child[o][w] /\ t.parent[t.child[o][w]] = w
      BY ONLY <1>0, <1>9, <1>s, o = Other(s), ChildrenDiffer
    <2>2. QED
      BY ONLY <1>2, <2>1
  <1>15. /\ near # Null => near # x
         /\ far # Null => far # x
    BY ONLY <1>12, <1>14
  <1>16. H[w] = H[near] + Weight(t, w) /\ H[w] = H[far] + Weight(t, w)
    <2>1. LevelAt(t, H, p, s, w)
      BY <1>1, <1>9
    <2>2. H[w] = H[near] + Weight(t, w) + Lack(p, s, w, s) /\ H[w] = H[far] + Weight(t, w) + Lack(p, s, w, o)
      BY ONLY <1>0, <1>2, <1>s, <2>1 DEF LevelAt
    <2>3. Lack(p, s, w, s) = 0 /\ Lack(p, s, w, o) = 0
      BY ONLY <1>12 DEF Lack
    <2>4. QED
      BY ONLY <1>6, <1>11, <2>2, <2>3
  <1>17. Siblings(t, H, x, p, s, w, near, far)
    BY ONLY <1>0, <1>2, <1>3, <1>9, <1>10, <1>12, <1>13, <1>14, <1>15, o = Other(s) DEF Siblings
  <1>18. SiblingHeights(t, H, x, p, w, near, far)
    BY ONLY <1>1, <1>4, <1>5, <1>7, <1>11, <1>16 DEF SiblingHeights
  <1>19. QED
    BY ONLY <1>17, <1>18

(* A rotation after some nodes were painted.                               *)
LEMMA PaintAndRotate ==
  ASSUME NEW t, NEW S, Shape(t, S), NEW v, Repainted(t, v), NEW n \in Keys, NEW s \in Sides,
         NEW riser \in Keys, riser = t.child[Other(s)][n],
         NEW inner, inner = t.child[s][riser], NEW p, p = t.parent[n], NEW e, e = SideOf(t, n),
         NEW H, NEW q, NEW f, NEW h, HeightsFit(v, H, n, s, riser, inner, q, f, h),
         NEW u, u = Rotate(v, n, s)
  PROVE  /\ Rotated(v, u, n, s, riser, inner, p, e)
         /\ \E R, K : Shape(u, R) /\ R[u.root] = S[t.root] /\ Level(u, K, q, f)
  <1>1. v.root = t.root /\ v.child = t.child /\ v.parent = t.parent
    BY DEF Repainted
  <1>2. Shape(v, S)
    BY RepaintedShape
  <1>3. /\ riser = v.child[Other(s)][n] /\ riser # Null /\ inner = v.child[s][riser]
        /\ p = v.parent[n] /\ e = SideOf(v, n)
    BY <1>1, RbTreeAssumption DEF SideOf
  <1>4. Rotated(v, u, n, s, riser, inner, p, e)
    <2>1. Rotated(v, Rotate(v, n, s), n, s, v.child[Other(s)][n],
                  v.child[s][v.child[Other(s)][n]], v.parent[n], SideOf(v, n))
      BY ONLY <1>2, <1>3, RotateFields, n \in Keys, s \in Sides
    <2>2. QED
      BY ONLY <1>3, <2>1, u = Rotate(v, n, s)
  <1> PICK R : R = Turned(v, S, n, s)
    OBVIOUS
  <1>5. Shape(u, R) /\ R[u.root] = S[v.root]
    BY ONLY <1>2, <1>3, <1>4, RotateShape, n \in Keys, s \in Sides, R = Turned(v, S, n, s)
  <1>6. Level(u, [H EXCEPT ![riser] = H[n], ![n] = h], q, f)
    BY ONLY <1>2, <1>3, <1>4, RotateHeights, n \in Keys, s \in Sides,
            HeightsFit(v, H, n, s, riser, inner, q, f, h)
  <1>7. QED
    BY ONLY <1>1, <1>4, <1>5, <1>6
(* A node that is in the tree and is not the root is not touched by Lack.  *)
LEMMA SiblingLacks ==
  ASSUME NEW t, NEW H, NEW x, NEW p, NEW s, NEW w, NEW near, NEW far,
         Siblings(t, H, x, p, s, w, near, far)
  PROVE  /\ Lack(p, s, p, s) = 1 /\ Lack(p, s, p, Other(s)) = 0
         /\ \A d : Lack(p, s, w, d) = 0 /\ Lack(p, s, near, d) = 0 /\ Lack(p, s, far, d) = 0
  <1>1. /\ p \in Keys /\ s \in Sides /\ w # p /\ near # p /\ far # p
    BY DEF Siblings
  <1>2. Other(s) # s
    BY <1>1, TwoSides
  <1>3. QED
    BY ONLY <1>1, <1>2 DEF Lack

(* A red sibling: it turns black and takes the place of the parent, which  *)
(* turns red; then the sibling is black.                                   *)
LEMMA RedSibling ==
  ASSUME NEW t, NEW S, NEW H, NEW x, NEW p, NEW s, Deficit(t, S, H, x, p, s),
         NEW w, w = t.child[Other(s)][p], NEW near, near = t.child[s][w],
         NEW far, far = t.child[Other(s)][w], IsRed(t, w),
         NEW v, Recoloured(t, v, w, Black, p, Red, p, Red),
         NEW u, u = Rotate(v, p, s)
  PROVE  \E R, K : /\ Deficit(u, R, K, x, p, s) /\ R[u.root] = S[t.root]
                   /\ ~IsRed(u, u.child[Other(s)][p])
  <1> PICK o : o = Other(s)
    OBVIOUS
  <1> PICK g : g = t.parent[p]
    OBVIOUS
  <1> PICK e : e = SideOf(t, p)
    OBVIOUS
  <1>o. o = Other(s) /\ g = t.parent[p] /\ e = SideOf(t, p)
    OBVIOUS
  <1>0. /\ Siblings(t, H, x, p, s, w, near, far)
        /\ SiblingHeights(t, H, x, p, w, near, far)
    BY SiblingsAre
  <1>1. /\ t \in TreeType /\ p \in Keys /\ s \in Sides
        /\ t.child[s][p] = x /\ t.child[o][p] = w
        /\ t.child[s][w] = near /\ t.child[o][w] = far
        /\ x \in NodesOrNull /\ x # p /\ x # w /\ (x # Null => t.parent[x] = p)
        /\ w \in Keys /\ w # p /\ t.parent[w] = p
        /\ near \in NodesOrNull /\ near # w /\ near # p
        /\ far \in NodesOrNull /\ far # w /\ far # p
        /\ near # Null => near # x /\ near # far /\ t.parent[near] = w
        /\ far # Null => far # x /\ near # far /\ t.parent[far] = w
    BY ONLY <1>0, <1>o DEF Siblings
  <1>2. /\ Shape(t, S) /\ Linked(t) /\ RedPairs(t, {}) /\ ~IsRed(t, x) /\ ~IsRed(t, t.root)
        /\ p \in S[t.root] /\ Level(t, H, p, s)
    BY DEF Deficit, Shape
  <1>s. o \in Sides /\ o # s /\ Other(o) = s /\ \A d \in Sides : d = s \/ d = o
    BY ONLY <1>1, <1>o, TwoSides
  <1>3. Red # Black /\ t.color[w] = Red /\ w # Null /\ p # Null
    BY <1>1, RbTreeAssumption DEF IsRed, Red, Black
  <1>4. t.color[p] = Black
    <2>1. ~IsRed(t, p)
      BY ONLY <1>1, <1>2, <1>3, Zenon DEF RedPairs, IsRed
    <2>2. t.color[p] \in {Red, Black}
      BY ONLY <1>1, TreeFields
    <2>3. QED
      BY ONLY <1>3, <2>1, <2>2 DEF IsRed
  <1>5. /\ Repainted(t, v) /\ v.root = t.root /\ v.child = t.child /\ v.parent = t.parent
        /\ \A k \in Keys : v.color[k] = IF k = p THEN Red ELSE IF k = w THEN Black ELSE t.color[k]
    BY DEF Recoloured, Repainted
  <1>h. /\ H \in [NodesOrNull -> Nat \ {0}] /\ H[Null] = 1
        /\ H[x] \in Nat \ {0} /\ H[near] \in Nat \ {0} /\ H[far] \in Nat \ {0}
        /\ H[p] = H[x] + Weight(t, p) + 1
        /\ H[w] = H[x] + 1
        /\ H[w] = H[near] + Weight(t, w)
        /\ H[w] = H[far] + Weight(t, w)
    BY ONLY <1>0 DEF SiblingHeights
  <1>w. Weight(t, p) = 1 /\ Weight(t, w) = 0 /\ Weight(v, p) = 0 /\ Weight(v, w) = 1
    BY ONLY <1>1, <1>3, <1>4, <1>5 DEF Weight
  <1> PICK h : h = H[x] + 1
    OBVIOUS
  <1>6. HeightsFit(v, H, p, s, w, near, p, s, h)
    <2>1. h \in Nat \ {0} /\ h = H[x] + 1
      BY ONLY <1>h, h = H[x] + 1
    <2>2. \A d : Lack(p, s, w, d) = 0
      BY ONLY <1>0, SiblingLacks
    <2>3. Lack(p, s, p, s) = 1 /\ Lack(p, s, p, o) = 0
      BY ONLY <1>0, <1>o, SiblingLacks
    <2>4. h = H[v.child[s][p]] + Weight(v, p) + Lack(p, s, p, s)
      BY ONLY <1>1, <1>5, <1>h, <1>w, <2>1, <2>3
    <2>5. h = H[near] + Weight(v, p) + Lack(p, s, p, Other(s))
      BY ONLY <1>h, <1>o, <1>w, <2>1, <2>3
    <2>6. H[p] = h + Weight(v, w) + Lack(p, s, w, s)
      BY ONLY <1>h, <1>w, <2>1, <2>2
    <2>7. H[p] = H[v.child[Other(s)][w]] + Weight(v, w) + Lack(p, s, w, Other(s))
      BY ONLY <1>1, <1>5, <1>h, <1>o, <1>w, <2>1, <2>2
    <2>8. ASSUME NEW k \in Keys \ {p, w} PROVE LevelAt(v, H, p, s, k)
      <3>1. LevelAt(t, H, p, s, k)
        BY <1>2 DEF Level
      <3>2. Weight(v, k) = Weight(t, k)
        BY <1>5 DEF Weight
      <3>3. QED
        BY ONLY <1>5, <3>1, <3>2 DEF LevelAt
    <2>9. \A k \in Keys \ {p, w} : LevelAt(v, H, p, s, k)
      BY ONLY <2>8
    <2>10. QED
      BY ONLY <1>h, <2>1, <2>4, <2>5, <2>6, <2>7, <2>9 DEF HeightsFit
  <1>7. /\ Rotated(v, u, p, s, w, near, g, e)
        /\ \E R, K : Shape(u, R) /\ R[u.root] = S[t.root] /\ Level(u, K, p, s)
    BY ONLY <1>1, <1>2, <1>5, <1>6, <1>o, PaintAndRotate, u = Rotate(v, p, s)
  <1>8. PICK R, K : Shape(u, R) /\ R[u.root] = S[t.root] /\ Level(u, K, p, s)
    BY ONLY <1>7
  <1>9. /\ u.color = v.color /\ u.root = IF g = Null THEN w ELSE t.root
        /\ u.child[s][p] = x /\ u.child[o][p] = near
        /\ u.parent[p] = w /\ (near # Null => u.parent[near] = p)
        /\ \A k \in Keys \ {p, w, near} : u.parent[k] = t.parent[k]
    BY ONLY <1>1, <1>5, <1>7, <1>o DEF Rotated
  <1>10. \A k \in Keys : u.color[k] = IF k = p THEN Red ELSE IF k = w THEN Black ELSE t.color[k]
    BY ONLY <1>5, <1>9
  <1>11. ~IsRed(u, x)
    BY ONLY <1>1, <1>2, <1>10 DEF IsRed, NodesOrNull
  <1>12. ~IsRed(t, near) /\ ~IsRed(u, near)
    <2>1. ~IsRed(t, near)
      <3>1. IsRed(t, near) => near \in Keys /\ t.parent[near] = w
        BY ONLY <1>1 DEF IsRed, NodesOrNull
      <3>2. IsRed(t, w)
        OBVIOUS
      <3>3. QED
        BY ONLY <1>2, <3>1, <3>2, Zenon DEF RedPairs
    <2>2. QED
      BY ONLY <1>1, <1>10, <2>1 DEF IsRed, NodesOrNull
  <1>13. ASSUME NEW k \in Keys, IsRed(u, k), IsRed(u, u.parent[k]) PROVE FALSE
    <2>1. k # w /\ k # p /\ k # near
      BY ONLY <1>1, <1>3, <1>9, <1>10, <1>12, <1>13 DEF IsRed
    <2>2. u.parent[k] = t.parent[k] /\ t.parent[k] \in NodesOrNull
      BY ONLY <1>1, <1>9, <1>13, <2>1, TreeFields
    <2>3. t.parent[k] \in Keys /\ u.color[t.parent[k]] = Red /\ u.color[k] = Red
      BY ONLY <1>13, <2>2 DEF IsRed, NodesOrNull
    <2>4. t.parent[k] # w
      BY ONLY <1>1, <1>3, <1>10, <2>3
    <2>5. t.parent[k] # p
      <3>1. SUFFICES ASSUME t.parent[k] = p PROVE FALSE
        OBVIOUS
      <3>2. \E d \in Sides : t.child[d][p] = k
        BY ONLY <1>2, <1>3, <1>13, <3>1 DEF Linked
      <3>3. k = x
        BY ONLY <1>1, <1>s, <2>1, <3>2
      <3>4. QED
        BY ONLY <1>11, <1>13, <3>3
    <2>6. t.color[k] = Red /\ t.color[t.parent[k]] = Red
      BY ONLY <1>10, <1>13, <2>1, <2>3, <2>4, <2>5
    <2>7. IsRed(t, k) /\ IsRed(t, t.parent[k])
      BY ONLY <1>13, <2>3, <2>6, RbTreeAssumption DEF IsRed
    <2>8. QED
      BY ONLY <1>2, <1>13, <2>7, Zenon DEF RedPairs
  <1>14. RedPairs(u, {})
    BY ONLY <1>13, Zenon DEF RedPairs
  <1>15. ~IsRed(u, u.root)
    <2>1. CASE g = Null
      BY ONLY <1>1, <1>3, <1>9, <1>10, <2>1 DEF IsRed
    <2>2. CASE g # Null
      <3>1. u.root = t.root /\ t.root # p
        BY ONLY <1>2, <1>3, <1>9, <1>o, <2>2 DEF Linked
      <3>2. t.root \in NodesOrNull
        BY ONLY <1>1, TreeFields
      <3>3. QED
        BY ONLY <1>2, <1>3, <1>10, <3>1, <3>2 DEF IsRed, NodesOrNull
    <2>3. QED
      BY ONLY <2>1, <2>2
  <1>16. p \in R[u.root]
    BY ONLY <1>2, <1>8
  <1>17. Deficit(u, R, K, x, p, s)
    BY ONLY <1>1, <1>8, <1>9, <1>11, <1>14, <1>15, <1>16 DEF Deficit
  <1>18. ~IsRed(u, u.child[Other(s)][p])
    BY ONLY <1>9, <1>12, <1>o
  <1>19. QED
    BY ONLY <1>8, <1>17, <1>18
(* The ways below x, on side f of p, lack a black node; x may be red under *)
(* a red parent, or have red children and be red, or be the root.          *)
Lacking(t, S, H, x, p, f) ==
  /\ Shape(t, S) /\ Level(t, H, p, f) /\ f \in Sides
  /\ x \in NodesOrNull /\ p \in NodesOrNull
  /\ p = Null => x = t.root
  /\ p # Null => p \in S[t.root] /\ t.child[f][p] = x
  /\ RedNear(t, x)
  /\ IsRed(t, t.root) => t.root = x

(* Both nephews are black: the sibling turns red, and the parent takes the *)
(* place of x.                                                             *)
LEMMA BlackNephews ==
  ASSUME NEW t, NEW S, NEW H, NEW x, NEW p, NEW s, Deficit(t, S, H, x, p, s),
         NEW w, w = t.child[Other(s)][p], NEW near, near = t.child[s][w],
         NEW far, far = t.child[Other(s)][w],
         ~IsRed(t, w), ~IsRed(t, near), ~IsRed(t, far),
         NEW u, Painted(t, u, w, Red), NEW q, q = t.parent[p], NEW f, f = SideOf(t, p)
  PROVE  \E K : Lacking(u, S, K, p, q, f) /\ u.root = t.root
  <1> PICK o : o = Other(s)
    OBVIOUS
  <1>o. o = Other(s) /\ q = t.parent[p] /\ f = SideOf(t, p)
    OBVIOUS
  <1>0. /\ Siblings(t, H, x, p, s, w, near, far)
        /\ SiblingHeights(t, H, x, p, w, near, far)
    BY SiblingsAre
  <1>1. /\ t \in TreeType /\ p \in Keys /\ s \in Sides
        /\ t.child[s][p] = x /\ t.child[o][p] = w
        /\ t.child[s][w] = near /\ t.child[o][w] = far
        /\ x \in NodesOrNull /\ x # p /\ x # w /\ (x # Null => t.parent[x] = p)
        /\ w \in Keys /\ w # p /\ t.parent[w] = p
        /\ near \in NodesOrNull /\ near # w /\ near # p
        /\ far \in NodesOrNull /\ far # w /\ far # p
    BY ONLY <1>0, <1>o DEF Siblings
  <1>2. /\ Shape(t, S) /\ Linked(t) /\ RedPairs(t, {}) /\ ~IsRed(t, x) /\ ~IsRed(t, t.root)
        /\ p \in S[t.root] /\ Level(t, H, p, s) /\ Parts(t, S) /\ Ordered(t, S)
    BY DEF Deficit, Shape
  <1>s. o \in Sides /\ o # s /\ Other(o) = s /\ \A d \in Sides : d = s \/ d = o
    BY ONLY <1>1, <1>o, TwoSides
  <1>3. Red # Black /\ t.color[w] = Black /\ w # Null /\ p # Null
    <2>1. t.color[w] \in {Red, Black} /\ t.color[w] # Red
      BY <1>1, TreeFields, RbTreeAssumption DEF IsRed
    <2>2. QED
      BY ONLY <1>1, <2>1, RbTreeAssumption DEF Red, Black
  <1>4. f \in Sides /\ q \in NodesOrNull /\ (q # Null => q \in Keys /\ t.child[f][q] = p)
    <2>1. f \in Sides
      BY ONLY <1>o DEF SideOf, Sides
    <2>2. q \in NodesOrNull
      BY ONLY <1>1, <1>o, TreeFields
    <2>3. q # Null => t.child[f][q] = p
      BY ONLY <1>1, <1>2, <1>o, SideOfIs
    <2>4. QED
      BY ONLY <2>1, <2>2, <2>3 DEF NodesOrNull
  <1>5. q # p /\ q # w
    <2>1. q # p
      BY ONLY <1>1, <1>2, <1>3, <1>4, ChildrenDiffer
    <2>2. q # w
      <3>1. w \in Keys /\ p \in Keys /\ o \in Sides /\ t.child[o][p] = w /\ t.child[f][w] # p
        BY ONLY <1>1, <1>2, <1>4, <1>s, NoCircleOfTwo
      <3>2. QED
        BY ONLY <1>3, <1>4, <3>1
    <2>3. QED
      BY ONLY <2>1, <2>2
  <1>6. /\ u \in TreeType /\ u.root = t.root /\ u.child = t.child /\ u.parent = t.parent
        /\ \A k \in Keys : u.color[k] = IF k = w THEN Red ELSE t.color[k]
    BY DEF Painted
  <1>7. Shape(u, S)
    BY ONLY <1>2, <1>6, RepaintedShape DEF Repainted
  <1>h. /\ H \in [NodesOrNull -> Nat \ {0}] /\ H[Null] = 1
        /\ H[x] \in Nat \ {0} /\ H[near] \in Nat \ {0} /\ H[far] \in Nat \ {0}
        /\ H[p] = H[x] + Weight(t, p) + 1
        /\ H[w] = H[x] + 1
        /\ H[w] = H[near] + Weight(t, w)
        /\ H[w] = H[far] + Weight(t, w)
    BY ONLY <1>0 DEF SiblingHeights
  <1>w. /\ Weight(t, w) = 1 /\ Weight(u, w) = 0 /\ Weight(t, p) \in Nat
        /\ \A k \in Keys : k # w => Weight(u, k) = Weight(t, k)
    BY ONLY <1>1, <1>3, <1>6 DEF Weight
  <1> PICK c : c = Weight(t, p)
    OBVIOUS
  <1>c. c \in Nat /\ c = Weight(t, p) /\ Weight(u, p) = c
    BY ONLY <1>1, <1>w, c = Weight(t, p)
  <1> PICK K : K = [H EXCEPT ![w] = H[x], ![p] = H[x] + c]
    OBVIOUS
  <1>8. /\ K \in [NodesOrNull -> Nat \ {0}] /\ K[w] = H[x] /\ K[p] = H[x] + c
        /\ \A k \in NodesOrNull : k # w /\ k # p => K[k] = H[k]
    <2>1. w \in NodesOrNull /\ p \in NodesOrNull
      BY ONLY <1>1 DEF NodesOrNull
    <2>2. H[x] + c \in Nat \ {0}
      BY ONLY <1>c, <1>h
    <2>3. QED
      BY ONLY <1>1, <1>h, <2>1, <2>2, K = [H EXCEPT ![w] = H[x], ![p] = H[x] + c]
  <1>9. K[Null] = 1 /\ K[x] = H[x] /\ K[near] = H[near] /\ K[far] = H[far]
    <2>1. Null \in NodesOrNull
      BY DEF NodesOrNull
    <2>2. QED
      BY ONLY <1>1, <1>3, <1>8, <1>h, <2>1
  <1>10. ASSUME NEW k \in Keys, NEW d \in Sides
         PROVE  K[k] = K[u.child[d][k]] + Weight(u, k) + Lack(q, f, k, d)
    <2>0. d = s \/ d = o
      BY <1>s
    <2>1. CASE k = w
      <3>1. Lack(q, f, k, d) = 0
        BY ONLY <1>5, <2>1 DEF Lack
      <3>2. u.child[d][k] = near \/ u.child[d][k] = far
        BY ONLY <1>1, <1>6, <2>0, <2>1
      <3>3. H[near] = H[x] /\ H[far] = H[x]
        BY ONLY <1>h, <1>w
      <3>4. K[u.child[d][k]] = H[x]
        BY ONLY <1>9, <3>2, <3>3
      <3>5. QED
        BY ONLY <1>8, <1>h, <1>w, <2>1, <3>1, <3>4
    <2>2. CASE k = p
      <3>1. Lack(q, f, k, d) = 0
        BY ONLY <1>5, <2>2 DEF Lack
      <3>2. u.child[d][k] = x \/ u.child[d][k] = w
        BY ONLY <1>1, <1>6, <2>0, <2>2
      <3>4. K[u.child[d][k]] = H[x]
        BY ONLY <1>8, <1>9, <3>2
      <3>5. QED
        BY ONLY <1>8, <1>c, <1>h, <2>2, <3>1, <3>4
    <2>3. CASE k # w /\ k # p
      <3>1. H[k] = H[t.child[d][k]] + Weight(t, k) + 0
        <4>1. LevelAt(t, H, p, s, k)
          BY <1>2 DEF Level
        <4>2. Lack(p, s, k, d) = 0
          BY ONLY <2>3 DEF Lack
        <4>3. d \in Sides
          OBVIOUS
        <4>4. QED
          BY ONLY <4>1, <4>2, <4>3 DEF LevelAt
      <3>2. t.child[d][k] \in NodesOrNull /\ k \in NodesOrNull /\ Weight(u, k) = Weight(t, k)
            /\ k \in Keys /\ d \in Sides
        BY ONLY <1>1, <1>10, <1>w, <2>3, TreeFields DEF NodesOrNull
      <3>3. K[k] = H[k]
        BY ONLY <1>8, <2>3, <3>2
      <3>4. t.child[d][k] # Null => t.parent[t.child[d][k]] = k
        BY ONLY <1>2, <3>2, ChildrenDiffer
      <3>5. t.child[d][k] # w
        BY ONLY <1>1, <1>3, <2>3, <3>4
      <3>6. CASE t.child[d][k] = p
        <4>1. k = q
          BY ONLY <1>3, <1>o, <3>4, <3>6
        <4>2. d = f
          BY ONLY <1>1, <1>2, <1>4, <1>o, <3>2, <3>6, <4>1, RbTreeAssumption, SideOfIs
        <4>3. Lack(q, f, k, d) = 1
          BY ONLY <4>1, <4>2 DEF Lack
        <4>4. Weight(t, k) \in Nat
          BY ONLY Zenon, 0 \in Nat, 1 \in Nat DEF Weight
        <4>5. QED
          BY ONLY <1>6, <1>8, <1>c, <1>h, <3>1, <3>2, <3>3, <3>6, <4>3, <4>4
      <3>7. CASE t.child[d][k] # p
        <4>1. ~(k = q /\ d = f)
          BY ONLY <1>4, <3>2, <3>7, RbTreeAssumption
        <4>2. Lack(q, f, k, d) = 0
          BY ONLY <4>1 DEF Lack
        <4>3. K[t.child[d][k]] = H[t.child[d][k]]
          BY ONLY <1>8, <3>2, <3>5, <3>7
        <4>4. QED
          BY ONLY <1>6, <3>1, <3>2, <3>3, <4>2, <4>3
      <3>8. QED
        BY ONLY <3>6, <3>7
    <2>4. QED
      BY ONLY <2>1, <2>2, <2>3
  <1>11. Level(u, K, q, f)
    BY ONLY <1>8, <1>9, <1>10 DEF Level, LevelAt
  <1>12. ASSUME NEW k \in Keys, IsRed(u, k), IsRed(u, u.parent[k]), k # p, t.parent[k] # p
         PROVE  FALSE
    <2>1. k # w
      BY ONLY <1>1, <1>12
    <2>2. t.parent[k] \in Keys /\ u.color[t.parent[k]] = Red /\ t.color[k] = Red
      <3>1. t.parent[k] \in NodesOrNull
        BY ONLY <1>1, <1>12, TreeFields
      <3>2. QED
        BY ONLY <1>6, <1>12, <2>1, <3>1 DEF IsRed, NodesOrNull
    <2>3. t.parent[k] # w
      <3>1. SUFFICES ASSUME t.parent[k] = w PROVE FALSE
        OBVIOUS
      <3>2. \E d \in Sides : t.child[d][w] = k
        BY ONLY <1>2, <1>3, <1>12, <3>1 DEF Linked
      <3>3. k = near \/ k = far
        BY ONLY <1>1, <1>s, <3>2
      <3>4. IsRed(t, k)
        BY ONLY <1>12, <2>2, RbTreeAssumption DEF IsRed
      <3>5. ~IsRed(t, near) /\ ~IsRed(t, far)
        OBVIOUS
      <3>6. QED
        BY ONLY <3>3, <3>4, <3>5
    <2>4. IsRed(t, k) /\ IsRed(t, t.parent[k])
      BY ONLY <1>6, <1>12, <2>2, <2>3, RbTreeAssumption DEF IsRed
    <2>5. QED
      BY ONLY <1>2, <1>12, <2>4, Zenon DEF RedPairs
  <1>13. RedNear(u, p)
    BY ONLY <1>6, <1>12 DEF RedNear
  <1>14. IsRed(u, u.root) => u.root = p
    <2>1. t.root \in NodesOrNull
      BY ONLY <1>1, TreeFields
    <2>2. t.root # w
      BY ONLY <1>1, <1>2, <1>3 DEF Linked
    <2>3. QED
      BY ONLY <1>2, <1>6, <2>1, <2>2 DEF IsRed, NodesOrNull
  <1>15. q = Null => p = u.root
    BY ONLY <1>1, <1>2, <1>6, <1>o, InTheTree
  <1>16. q # Null => q \in S[u.root] /\ u.child[f][q] = p
    <2>1. SUFFICES ASSUME q # Null PROVE q \in S[u.root] /\ u.child[f][q] = p
      OBVIOUS
    <2>2. q \in Keys /\ t.child[f][q] = p /\ f \in Sides
      BY ONLY <1>4, <2>1
    <2>3. t.child[f][q] # Null
      BY ONLY <1>3, <2>2
    <2>4. q \in S[t.root]
      BY ONLY <1>2, <2>2, <2>3, InTheTree
    <2>5. QED
      BY ONLY <1>6, <2>2, <2>4
  <1>17. Lacking(u, S, K, p, q, f)
    BY ONLY <1>1, <1>4, <1>7, <1>11, <1>13, <1>14, <1>15, <1>16 DEF Lacking, NodesOrNull
  <1>18. QED
    BY ONLY <1>6, <1>17
(* The facts about x, its parent and its nephews, with o for the other     *)
(* side.                                                                   *)
LEMMA DeficitFacts ==
  ASSUME NEW t, NEW S, NEW H, NEW x, NEW p, NEW s, Deficit(t, S, H, x, p, s),
         NEW w, w = t.child[Other(s)][p], NEW near, near = t.child[s][w],
         NEW far, far = t.child[Other(s)][w], NEW o, o = Other(s)
  PROVE  /\ t \in TreeType /\ p \in Keys /\ s \in Sides
         /\ t.child[s][p] = x /\ t.child[o][p] = w
         /\ t.child[s][w] = near /\ t.child[o][w] = far
         /\ x \in NodesOrNull /\ x # p /\ x # w /\ (x # Null => t.parent[x] = p)
         /\ w \in Keys /\ w # p /\ t.parent[w] = p
         /\ near \in NodesOrNull /\ near # w /\ near # p
         /\ far \in NodesOrNull /\ far # w /\ far # p
         /\ near # Null => near # x /\ near # far /\ t.parent[near] = w
         /\ far # Null => far # x /\ near # far /\ t.parent[far] = w
         /\ Shape(t, S) /\ Linked(t) /\ RedPairs(t, {}) /\ ~IsRed(t, x) /\ ~IsRed(t, t.root)
         /\ p \in S[t.root] /\ Level(t, H, p, s) /\ Parts(t, S) /\ Ordered(t, S)
         /\ \A k \in Keys : LevelAt(t, H, p, s, k)
         /\ o \in Sides /\ o # s /\ Other(o) = s /\ \A d \in Sides : d = s \/ d = o
         /\ H \in [NodesOrNull -> Nat \ {0}] /\ H[Null] = 1
         /\ H[x] \in Nat \ {0} /\ H[near] \in Nat \ {0} /\ H[far] \in Nat \ {0}
         /\ H[p] = H[x] + Weight(t, p) + 1
         /\ H[w] = H[x] + 1
         /\ H[w] = H[near] + Weight(t, w)
         /\ H[w] = H[far] + Weight(t, w)
         /\ Red # Black /\ w # Null /\ p # Null
  <1>o. o = Other(s)
    OBVIOUS
  <1>0. /\ Siblings(t, H, x, p, s, w, near, far)
        /\ SiblingHeights(t, H, x, p, w, near, far)
    BY SiblingsAre
  <1>1. /\ t \in TreeType /\ p \in Keys /\ s \in Sides
        /\ t.child[s][p] = x /\ t.child[o][p] = w
        /\ t.child[s][w] = near /\ t.child[o][w] = far
        /\ x \in NodesOrNull /\ x # p /\ x # w /\ (x # Null => t.parent[x] = p)
        /\ w \in Keys /\ w # p /\ t.parent[w] = p
        /\ near \in NodesOrNull /\ near # w /\ near # p
        /\ far \in NodesOrNull /\ far # w /\ far # p
        /\ near # Null => near # x /\ near # far /\ t.parent[near] = w
        /\ far # Null => far # x /\ near # far /\ t.parent[far] = w
    BY ONLY <1>0, <1>o DEF Siblings
  <1>2. /\ Shape(t, S) /\ Linked(t) /\ RedPairs(t, {}) /\ ~IsRed(t, x) /\ ~IsRed(t, t.root)
        /\ p \in S[t.root] /\ Level(t, H, p, s) /\ Parts(t, S) /\ Ordered(t, S)
        /\ \A k \in Keys : LevelAt(t, H, p, s, k)
    BY DEF Deficit, Shape, Level
  <1>3. o \in Sides /\ o # s /\ Other(o) = s /\ \A d \in Sides : d = s \/ d = o
    BY ONLY <1>1, <1>o, TwoSides
  <1>4. /\ H \in [NodesOrNull -> Nat \ {0}] /\ H[Null] = 1
        /\ H[x] \in Nat \ {0} /\ H[near] \in Nat \ {0} /\ H[far] \in Nat \ {0}
        /\ H[p] = H[x] + Weight(t, p) + 1
        /\ H[w] = H[x] + 1
        /\ H[w] = H[near] + Weight(t, w)
        /\ H[w] = H[far] + Weight(t, w)
    BY ONLY <1>0 DEF SiblingHeights
  <1>5. Red # Black /\ w # Null /\ p # Null
    BY ONLY <1>1, RbTreeAssumption DEF Red, Black
  <1>6. QED
    BY ONLY <1>1, <1>2, <1>3, <1>4, <1>5

(* w is the sibling of what is on side s of p, near and far its children.  *)
Nephews(t, p, s, w, near, far) ==
  w = t.child[Other(s)][p] /\ near = t.child[s][w] /\ far = t.child[Other(s)][w]

(* Only the near nephew is red: it turns black and takes the place of the  *)
(* sibling, which turns red and is the far nephew then.                    *)
LEMMA NearNephew ==
  ASSUME NEW t, NEW S, NEW H, NEW x, NEW p, NEW s, Deficit(t, S, H, x, p, s),
         NEW w, NEW near, NEW far, Nephews(t, p, s, w, near, far),
         ~IsRed(t, w), IsRed(t, near), ~IsRed(t, far),
         NEW v, Recoloured(t, v, near, Black, w, Red, w, Red),
         NEW u, u = Rotate(v, w, Other(s))
  PROVE  \E R, K : /\ Deficit(u, R, K, x, p, s) /\ R[u.root] = S[t.root]
                   /\ u.child[Other(s)][p] = near /\ ~IsRed(u, near)
                   /\ u.child[Other(s)][near] = w /\ IsRed(u, w)
  <1> PICK o : o = Other(s)
    OBVIOUS
  <1> PICK inner : inner = t.child[o][near]
    OBVIOUS
  <1> PICK outer : outer = t.child[s][near]
    OBVIOUS
  <1>o. /\ o = Other(s) /\ inner = t.child[o][near] /\ outer = t.child[s][near]
        /\ ~IsRed(t, w) /\ IsRed(t, near) /\ ~IsRed(t, far)
        /\ u = Rotate(v, w, Other(s))
    OBVIOUS
  <1>d. /\ Deficit(t, S, H, x, p, s) /\ o = Other(s)
        /\ w = t.child[Other(s)][p] /\ near = t.child[s][w] /\ far = t.child[Other(s)][w]
    BY DEF Nephews
  <1>1. /\ t \in TreeType /\ p \in Keys /\ s \in Sides
        /\ t.child[s][p] = x /\ t.child[o][p] = w
        /\ t.child[s][w] = near /\ t.child[o][w] = far
        /\ x \in NodesOrNull /\ x # p /\ x # w /\ (x # Null => t.parent[x] = p)
        /\ w \in Keys /\ w # p /\ t.parent[w] = p
        /\ near \in NodesOrNull /\ near # w /\ near # p
        /\ far \in NodesOrNull /\ far # w /\ far # p
        /\ near # Null => near # x /\ near # far /\ t.parent[near] = w
        /\ far # Null => far # x /\ near # far /\ t.parent[far] = w
        /\ Red # Black /\ w # Null /\ p # Null
    BY ONLY <1>d, DeficitFacts
  <1>2. /\ Shape(t, S) /\ Linked(t) /\ RedPairs(t, {}) /\ ~IsRed(t, x) /\ ~IsRed(t, t.root)
        /\ p \in S[t.root] /\ Level(t, H, p, s) /\ Parts(t, S) /\ Ordered(t, S)
        /\ \A k \in Keys : LevelAt(t, H, p, s, k)
    BY ONLY <1>d, DeficitFacts
  <1>s. o \in Sides /\ o # s /\ Other(o) = s /\ \A d \in Sides : d = s \/ d = o
    BY ONLY <1>d, DeficitFacts
  <1>h. /\ H \in [NodesOrNull -> Nat \ {0}] /\ H[Null] = 1
        /\ H[x] \in Nat \ {0} /\ H[near] \in Nat \ {0} /\ H[far] \in Nat \ {0}
        /\ H[w] = H[x] + 1
        /\ H[w] = H[near] + Weight(t, w)
        /\ H[w] = H[far] + Weight(t, w)
    BY ONLY <1>d, DeficitFacts
  <1>3. near \in Keys /\ t.color[near] = Red /\ near # Null /\ t.color[w] = Black
    <2>1. near \in Keys /\ t.color[near] = Red /\ near # Null
      BY ONLY <1>1, <1>o DEF IsRed, NodesOrNull
    <2>2. t.color[w] \in {Red, Black} /\ t.color[w] # Red
      BY ONLY <1>1, <1>o, TreeFields DEF IsRed
    <2>3. QED
      BY ONLY <2>1, <2>2
  <1>4. /\ inner \in NodesOrNull /\ inner # near /\ inner # w
        /\ outer \in NodesOrNull
        /\ inner # Null => inner \in Keys /\ t.parent[inner] = near
    <2>1. inner \in NodesOrNull /\ outer \in NodesOrNull
      BY ONLY <1>1, <1>3, <1>o, <1>s, TreeFields
    <2>2. inner # near /\ (inner # Null => inner \in Keys /\ t.parent[inner] = near)
      BY ONLY <1>2, <1>3, <1>o, <1>s, ChildrenDiffer
    <2>3. inner # w
      BY ONLY <1>1, <1>2, <1>3, <1>o, <1>s, NoCircleOfTwo
    <2>4. QED
      BY ONLY <2>1, <2>2, <2>3
  <1>5. /\ Repainted(t, v) /\ v.root = t.root /\ v.child = t.child /\ v.parent = t.parent
        /\ \A k \in Keys : v.color[k] = IF k = w THEN Red ELSE IF k = near THEN Black ELSE t.color[k]
    BY DEF Recoloured, Repainted
  <1>6. SideOf(t, w) = o
    BY ONLY <1>1, <1>2, <1>s, SideOfIs
  <1>w. /\ Weight(t, near) = 0 /\ Weight(t, w) = 1 /\ Weight(v, near) = 1 /\ Weight(v, w) = 0
    BY ONLY <1>1, <1>3, <1>5 DEF Weight
  <1>7. H[near] = H[x] /\ H[far] = H[x] /\ H[inner] = H[x] /\ H[outer] = H[x]
    <2>1. H[near] = H[x] /\ H[far] = H[x]
      BY ONLY <1>h, <1>w
    <2>2. H[near] = H[inner] + Weight(t, near) + Lack(p, s, near, o)
          /\ H[near] = H[outer] + Weight(t, near) + Lack(p, s, near, s)
      BY ONLY <1>1, <1>2, <1>3, <1>o, <1>s DEF LevelAt
    <2>3. Lack(p, s, near, o) = 0 /\ Lack(p, s, near, s) = 0
      BY ONLY <1>1 DEF Lack
    <2>4. H[inner] \in Nat /\ H[outer] \in Nat
      BY ONLY <1>4, <1>h
    <2>5. QED
      BY ONLY <1>w, <2>1, <2>2, <2>3, <2>4
  <1> PICK h : h = H[x]
    OBVIOUS
  <1>8. HeightsFit(v, H, w, o, near, inner, p, s, h)
    <2>1. h \in Nat \ {0} /\ h = H[x]
      BY ONLY <1>h, h = H[x]
    <2>2. \A d : Lack(p, s, w, d) = 0 /\ Lack(p, s, near, d) = 0
      BY ONLY <1>1 DEF Lack
    <2>4. h = H[v.child[o][w]] + Weight(v, w) + Lack(p, s, w, o)
      BY ONLY <1>1, <1>5, <1>7, <1>w, <2>1, <2>2
    <2>5. h = H[inner] + Weight(v, w) + Lack(p, s, w, Other(o))
      BY ONLY <1>7, <1>w, <2>1, <2>2
    <2>6. H[w] = h + Weight(v, near) + Lack(p, s, near, o)
      BY ONLY <1>h, <1>w, <2>1, <2>2
    <2>7. H[w] = H[v.child[Other(o)][near]] + Weight(v, near) + Lack(p, s, near, Other(o))
      BY ONLY <1>5, <1>7, <1>h, <1>o, <1>s, <1>w, <2>1, <2>2
    <2>8. ASSUME NEW k \in Keys \ {w, near} PROVE LevelAt(v, H, p, s, k)
      <3>1. LevelAt(t, H, p, s, k)
        BY <1>2
      <3>2. Weight(v, k) = Weight(t, k)
        BY <1>5 DEF Weight
      <3>3. QED
        BY ONLY <1>5, <3>1, <3>2 DEF LevelAt
    <2>9. \A k \in Keys \ {w, near} : LevelAt(v, H, p, s, k)
      BY ONLY <2>8
    <2>10. QED
      BY ONLY <1>h, <2>1, <2>4, <2>5, <2>6, <2>7, <2>9 DEF HeightsFit
  <1>9. /\ Rotated(v, u, w, o, near, inner, p, o)
        /\ \E R, K : Shape(u, R) /\ R[u.root] = S[t.root] /\ Level(u, K, p, s)
    <2>1. /\ near = t.child[Other(o)][w] /\ inner = t.child[o][near] /\ p = t.parent[w]
          /\ o = SideOf(t, w) /\ u = Rotate(v, w, o)
      BY ONLY <1>1, <1>6, <1>o, <1>s
    <2>2. QED
      BY ONLY <1>1, <1>2, <1>3, <1>5, <1>8, <1>s, <2>1, PaintAndRotate
  <1>10. PICK R, K : Shape(u, R) /\ R[u.root] = S[t.root] /\ Level(u, K, p, s)
    BY ONLY <1>9
  <1>11. /\ u.color = v.color /\ u.root = t.root
         /\ u.child[s][p] = x /\ u.child[o][p] = near /\ u.child[o][near] = w
         /\ u.parent[w] = near /\ (inner # Null => u.parent[inner] = w)
         /\ u.parent[near] = p
         /\ \A k \in Keys \ {w, near, inner} : u.parent[k] = t.parent[k]
    BY ONLY <1>1, <1>5, <1>9, <1>s DEF Rotated
  <1>12. \A k \in Keys : u.color[k] = IF k = w THEN Red ELSE IF k = near THEN Black ELSE t.color[k]
    BY ONLY <1>5, <1>11
  <1>13. ~IsRed(u, x) /\ ~IsRed(u, near) /\ IsRed(u, w)
    BY ONLY <1>1, <1>2, <1>3, <1>12 DEF IsRed, NodesOrNull
  <1>14. ~IsRed(u, inner)
    <2>1. ~IsRed(t, inner)
      <3>1. IsRed(t, inner) => inner \in Keys /\ t.parent[inner] = near
        BY ONLY <1>4 DEF IsRed, NodesOrNull
      <3>3. QED
        BY ONLY <1>2, <1>o, <3>1, Zenon DEF RedPairs
    <2>2. QED
      BY ONLY <1>4, <1>12, <2>1 DEF IsRed, NodesOrNull
  <1>15. ASSUME NEW k \in Keys, IsRed(u, k), IsRed(u, u.parent[k]) PROVE FALSE
    <2>1. k # near /\ k # inner
      BY ONLY <1>13, <1>14, <1>15
    <2>2. k # w
      BY ONLY <1>11, <1>13, <1>15
    <2>3. u.parent[k] = t.parent[k] /\ t.parent[k] \in NodesOrNull
      BY ONLY <1>1, <1>11, <1>15, <2>1, <2>2, TreeFields
    <2>4. t.parent[k] \in Keys /\ u.color[t.parent[k]] = Red /\ t.color[k] = Red
      BY ONLY <1>12, <1>15, <2>1, <2>2, <2>3 DEF IsRed, NodesOrNull
    <2>5. t.parent[k] # near
      BY ONLY <1>13, <1>15, <2>3
    <2>6. t.parent[k] # w
      <3>1. SUFFICES ASSUME t.parent[k] = w PROVE FALSE
        OBVIOUS
      <3>2. \E d \in Sides : t.child[d][w] = k
        BY ONLY <1>1, <1>2, <1>15, <3>1 DEF Linked
      <3>3. k = far
        BY ONLY <1>1, <1>s, <2>1, <3>2
      <3>4. IsRed(t, k)
        BY ONLY <1>15, <2>4, RbTreeAssumption DEF IsRed
      <3>5. QED
        BY ONLY <1>o, <3>3, <3>4
    <2>7. IsRed(t, k) /\ IsRed(t, t.parent[k])
      BY ONLY <1>12, <1>15, <2>4, <2>5, <2>6, RbTreeAssumption DEF IsRed
    <2>8. QED
      BY ONLY <1>2, <1>15, <2>7, Zenon DEF RedPairs
  <1>16. RedPairs(u, {})
    BY ONLY <1>15, Zenon DEF RedPairs
  <1>17. ~IsRed(u, u.root)
    <2>1. t.root \in NodesOrNull
      BY ONLY <1>1, TreeFields
    <2>2. t.root # w
      BY ONLY <1>1, <1>2 DEF Linked
    <2>3. QED
      BY ONLY <1>1, <1>2, <1>11, <1>12, <2>1, <2>2 DEF IsRed, NodesOrNull
  <1>18. p \in R[u.root]
    BY ONLY <1>2, <1>10
  <1>19. Deficit(u, R, K, x, p, s)
    BY ONLY <1>1, <1>10, <1>11, <1>13, <1>16, <1>17, <1>18 DEF Deficit
  <1>20. QED
    BY ONLY <1>10, <1>11, <1>13, <1>19, <1>o
(* The far nephew is red: the sibling takes the place and the colour of    *)
(* the parent, which turns black, like the far nephew. Nothing is missing. *)
LEMMA FarNephew ==
  ASSUME NEW t, NEW S, NEW H, NEW x, NEW p, NEW s, Deficit(t, S, H, x, p, s),
         NEW w, w = t.child[Other(s)][p], NEW near, near = t.child[s][w],
         NEW far, far = t.child[Other(s)][w],
         ~IsRed(t, w), IsRed(t, far),
         NEW v, Recoloured(t, v, w, t.color[p], p, Black, far, Black),
         NEW u, u = Rotate(v, p, s)
  PROVE  \E R, K : /\ Settled(u, R, K) /\ R[u.root] = S[t.root] /\ ~IsRed(u, x)
  <1> PICK o : o = Other(s)
    OBVIOUS
  <1> PICK g : g = t.parent[p]
    OBVIOUS
  <1> PICK e : e = SideOf(t, p)
    OBVIOUS
  <1>o. /\ o = Other(s) /\ g = t.parent[p] /\ e = SideOf(t, p)
        /\ ~IsRed(t, w) /\ IsRed(t, far) /\ u = Rotate(v, p, s)
    OBVIOUS
  <1>d. /\ Deficit(t, S, H, x, p, s) /\ o = Other(s)
        /\ w = t.child[Other(s)][p] /\ near = t.child[s][w] /\ far = t.child[Other(s)][w]
    OBVIOUS
  <1>1. /\ t \in TreeType /\ p \in Keys /\ s \in Sides
        /\ t.child[s][p] = x /\ t.child[o][p] = w
        /\ t.child[s][w] = near /\ t.child[o][w] = far
        /\ x \in NodesOrNull /\ x # p /\ x # w /\ (x # Null => t.parent[x] = p)
        /\ w \in Keys /\ w # p /\ t.parent[w] = p
        /\ near \in NodesOrNull /\ near # w /\ near # p
        /\ far \in NodesOrNull /\ far # w /\ far # p
        /\ near # Null => near # x /\ near # far /\ t.parent[near] = w
        /\ far # Null => far # x /\ near # far /\ t.parent[far] = w
        /\ Red # Black /\ w # Null /\ p # Null
    BY ONLY <1>d, DeficitFacts
  <1>2. /\ Shape(t, S) /\ Linked(t) /\ RedPairs(t, {}) /\ ~IsRed(t, x) /\ ~IsRed(t, t.root)
        /\ p \in S[t.root] /\ Level(t, H, p, s) /\ Parts(t, S) /\ Ordered(t, S)
        /\ \A k \in Keys : LevelAt(t, H, p, s, k)
    BY ONLY <1>d, DeficitFacts
  <1>s. o \in Sides /\ o # s /\ Other(o) = s /\ \A d \in Sides : d = s \/ d = o
    BY ONLY <1>d, DeficitFacts
  <1>h. /\ H \in [NodesOrNull -> Nat \ {0}] /\ H[Null] = 1
        /\ H[x] \in Nat \ {0} /\ H[near] \in Nat \ {0} /\ H[far] \in Nat \ {0}
        /\ H[p] = H[x] + Weight(t, p) + 1
        /\ H[w] = H[x] + 1
        /\ H[w] = H[near] + Weight(t, w)
        /\ H[w] = H[far] + Weight(t, w)
    BY ONLY <1>d, DeficitFacts
  <1>3. far \in Keys /\ t.color[far] = Red /\ far # Null /\ t.color[w] = Black
    <2>1. far \in Keys /\ t.color[far] = Red /\ far # Null
      BY ONLY <1>1, <1>o DEF IsRed, NodesOrNull
    <2>2. t.color[w] \in {Red, Black} /\ t.color[w] # Red
      BY ONLY <1>1, <1>o, TreeFields DEF IsRed
    <2>3. QED
      BY ONLY <2>1, <2>2
  <1>5. /\ Repainted(t, v) /\ v.root = t.root /\ v.child = t.child /\ v.parent = t.parent
        /\ \A k \in Keys : v.color[k] = IF k = far THEN Black ELSE IF k = p THEN Black
                                        ELSE IF k = w THEN t.color[p] ELSE t.color[k]
    BY ONLY Recoloured(t, v, w, t.color[p], p, Black, far, Black) DEF Recoloured, Repainted
  <1> PICK c : c = Weight(t, p)
    OBVIOUS
  <1>w. /\ c = Weight(t, p) /\ c \in Nat /\ Weight(t, w) = 1 /\ Weight(t, far) = 0
        /\ Weight(v, w) = c /\ Weight(v, p) = 1 /\ Weight(v, far) = 1
        /\ \A k \in Keys : k # w /\ k # p /\ k # far => Weight(v, k) = Weight(t, k)
    BY ONLY <1>1, <1>3, <1>5, c = Weight(t, p) DEF Weight
  <1> PICK h : h = H[x] + 1
    OBVIOUS
  <1> PICK K0 : K0 = [H EXCEPT ![far] = h]
    OBVIOUS
  <1>6. /\ K0 \in [NodesOrNull -> Nat \ {0}] /\ K0[far] = h /\ h = H[x] + 1 /\ h \in Nat \ {0}
        /\ \A k \in NodesOrNull : k # far => K0[k] = H[k]
    <2>1. far \in NodesOrNull /\ h \in Nat \ {0} /\ h = H[x] + 1
      BY ONLY <1>1, <1>h, h = H[x] + 1
    <2>2. QED
      BY ONLY <1>h, <2>1, K0 = [H EXCEPT ![far] = h]
  <1>7. /\ K0[Null] = 1 /\ K0[x] = H[x] /\ K0[p] = H[x] + c + 1 /\ K0[near] = H[x]
        /\ K0[w] = H[x] + 1
    <2>1. Null \in NodesOrNull /\ p \in NodesOrNull /\ w \in NodesOrNull
      BY ONLY <1>1 DEF NodesOrNull
    <2>2. H[near] = H[x]
      BY ONLY <1>h, <1>w
    <2>3. near # far /\ x # far
      BY ONLY <1>1, <1>3
    <2>4. QED
      BY ONLY <1>1, <1>3, <1>6, <1>h, <1>w, <2>1, <2>2, <2>3
  <1>8. HeightsFit(v, K0, p, s, w, near, Null, "left", h)
    <2>1. \A k \in Keys : \A d : Lack(Null, "left", k, d) = 0
      BY RbTreeAssumption DEF Lack
    <2>4. h = K0[v.child[s][p]] + Weight(v, p) + Lack(Null, "left", p, s)
      BY ONLY <1>1, <1>5, <1>6, <1>7, <1>h, <1>w, <2>1
    <2>5. h = K0[near] + Weight(v, p) + Lack(Null, "left", p, Other(s))
      BY ONLY <1>1, <1>6, <1>7, <1>h, <1>w, <2>1
    <2>6. K0[p] = h + Weight(v, w) + Lack(Null, "left", w, s)
      BY ONLY <1>1, <1>6, <1>7, <1>h, <1>w, <2>1
    <2>7. K0[p] = K0[v.child[Other(s)][w]] + Weight(v, w) + Lack(Null, "left", w, Other(s))
      BY ONLY <1>1, <1>5, <1>6, <1>7, <1>h, <1>o, <1>w, <2>1
    <2>8. ASSUME NEW k \in Keys \ {p, w}, NEW d \in Sides
          PROVE  K0[k] = K0[v.child[d][k]] + Weight(v, k) + Lack(Null, "left", k, d)
      <3>1. H[k] = H[t.child[d][k]] + Weight(t, k) + Lack(p, s, k, d)
        <4>1. LevelAt(t, H, p, s, k) /\ d \in Sides
          BY <1>2
        <4>2. QED
          BY ONLY <4>1 DEF LevelAt
      <3>2. Lack(p, s, k, d) = 0 /\ Lack(Null, "left", k, d) = 0
        BY ONLY <2>1, <2>8 DEF Lack
      <3>3. t.child[d][k] \in NodesOrNull /\ k \in NodesOrNull /\ t.child[d][k] # far
        <4>1. t.child[d][k] \in NodesOrNull /\ k \in NodesOrNull
          BY ONLY <1>1, <2>8, TreeFields DEF NodesOrNull
        <4>2. t.child[d][k] # Null => t.parent[t.child[d][k]] = k
          BY ONLY <1>2, <2>8, ChildrenDiffer
        <4>3. QED
          BY ONLY <1>1, <1>3, <2>8, <4>1, <4>2
      <3>4. K0[t.child[d][k]] = H[t.child[d][k]] /\ H[t.child[d][k]] \in Nat
        BY ONLY <1>6, <1>h, <3>3
      <3>5. CASE k = far
        <4>1. H[far] = H[x]
          BY ONLY <1>h, <1>w
        <4>2. H[t.child[d][k]] = H[x]
          BY ONLY <1>h, <1>w, <3>1, <3>2, <3>4, <3>5, <4>1
        <4>3. QED
          BY ONLY <1>5, <1>6, <1>h, <1>w, <3>2, <3>4, <3>5, <4>2
      <3>6. CASE k # far
        <4>1. Weight(v, k) = Weight(t, k) /\ K0[k] = H[k]
          BY ONLY <1>6, <1>w, <2>8, <3>3, <3>6
        <4>2. QED
          BY ONLY <1>5, <3>1, <3>2, <3>4, <4>1
      <3>7. QED
        BY ONLY <3>5, <3>6
    <2>9. \A k \in Keys \ {p, w} : LevelAt(v, K0, Null, "left", k)
      BY ONLY <2>8 DEF LevelAt
    <2>10. QED
      BY ONLY <1>6, <1>7, <2>4, <2>5, <2>6, <2>7, <2>9 DEF HeightsFit
  <1>9. /\ Rotated(v, u, p, s, w, near, g, e)
        /\ \E R, K : Shape(u, R) /\ R[u.root] = S[t.root] /\ Level(u, K, Null, "left")
    <2>1. /\ w = t.child[Other(s)][p] /\ near = t.child[s][w] /\ g = t.parent[p]
          /\ e = SideOf(t, p) /\ u = Rotate(v, p, s) /\ p \in Keys /\ s \in Sides /\ w \in Keys
          /\ Shape(t, S) /\ Repainted(t, v)
      BY ONLY <1>1, <1>2, <1>5, <1>o
    <2>2. QED
      BY ONLY <1>8, <2>1, PaintAndRotate
  <1>10. PICK R, K : Shape(u, R) /\ R[u.root] = S[t.root] /\ Level(u, K, Null, "left")
    BY ONLY <1>9
  <1>11. /\ u.color = v.color /\ u.root = IF g = Null THEN w ELSE t.root
         /\ u.parent[p] = w /\ u.parent[w] = g /\ (near # Null => u.parent[near] = p)
         /\ \A k \in Keys \ {p, w, near} : u.parent[k] = t.parent[k]
    BY ONLY <1>1, <1>5, <1>9 DEF Rotated
  <1>12. \A k \in Keys : u.color[k] = IF k = far THEN Black ELSE IF k = p THEN Black
                                      ELSE IF k = w THEN t.color[p] ELSE t.color[k]
    BY ONLY <1>5, <1>11
  <1>13. ~IsRed(u, x) /\ ~IsRed(u, p) /\ ~IsRed(u, far)
    BY ONLY <1>1, <1>2, <1>3, <1>12 DEF IsRed, NodesOrNull
  <1>14. IsRed(t, p) => ~IsRed(t, g)
    BY ONLY <1>1, <1>2, <1>o, Zenon DEF RedPairs
  <1>g. g \in NodesOrNull /\ g # p /\ g # w /\ (t.root = p => g = Null)
    <2>1. g \in NodesOrNull
      BY ONLY <1>1, <1>o, TreeFields
    <2>2. g # p /\ g # w
      <3>1. g = Null => g # p /\ g # w
        BY ONLY <1>1
      <3>2. ASSUME g # Null PROVE g # p /\ g # w
        <4>1. PICK d \in Sides : t.child[d][g] = p
          BY ONLY <1>1, <1>2, <1>o, <3>2 DEF Linked
        <4>2. g \in Keys
          BY ONLY <2>1, <3>2 DEF NodesOrNull
        <4>3. g # p
          BY ONLY <1>1, <1>2, <4>1, <4>2, ChildrenDiffer
        <4>4. t.child[d][w] # p
          BY ONLY <1>1, <1>2, <1>s, <4>1, NoCircleOfTwo
        <4>5. QED
          BY ONLY <4>1, <4>3, <4>4
      <3>3. QED
        BY ONLY <3>1, <3>2
    <2>3. QED
      BY ONLY <1>1, <1>2, <1>o, <2>1, <2>2 DEF Linked
  <1>15. ASSUME NEW k \in Keys, IsRed(u, k), IsRed(u, u.parent[k]) PROVE FALSE
    <2>1. k # p /\ k # far
      BY ONLY <1>13, <1>15
    <2>2. k # near
      BY ONLY <1>11, <1>13, <1>15, RbTreeAssumption
    <2>3. CASE k = w
      <3>1. t.color[p] = Red /\ IsRed(t, p)
        BY ONLY <1>1, <1>3, <1>12, <1>15, <2>3 DEF IsRed
      <3>2. IsRed(u, g)
        BY ONLY <1>11, <1>15, <2>3
      <3>3. g \in Keys /\ g # far
        <4>1. g = far => t.child[o][w] = g
          BY ONLY <1>1
        <4>2. g \in Keys
          BY ONLY <1>g, <3>2 DEF IsRed, NodesOrNull
        <4>3. \E d \in Sides : t.child[d][g] = p
          BY ONLY <1>1, <1>2, <1>o, <4>2, RbTreeAssumption DEF Linked
        <4>4. g # far
          <5>1. SUFFICES ASSUME g = far PROVE FALSE
            OBVIOUS
          <5>2. p \in S[far] /\ S[far] \subseteq S[w] /\ S[w] \subseteq S[p] /\ p \notin S[w]
            <6>1. p \in S[p] /\ p \notin S[t.child[o][p]] /\ S[t.child[o][p]] \subseteq S[p]
              BY ONLY <1>1, <1>2, <1>s, BelowShrinks
            <6>2. S[t.child[o][w]] \subseteq S[w]
              BY ONLY <1>1, <1>2, <1>s, BelowShrinks
            <6>3. S[p] \subseteq S[g]
              BY ONLY <1>1, <1>2, <4>2, <4>3, BelowShrinks
            <6>4. QED
              BY ONLY <1>1, <5>1, <6>1, <6>2, <6>3
          <5>3. QED
            BY ONLY <5>2
        <4>5. QED
          BY ONLY <4>2, <4>4
      <3>4. IsRed(t, g)
        BY ONLY <1>12, <1>g, <3>2, <3>3 DEF IsRed
      <3>5. QED
        BY ONLY <1>14, <3>1, <3>4
    <2>4. CASE k # w
      <3>1. u.parent[k] = t.parent[k] /\ t.parent[k] \in NodesOrNull
        BY ONLY <1>1, <1>11, <1>15, <2>1, <2>2, <2>4, TreeFields
      <3>2. t.parent[k] \in Keys /\ u.color[t.parent[k]] = Red /\ t.color[k] = Red
        BY ONLY <1>12, <1>15, <2>1, <2>4, <3>1 DEF IsRed, NodesOrNull
      <3>3. t.parent[k] # p /\ t.parent[k] # far
        BY ONLY <1>13, <1>15, <3>1
      <3>4. t.parent[k] # w
        <4>1. SUFFICES ASSUME t.parent[k] = w PROVE FALSE
          OBVIOUS
        <4>2. \E d \in Sides : t.child[d][w] = k
          BY ONLY <1>1, <1>2, <1>15, <4>1 DEF Linked
        <4>3. QED
          BY ONLY <1>1, <1>s, <2>1, <2>2, <4>2
      <3>5. IsRed(t, k) /\ IsRed(t, t.parent[k])
        BY ONLY <1>12, <1>15, <3>2, <3>3, <3>4, RbTreeAssumption DEF IsRed
      <3>6. QED
        BY ONLY <1>2, <1>15, <3>5, Zenon DEF RedPairs
    <2>5. QED
      BY ONLY <2>3, <2>4
  <1>16. RedPairs(u, {})
    BY ONLY <1>15, Zenon DEF RedPairs
  <1>17. ~IsRed(u, u.root)
    <2>1. t.root \in NodesOrNull
      BY ONLY <1>1, TreeFields
    <2>2. t.root # w
      BY ONLY <1>1, <1>2 DEF Linked
    <2>3. CASE g = Null
      <3>1. p = t.root
        BY ONLY <1>1, <1>2, <1>o, <2>3, InTheTree
      <3>2. t.color[p] # Red
        BY ONLY <1>1, <1>2, <3>1 DEF IsRed
      <3>3. QED
        BY ONLY <1>1, <1>3, <1>11, <1>12, <2>3, <3>2 DEF IsRed
    <2>4. CASE g # Null
      BY ONLY <1>1, <1>2, <1>11, <1>12, <1>g, <2>1, <2>2, <2>4 DEF IsRed, NodesOrNull
    <2>5. QED
      BY ONLY <2>3, <2>4
  <1>18. Settled(u, R, K)
    BY ONLY <1>10, <1>16, <1>17 DEF Settled
  <1>19. QED
    BY ONLY <1>10, <1>13, <1>18
(* While the loop runs the side of x is the one that is lacking.           *)
LEMMA LackingDeficit ==
  ASSUME NEW t, NEW S, NEW H, NEW x, NEW p, NEW f, Lacking(t, S, H, x, p, f),
         x # t.root, ~IsRed(t, x)
  PROVE  /\ Deficit(t, S, H, x, p, f)
         /\ f = IF x = t.child["left"][p] THEN "left" ELSE "right"
  <1>1. /\ Shape(t, S) /\ t \in TreeType /\ Parts(t, S) /\ f \in Sides /\ Level(t, H, p, f)
        /\ RedNear(t, x)
        /\ (IsRed(t, t.root) => t.root = x)
        /\ p \in S[t.root] /\ t.child[f][p] = x
    BY DEF Lacking, Shape
  <1>2. t.root \in NodesOrNull
    BY ONLY <1>1, TreeFields
  <1>3. p \in Keys
    BY ONLY <1>1, <1>2 DEF Parts
  <1>4. RedPairs(t, {})
    <2>1. ASSUME NEW k \in Keys, IsRed(t, k), IsRed(t, t.parent[k]) PROVE FALSE
      <3>1. k = x \/ t.parent[k] = x
        BY ONLY <1>1, <2>1, Zenon DEF RedNear
      <3>2. ~IsRed(t, x)
        OBVIOUS
      <3>3. QED
        BY ONLY <2>1, <3>1, <3>2
    <2>2. QED
      BY ONLY <2>1, Zenon DEF RedPairs
  <1>5. ~IsRed(t, t.root)
    BY <1>1
  <1>6. Deficit(t, S, H, x, p, f)
    BY <1>1, <1>3, <1>4, <1>5 DEF Deficit
  <1>7. x # t.child[Other(f)][p]
    BY ONLY <1>6, DeficitFacts
  <1>8. f = "left" \/ (f = "right" /\ Other(f) = "left" /\ f # "left")
    BY ONLY <1>1 DEF Sides, Other
  <1>9. QED
    BY ONLY <1>1, <1>6, <1>7, <1>8

(* The first part of an iteration: after it the sibling is black.          *)
LEMMA BlackSibling ==
  ASSUME NEW t, NEW S, NEW H, NEW x, NEW p, NEW s, Deficit(t, S, H, x, p, s),
         NEW w, w = t.child[Other(s)][p],
         NEW u, u = IF IsRed(t, w)
                    THEN Rotate(Paint(Paint(t, w, Black), p, Red), p, s) ELSE t
  PROVE  \E R, K : /\ Deficit(u, R, K, x, p, s) /\ R[u.root] = S[t.root]
                   /\ ~IsRed(u, u.child[Other(s)][p])
  <1>1. CASE ~IsRed(t, w)
    <2>1. u = t
      BY <1>1
    <2>2. QED
      BY <1>1, <2>1
  <1>2. CASE IsRed(t, w)
    <2> PICK v : v = Paint(Paint(t, w, Black), p, Red)
      OBVIOUS
    <2>1. v = Paint(Paint(t, w, Black), p, Red) /\ u = Rotate(v, p, s)
      BY <1>2
    <2>2. t \in TreeType /\ w \in NodesOrNull /\ p \in NodesOrNull
      <3>1. t \in TreeType /\ p \in Keys /\ w \in Keys
        BY ONLY Deficit(t, S, H, x, p, s), w = t.child[Other(s)][p], DeficitFacts
      <3>2. QED
        BY ONLY <3>1 DEF NodesOrNull
    <2>3. Recoloured(t, v, w, Black, p, Red, p, Red)
      BY ONLY <2>1, <2>2, PaintTwo
    <2>4. Deficit(t, S, H, x, p, s) /\ w = t.child[Other(s)][p]
      OBVIOUS
    <2>5. QED
      BY ONLY <1>2, <2>1, <2>3, <2>4, RedSibling
  <1>3. QED
    BY ONLY <1>1, <1>2

(* What the last part of an iteration computes.                            *)
EndsWith(t, p, s, w, near, far, t2, w2, t3, u) ==
  /\ w = t.child[Other(s)][p] /\ near = t.child[s][w] /\ far = t.child[Other(s)][w]
  /\ t2 = IF IsRed(t, far) THEN t
          ELSE Rotate(Paint(Paint(t, near, Black), w, Red), w, Other(s))
  /\ w2 = t2.child[Other(s)][p]
  /\ t3 = Paint(Paint(Paint(t2, w2, t2.color[p]), p, Black),
                t2.child[Other(s)][w2], Black)
  /\ u = Rotate(t3, p, s)

(* The last part of an iteration, with which the loop ends: a nephew is    *)
(* red.                                                                    *)
LEMMA LastTurn ==
  ASSUME NEW t, NEW S, NEW H, NEW x, NEW p, NEW s, Deficit(t, S, H, x, p, s),
         NEW w, NEW near, NEW far, NEW t2, NEW w2, NEW t3, NEW u,
         EndsWith(t, p, s, w, near, far, t2, w2, t3, u),
         ~IsRed(t, w), IsRed(t, near) \/ IsRed(t, far)
  PROVE  \E R, K : /\ Settled(u, R, K) /\ R[u.root] = S[t.root] /\ ~IsRed(u, x)
  <1> PICK far2 : far2 = t2.child[Other(s)][w2]
    OBVIOUS
  <1>0. /\ w2 = t2.child[Other(s)][p] /\ far2 = t2.child[Other(s)][w2] /\ u = Rotate(t3, p, s)
        /\ t3 = Paint(Paint(Paint(t2, w2, t2.color[p]), p, Black), far2, Black)
    BY ONLY far2 = t2.child[Other(s)][w2], EndsWith(t, p, s, w, near, far, t2, w2, t3, u), Zenon
       DEF EndsWith
  <1>a. /\ w = t.child[Other(s)][p] /\ near = t.child[s][w] /\ far = t.child[Other(s)][w]
        /\ t2 = IF IsRed(t, far) THEN t
                ELSE Rotate(Paint(Paint(t, near, Black), w, Red), w, Other(s))
    BY ONLY EndsWith(t, p, s, w, near, far, t2, w2, t3, u) DEF EndsWith
  <1>1. \E S2, H2 : /\ Deficit(t2, S2, H2, x, p, s) /\ S2[t2.root] = S[t.root]
                    /\ ~IsRed(t2, w2) /\ IsRed(t2, far2)
    <2>1. CASE IsRed(t, far)
      <3>1. t2 = t
        BY ONLY <1>a, <2>1
      <3>2. w2 = w /\ far2 = far
        BY ONLY <1>0, <1>a, <3>1
      <3>3. Deficit(t, S, H, x, p, s) /\ ~IsRed(t, w)
        OBVIOUS
      <3>4. QED
        BY ONLY <2>1, <3>1, <3>2, <3>3
    <2>2. CASE ~IsRed(t, far)
      <3>0. /\ Deficit(t, S, H, x, p, s) /\ w = t.child[Other(s)][p] /\ near = t.child[s][w]
            /\ far = t.child[Other(s)][w] /\ ~IsRed(t, w)
        BY <1>a
      <3> PICK v : v = Paint(Paint(t, near, Black), w, Red)
        OBVIOUS
      <3>1. v = Paint(Paint(t, near, Black), w, Red) /\ t2 = Rotate(v, w, Other(s)) /\ IsRed(t, near)
        BY ONLY <1>a, <2>2, IsRed(t, near) \/ IsRed(t, far), v = Paint(Paint(t, near, Black), w, Red)
      <3>2. t \in TreeType /\ w \in NodesOrNull /\ near \in NodesOrNull
        <4>1. t \in TreeType /\ near \in NodesOrNull /\ w \in Keys
          BY ONLY <3>0, DeficitFacts
        <4>2. QED
          BY ONLY <4>1 DEF NodesOrNull
      <3>3. Recoloured(t, v, near, Black, w, Red, w, Red)
        BY ONLY <3>1, <3>2, PaintTwo
      <3>4. \E R, K : /\ Deficit(t2, R, K, x, p, s) /\ R[t2.root] = S[t.root]
                      /\ t2.child[Other(s)][p] = near /\ ~IsRed(t2, near)
                      /\ t2.child[Other(s)][near] = w /\ IsRed(t2, w)
        <4>1. t2 = Rotate(v, w, Other(s)) /\ IsRed(t, near)
          BY ONLY <3>1
        <4>2. QED
          <5>1. Nephews(t, p, s, w, near, far) /\ Deficit(t, S, H, x, p, s) /\ ~IsRed(t, w)
            BY ONLY <3>0 DEF Nephews
          <5>2. QED
            BY ONLY <2>2, <3>3, <4>1, <5>1, NearNephew
      <3>5. QED
        BY ONLY <1>0, <3>4
    <2>3. QED
      BY ONLY <2>1, <2>2
  <1>2. PICK S2, H2 : /\ Deficit(t2, S2, H2, x, p, s) /\ S2[t2.root] = S[t.root]
                      /\ ~IsRed(t2, w2) /\ IsRed(t2, far2)
    BY ONLY <1>1
  <1>3. /\ t2 \in TreeType /\ w2 \in NodesOrNull /\ p \in NodesOrNull /\ far2 \in NodesOrNull
        /\ t2.color[p] \in {Red, Black}
    <2>1. t2 \in TreeType /\ p \in Keys /\ w2 \in Keys /\ far2 \in NodesOrNull
      BY ONLY <1>0, <1>2, DeficitFacts
    <2>2. QED
      BY ONLY <2>1, TreeFields DEF NodesOrNull
  <1>4. Recoloured(t2, t3, w2, t2.color[p], p, Black, far2, Black)
    BY ONLY <1>0, <1>3, PaintThree
  <1>5. \E R, K : /\ Settled(u, R, K) /\ R[u.root] = S2[t2.root] /\ ~IsRed(u, x)
    <2> PICK near2 : near2 = t2.child[s][w2]
      OBVIOUS
    <2>1. /\ w2 = t2.child[Other(s)][p] /\ near2 = t2.child[s][w2]
          /\ far2 = t2.child[Other(s)][w2] /\ u = Rotate(t3, p, s)
      BY ONLY <1>0, near2 = t2.child[s][w2]
    <2>2. QED
      BY ONLY <1>2, <1>4, <2>1, FarNephew
  <1>6. QED
    BY ONLY <1>2, <1>5
(* An iteration of the loop of RebalanceForErase keeps the keys of the     *)
(* tree; the lack moves up or ends.                                        *)
LEMMA RebalanceStepKeeps ==
  ASSUME RebalanceStep, NEW S, NEW H, NEW f, Lacking(tree, S, H, call.x, call.parent, f)
  PROVE  \E R, K :
           /\ R[tree'.root] = S[tree.root]
           /\ \/ \E y, q, e : /\ Lacking(tree', R, K, y, q, e)
                              /\ call' = [call EXCEPT !.x = y, !.parent = q]
              \/ /\ Settled(tree', R, K) /\ ~IsRed(tree', call.x)
                 /\ call' = [call EXCEPT !.kind = "rebalanced"]
  <1> DEFINE x    == call.x
             p    == call.parent
             s    == IF x = tree.child["left"][p] THEN "left" ELSE "right"
             o    == Other(s)
             w0   == tree.child[o][p]
             t1   == IF IsRed(tree, w0)
                     THEN Rotate(Paint(Paint(tree, w0, Black), p, Red), p, s) ELSE tree
             w1   == t1.child[o][p]
             near == t1.child[s][w1]
             far  == t1.child[o][w1]
             t2   == IF IsRed(t1, far) THEN t1
                     ELSE Rotate(Paint(Paint(t1, near, Black), w1, Red), w1, o)
             w2   == t2.child[o][p]
             t3   == Paint(Paint(Paint(t2, w2, t2.color[p]), p, Black),
                           t2.child[o][w2], Black)
  <1>2. IF ~IsRed(t1, near) /\ ~IsRed(t1, far)
        THEN /\ tree' = Paint(t1, w1, Red)
             /\ call' = [call EXCEPT !.x = p, !.parent = t1.parent[p]]
        ELSE /\ tree' = Rotate(t3, p, s)
             /\ call' = [call EXCEPT !.kind = "rebalanced"]
    BY ONLY RebalanceStep, Zenon DEF RebalanceStep
  <1>e. EndsWith(t1, p, s, w1, near, far, t2, w2, t3, Rotate(t3, p, s))
    BY ONLY Zenon DEF EndsWith
  <1> HIDE DEF t2, w2, t3
  <1>n. /\ w1 = t1.child[o][p] /\ near = t1.child[s][w1] /\ far = t1.child[o][w1] /\ o = Other(s)
    BY ONLY Zenon
  <1> HIDE DEF w1, near, far
  <1>m. /\ w0 = tree.child[o][p]
        /\ t1 = IF IsRed(tree, w0)
                THEN Rotate(Paint(Paint(tree, w0, Black), p, Red), p, s) ELSE tree
    BY ONLY Zenon
  <1> HIDE DEF t1, w0, o
  <1>c. x = call.x /\ p = call.parent /\ s = IF x = tree.child["left"][p] THEN "left" ELSE "right"
    OBVIOUS
  <1>d. x # tree.root /\ ~IsRed(tree, x)
    BY ONLY RebalanceStep DEF RebalanceStep
  <1> HIDE DEF x, p, s
  <1>1. Deficit(tree, S, H, x, p, s)
    <2>1. Lacking(tree, S, H, x, p, f)
      BY ONLY <1>c, Lacking(tree, S, H, call.x, call.parent, f)
    <2>2. Deficit(tree, S, H, x, p, f) /\ f = IF x = tree.child["left"][p] THEN "left" ELSE "right"
      BY ONLY <1>d, <2>1, LackingDeficit
    <2>3. QED
      BY ONLY <1>c, <2>2
  <1>3. \E R, K : /\ Deficit(t1, R, K, x, p, s) /\ R[t1.root] = S[tree.root]
                  /\ ~IsRed(t1, t1.child[Other(s)][p])
    <2>1. Deficit(tree, S, H, x, p, s)
      BY ONLY <1>1
    <2>2. w0 = tree.child[Other(s)][p]
      BY ONLY <1>m, <1>n
    <2>3. t1 = IF IsRed(tree, w0)
               THEN Rotate(Paint(Paint(tree, w0, Black), p, Red), p, s) ELSE tree
      BY ONLY <1>m
    <2>4. QED
      BY ONLY <2>1, <2>2, <2>3, BlackSibling
  <1>4. PICK S1, H1 : /\ Deficit(t1, S1, H1, x, p, s) /\ S1[t1.root] = S[tree.root]
                      /\ ~IsRed(t1, t1.child[Other(s)][p])
    BY ONLY <1>3
  <1>5. /\ w1 = t1.child[Other(s)][p] /\ near = t1.child[s][w1] /\ far = t1.child[Other(s)][w1]
    BY ONLY <1>n
  <1>6. ~IsRed(t1, w1)
    BY ONLY <1>4, <1>5
  <1>7. CASE ~IsRed(t1, near) /\ ~IsRed(t1, far)
    <2> PICK q : q = t1.parent[p]
      OBVIOUS
    <2> PICK e : e = SideOf(t1, p)
      OBVIOUS
    <2>0. q = t1.parent[p] /\ e = SideOf(t1, p)
      OBVIOUS
    <2>1. tree' = Paint(t1, w1, Red) /\ call' = [call EXCEPT !.x = p, !.parent = q]
      BY ONLY <1>2, <1>7, <2>0
    <2>2. t1 \in TreeType /\ w1 \in NodesOrNull
      <3>1. t1 \in TreeType /\ w1 \in Keys
        BY ONLY <1>4, <1>5, DeficitFacts
      <3>2. QED
        BY ONLY <3>1 DEF NodesOrNull
    <2>3. Painted(t1, tree', w1, Red)
      BY ONLY <2>1, <2>2, PaintFields
    <2>4. \E K : Lacking(tree', S1, K, p, q, e) /\ tree'.root = t1.root
      <3>1. Deficit(t1, S1, H1, x, p, s)
        BY ONLY <1>4
      <3>2. QED
        BY ONLY <1>5, <1>6, <1>7, <2>0, <2>3, <3>1, BlackNephews
    <2>5. QED
      BY ONLY <1>4, <2>1, <2>4
  <1>8. CASE ~(~IsRed(t1, near) /\ ~IsRed(t1, far))
    <2>1. tree' = Rotate(t3, p, s) /\ call' = [call EXCEPT !.kind = "rebalanced"]
      BY ONLY <1>2, <1>8
    <2>2. \E R, K : /\ Settled(tree', R, K) /\ R[tree'.root] = S1[t1.root] /\ ~IsRed(tree', x)
      <3>1. Deficit(t1, S1, H1, x, p, s) /\ (IsRed(t1, near) \/ IsRed(t1, far))
        BY ONLY <1>4, <1>8
      <3>2. EndsWith(t1, p, s, w1, near, far, t2, w2, t3, tree')
        BY ONLY <1>e, <2>1
      <3>3. QED
        BY ONLY <1>6, <3>1, <3>2, LastTurn
    <2>3. QED
      BY ONLY <1>4, <1>c, <2>1, <2>2
  <1>9. QED
    BY ONLY <1>7, <1>8-----------------------------------------------------------------------------
(* Insert.                                                                 *)

(* The keys that are not in the tree stand alone.                          *)
LEMMA StandsAlone ==
  ASSUME NEW t, NEW S, Shape(t, S), NEW n \in Keys, n \notin S[t.root]
  PROVE  /\ S[n] = {n} /\ t.parent[n] = Null /\ \A d \in Sides : t.child[d][n] = Null
         /\ \A m \in Keys, d \in Sides : t.child[d][m] # n
         /\ \A m \in Keys : t.parent[m] # n
         /\ \A m \in NodesOrNull : n \in S[m] => m = n
  <1>0. t \in TreeType /\ Parts(t, S) /\ Ordered(t, S) /\ Linked(t) /\ Apart(t, S)
    BY DEF Shape
  <1>1. t.parent[n] = Null /\ \A d \in Sides : t.child[d][n] = Null
    BY <1>0 DEF Apart
  <1>2. S[n] = {n}
    <2>1. "left" \in Sides /\ Other("left") \in Sides
      BY DEF Sides, Other
    <2>2. S[n] = {n} \cup S[t.child["left"][n]] \cup S[t.child[Other("left")][n]]
      BY <1>0, <2>1 DEF Parts
    <2>3. S[Null] = {}
      BY <1>0 DEF Parts
    <2>4. QED
      BY ONLY <1>1, <2>1, <2>2, <2>3
  <1>3. n # Null
    BY RbTreeAssumption
  <1>4. ASSUME NEW m \in Keys, NEW d \in Sides PROVE t.child[d][m] # n
    <2>1. t.child[d][m] = n => t.parent[n] = m
      BY ONLY <1>0, <1>3, <1>4 DEF Linked
    <2>2. m # Null
      BY ONLY <1>4, RbTreeAssumption
    <2>3. QED
      BY ONLY <1>1, <2>1, <2>2
  <1>5. ASSUME NEW m \in Keys PROVE t.parent[m] # n
    <2>1. t.parent[m] = n => \E d \in Sides : t.child[d][n] = m
      BY ONLY <1>0, <1>3, <1>5 DEF Linked
    <2>2. m # Null
      BY ONLY <1>5, RbTreeAssumption
    <2>3. QED
      BY ONLY <1>1, <2>1, <2>2
  <1>6. ASSUME NEW m \in NodesOrNull, n \in S[m] PROVE m = n
    <2>1. SUFFICES ASSUME m # n PROVE FALSE
      OBVIOUS
    <2>2. t.parent[n] \in S[m]
      BY <1>6, <2>1, ParentWithin
    <2>3. S[m] \subseteq Keys
      BY <1>0, <1>6 DEF Parts
    <2>4. QED
      BY ONLY <1>1, <2>2, <2>3, RbTreeAssumption
  <1>7. QED
    BY ONLY <1>1, <1>2, <1>4, <1>5, <1>6

(* The first node.                                                         *)
LEMMA InsertFirst ==
  ASSUME NEW t, NEW S, NEW H, Settled(t, S, H), t.root = Null, NEW k \in Keys,
         NEW u, u = Paint([t EXCEPT !.root = k], k, Black)
  PROVE  \E R, K : Settled(u, R, K) /\ R[u.root] = S[t.root] \cup {k}
  <1>0. /\ Shape(t, S) /\ t \in TreeType /\ Parts(t, S) /\ Ordered(t, S) /\ Linked(t) /\ Apart(t, S)
        /\ H \in [NodesOrNull -> Nat \ {0}] /\ H[Null] = 1
        /\ \A n \in Keys : LevelAt(t, H, Null, "left", n)
    BY DEF Settled, Shape, Level
  <1> PICK t1 : t1 = [t EXCEPT !.root = k]
    OBVIOUS
  <1>1. t1 \in TreeType /\ t1.root = k /\ t1.child = t.child /\ t1.parent = t.parent /\ t1.color = t.color
    BY ONLY <1>0, t1 = [t EXCEPT !.root = k], k \in Keys DEF TreeType, NodesOrNull
  <1>2. Painted(t1, u, k, Black)
    <2>1. u = Paint(t1, k, Black) /\ k \in NodesOrNull
      BY DEF NodesOrNull
    <2>2. QED
      BY ONLY <1>1, <2>1, PaintFields
  <1>3. /\ u \in TreeType /\ u.root = k /\ u.child = t.child /\ u.parent = t.parent
        /\ \A n \in Keys : u.color[n] = IF n = k THEN Black ELSE t.color[n]
    BY ONLY <1>1, <1>2 DEF Painted
  <1>4. S[t.root] = {}
    BY <1>0 DEF Parts
  <1>5. \A n \in Keys : S[n] = {n} /\ t.parent[n] = Null /\ \A d \in Sides : t.child[d][n] = Null
    BY ONLY <1>0, <1>4, StandsAlone
  <1>6. Shape(u, S)
    <2>1. Parts(u, S) /\ Ordered(u, S)
      BY ONLY <1>0, <1>3 DEF Parts, Ordered
    <2>2. Linked(u)
      BY ONLY <1>3, <1>5, k \in Keys DEF Linked
    <2>3. Apart(u, S)
      BY ONLY <1>3, <1>5 DEF Apart
    <2>4. QED
      BY ONLY <1>3, <2>1, <2>2, <2>3 DEF Shape
  <1> PICK K : K = [H EXCEPT ![k] = 2]
    OBVIOUS
  <1>7. /\ K \in [NodesOrNull -> Nat \ {0}] /\ K[k] = 2 /\ K[Null] = 1
        /\ \A n \in NodesOrNull : n # k => K[n] = H[n]
    <2>1. k \in NodesOrNull /\ k # Null /\ Null \in NodesOrNull
      BY RbTreeAssumption DEF NodesOrNull
    <2>2. QED
      BY ONLY <1>0, <2>1, K = [H EXCEPT ![k] = 2]
  <1>8. ASSUME NEW n \in Keys, NEW d \in Sides
        PROVE  K[n] = K[u.child[d][n]] + Weight(u, n) + Lack(Null, "left", n, d)
    <2>1. Lack(Null, "left", n, d) = 0
      BY RbTreeAssumption DEF Lack
    <2>2. K[u.child[d][n]] = 1 /\ H[t.child[d][n]] = 1
      BY ONLY <1>0, <1>3, <1>5, <1>7, <1>8
    <2>3. CASE n = k
      <3>1. Weight(u, n) = 1
        BY ONLY <1>3, <1>8, <2>3 DEF Weight
      <3>2. QED
        BY ONLY <1>7, <2>1, <2>2, <2>3, <3>1
    <2>4. CASE n # k
      <3>1. Weight(u, n) = Weight(t, n) /\ K[n] = H[n]
        BY ONLY <1>3, <1>7, <1>8, <2>4 DEF Weight, NodesOrNull
      <3>2. H[n] = H[t.child[d][n]] + Weight(t, n) + Lack(Null, "left", n, d)
        BY ONLY <1>0, <1>8 DEF LevelAt
      <3>3. QED
        BY ONLY <2>2, <3>1, <3>2
    <2>5. QED
      BY ONLY <2>3, <2>4
  <1>9. Level(u, K, Null, "left")
    BY ONLY <1>7, <1>8 DEF Level, LevelAt
  <1>10. RedPairs(u, {})
    BY ONLY <1>3, <1>5 DEF RedPairs, IsRed
  <1>11. ~IsRed(u, u.root)
    BY ONLY <1>3, k \in Keys DEF IsRed, Red, Black
  <1>12. S[u.root] = S[t.root] \cup {k}
    BY ONLY <1>3, <1>4, <1>5, k \in Keys
  <1>13. QED
    BY ONLY <1>6, <1>9, <1>10, <1>11, <1>12 DEF Settled
(* A node k is hung, red, under p, whose child on that side is null.       *)
LEMMA InsertBelow ==
  ASSUME NEW t, NEW S, NEW H, Settled(t, S, H), t.root # Null, NEW k \in Keys,
         k \notin S[t.root], NEW p, p = Place(t, k),
         NEW u, u = Paint(Hang(t, p, Toward(k, p), k), k, Red)
  PROVE  \E R, K : Balancing(u, R, K, k) /\ R[u.root] = S[t.root] \cup {k}
  <1> PICK d : d = Toward(k, p)
    OBVIOUS
  <1>0. /\ Shape(t, S) /\ t \in TreeType /\ Parts(t, S) /\ Ordered(t, S) /\ Linked(t) /\ Apart(t, S)
        /\ RedPairs(t, {}) /\ ~IsRed(t, t.root)
        /\ H \in [NodesOrNull -> Nat \ {0}] /\ H[Null] = 1
        /\ \A n \in Keys : LevelAt(t, H, Null, "left", n)
    BY DEF Settled, Shape, Level
  <1>r. t.root \in NodesOrNull /\ t.root \in Keys /\ S[t.root] \subseteq Keys /\ t.root \in S[t.root]
    <2>1. t.root \in NodesOrNull /\ t.root \in Keys
      BY <1>0, TreeFields DEF NodesOrNull
    <2>2. S[t.root] \subseteq Keys
      BY ONLY <1>0, <2>1 DEF Parts
    <2>3. "left" \in Sides
      BY DEF Sides
    <2>4. QED
      BY ONLY <1>0, <2>1, <2>2, <2>3, BelowShrinks
  <1>1. /\ p \in S[t.root] /\ t.child[d][p] = Null
        /\ \A m \in S[t.root] : m # p => Toward(k, m) = Toward(p, m)
    <2>1. /\ Place(t, k) \in S[t.root]
          /\ t.child[Toward(k, Place(t, k))][Place(t, k)] = Null
          /\ \A m \in S[t.root] : m # Place(t, k) => Toward(k, m) = Toward(Place(t, k), m)
      BY <1>0, PlaceIs
    <2>2. QED
      BY ONLY <2>1, p = Place(t, k), d = Toward(k, p)
  <1>2. p \in Keys /\ p # k /\ d \in Sides /\ k # Null /\ p # Null /\ k \in NodesOrNull /\ k # t.root
        /\ d = Toward(k, p)
    BY ONLY <1>1, <1>r, TwoSides, k \notin S[t.root], k \in Keys, d = Toward(k, p), RbTreeAssumption
       DEF NodesOrNull
  <1>3. /\ S[k] = {k} /\ t.parent[k] = Null /\ (\A e \in Sides : t.child[e][k] = Null)
        /\ (\A m \in Keys, e \in Sides : t.child[e][m] # k)
        /\ (\A m \in Keys : t.parent[m] # k)
        /\ (\A m \in NodesOrNull : k \in S[m] => m = k)
    BY ONLY <1>0, StandsAlone, k \notin S[t.root], k \in Keys
  <1> PICK t1 : t1 = Hang(t, p, d, k)
    OBVIOUS
  <1>4. Hung(t, t1, p, d, k)
    BY ONLY <1>0, <1>2, HangFields, t1 = Hang(t, p, d, k)
  <1>5. Painted(t1, u, k, Red)
    <2>1. u = Paint(t1, k, Red) /\ t1 \in TreeType
      <3>1. u = Paint(t1, k, Red)
        BY ONLY u = Paint(Hang(t, p, Toward(k, p), k), k, Red), t1 = Hang(t, p, d, k),
                d = Toward(k, p)
      <3>2. QED
        BY ONLY <1>4, <3>1 DEF Hung
    <2>2. QED
      BY ONLY <1>2, <2>1, PaintFields
  <1>6. /\ u \in TreeType /\ u.root = t.root
        /\ \A e \in Sides, n \in Keys : u.child[e][n] = IF e = d /\ n = p THEN k ELSE t.child[e][n]
        /\ \A n \in Keys : u.parent[n] = IF n = k THEN p ELSE t.parent[n]
        /\ \A n \in Keys : u.color[n] = IF n = k THEN Red ELSE t.color[n]
    BY ONLY <1>4, <1>5 DEF Hung, Painted
  <1> PICK R : R = [n \in NodesOrNull |-> IF p \in S[n] THEN S[n] \cup {k} ELSE S[n]]
    OBVIOUS
  <1>7. /\ R \in [NodesOrNull -> SUBSET Keys]
        /\ \A n \in NodesOrNull : R[n] = IF p \in S[n] THEN S[n] \cup {k} ELSE S[n]
        /\ R[Null] = {} /\ R[k] = {k}
    <2>1. R \in [NodesOrNull -> SUBSET Keys]
          /\ \A n \in NodesOrNull : R[n] = IF p \in S[n] THEN S[n] \cup {k} ELSE S[n]
      BY ONLY <1>0, k \in Keys, R = [n \in NodesOrNull |-> IF p \in S[n] THEN S[n] \cup {k} ELSE S[n]]
         DEF Parts
    <2>2. Null \in NodesOrNull /\ S[Null] = {}
      BY <1>0 DEF NodesOrNull, Parts
    <2>3. R[Null] = {}
      BY ONLY <2>1, <2>2
    <2>4. R[k] = {k}
      BY ONLY <1>2, <1>3, <2>1
    <2>5. QED
      BY ONLY <2>1, <2>3, <2>4
  <1>8. Parts(u, R)
    <2>1. ASSUME NEW n \in Keys, NEW e \in Sides
          PROVE  R[n] = {n} \cup R[u.child[e][n]] \cup R[u.child[Other(e)][n]]
      <3> PICK a : a = t.child[e][n]
        OBVIOUS
      <3> PICK b : b = t.child[Other(e)][n]
        OBVIOUS
      <3>1. /\ Other(e) \in Sides /\ Other(e) # e /\ a \in NodesOrNull /\ b \in NodesOrNull
            /\ n \in NodesOrNull /\ a = t.child[e][n] /\ b = t.child[Other(e)][n]
            /\ n \in Keys /\ e \in Sides /\ (d = e \/ d = Other(e))
        <4>1. Other(e) \in Sides /\ Other(e) # e /\ (d = e \/ d = Other(e))
          BY ONLY <1>2, TwoSides, e \in Sides
        <4>2. QED
          BY <1>0, <4>1, TreeFields DEF NodesOrNull
      <3>2. S[n] = {n} \cup S[a] \cup S[b]
        BY ONLY <1>0, <3>1 DEF Parts
      <3>3. R[n] = (IF p \in S[n] THEN S[n] \cup {k} ELSE S[n])
            /\ R[a] = (IF p \in S[a] THEN S[a] \cup {k} ELSE S[a])
            /\ R[b] = (IF p \in S[b] THEN S[b] \cup {k} ELSE S[b])
        BY ONLY <1>7, <3>1
      <3>4. CASE n = p
        <4>1. p \in S[p] /\ p \notin S[a] /\ p \notin S[b]
          BY ONLY <1>0, <1>2, <3>1, <3>4, BelowShrinks
        <4>2. CASE e = d
          <5>1. u.child[e][n] = k /\ u.child[Other(e)][n] = b
            BY ONLY <1>6, <3>1, <3>4, <4>2
          <5>2. S[a] = {}
            BY ONLY <1>0, <1>1, <3>1, <3>4, <4>2 DEF Parts
          <5>3. QED
            BY ONLY <1>7, <3>2, <3>3, <3>4, <4>1, <5>1, <5>2
        <4>3. CASE e # d
          <5>1. u.child[e][n] = a /\ u.child[Other(e)][n] = k
            BY ONLY <1>6, <3>1, <3>4, <4>3
          <5>2. S[b] = {}
            BY ONLY <1>0, <1>1, <3>1, <3>4, <4>3 DEF Parts
          <5>3. QED
            BY ONLY <1>7, <3>2, <3>3, <3>4, <4>1, <5>1, <5>2
        <4>4. QED
          BY ONLY <4>2, <4>3
      <3>5. CASE n # p
        <4>1. u.child[e][n] = a /\ u.child[Other(e)][n] = b
          BY ONLY <1>6, <3>1, <3>5
        <4>2. QED
          BY ONLY <3>2, <3>3, <3>5, <4>1
      <3>6. QED
        BY ONLY <3>4, <3>5
    <2>2. QED
      BY ONLY <1>7, <2>1 DEF Parts
  <1>9. Ordered(u, R)
    <2>1. ASSUME NEW n \in Keys, NEW e \in Sides, NEW m \in R[u.child[e][n]] PROVE Precedes(e, m, n)
      <3> PICK a : a = t.child[e][n]
        OBVIOUS
      <3>0. a = t.child[e][n] /\ a \in NodesOrNull /\ n \in Keys /\ e \in Sides
        BY <1>0, TreeFields
      <3>1. CASE n = p /\ e = d
        <4>1. m = k
          BY ONLY <1>6, <1>7, <2>1, <3>1
        <4>2. Precedes(d, k, p)
          BY ONLY <1>2, OrderOfKeys, k \in Keys
        <4>3. QED
          BY ONLY <3>1, <4>1, <4>2
      <3>2. CASE ~(n = p /\ e = d)
        <4>1. m \in R[a]
          BY ONLY <1>6, <2>1, <3>0, <3>2
        <4>2. CASE m \in S[a]
          BY ONLY <1>0, <3>0, <4>2 DEF Ordered
        <4>3. CASE m \notin S[a]
          <5>1. m = k /\ p \in S[a]
            BY ONLY <1>7, <3>0, <4>1, <4>3
          <5>2. Precedes(e, p, n)
            BY ONLY <1>0, <3>0, <5>1 DEF Ordered
          <5>3. e = Toward(p, n) /\ p # n
            BY ONLY <1>2, <3>0, <5>2, OrderOfKeys
          <5>4. n \in S[t.root]
            <6>1. S[Null] = {}
              BY <1>0 DEF Parts
            <6>2. t.child[e][n] # Null
              BY ONLY <3>0, <5>1, <6>1
            <6>3. QED
              BY ONLY <1>0, <3>0, <6>2, InTheTree
          <5>5. Toward(k, n) = e /\ k # n
            BY ONLY <1>1, <5>3, <5>4, k \notin S[t.root]
          <5>6. Precedes(Toward(k, n), k, n)
            BY ONLY <3>0, <5>5, OrderOfKeys, k \in Keys
          <5>7. QED
            BY ONLY <5>1, <5>5, <5>6
        <4>4. QED
          BY ONLY <4>2, <4>3
      <3>3. QED
        BY ONLY <3>1, <3>2
    <2>2. QED
      BY ONLY <2>1 DEF Ordered
  <1>10. Linked(u)
    <2>1. ASSUME NEW n \in Keys, NEW e \in Sides, u.child[e][n] # Null
          PROVE  u.parent[u.child[e][n]] = n
      <3>1. CASE n = p /\ e = d
        BY ONLY <1>6, <2>1, <3>1, k \in Keys
      <3>2. CASE ~(n = p /\ e = d)
        <4>1. u.child[e][n] = t.child[e][n]
          BY ONLY <1>6, <2>1, <3>2
        <4>2. t.child[e][n] \in Keys /\ t.parent[t.child[e][n]] = n /\ t.child[e][n] # k
          BY ONLY <1>0, <1>3, <2>1, <4>1, ChildrenDiffer
        <4>3. QED
          BY ONLY <1>6, <4>1, <4>2
      <3>3. QED
        BY ONLY <3>1, <3>2
    <2>2. ASSUME NEW n \in Keys, u.parent[n] # Null
          PROVE  \E e \in Sides : u.child[e][u.parent[n]] = n
      <3>1. CASE n = k
        BY ONLY <1>2, <1>6, <3>1, k \in Keys
      <3>2. CASE n # k
        <4>1. u.parent[n] = t.parent[n]
          BY ONLY <1>6, <2>2, <3>2
        <4>2. PICK e \in Sides : t.child[e][t.parent[n]] = n
          BY ONLY <1>0, <2>2, <4>1 DEF Linked
        <4>3. t.parent[n] \in Keys
          BY ONLY <1>0, <2>2, <4>1, TreeFields DEF NodesOrNull
        <4>4. ~(t.parent[n] = p /\ e = d)
          BY ONLY <1>1, <2>2, <4>2, RbTreeAssumption
        <4>5. u.child[e][t.parent[n]] = n
          BY ONLY <1>6, <4>2, <4>3, <4>4
        <4>6. QED
          BY ONLY <4>1, <4>5
      <3>3. QED
        BY ONLY <3>1, <3>2
    <2>3. u.parent[u.root] = Null
      <3>1. t.root # Null
        BY ONLY <1>r, RbTreeAssumption
      <3>2. t.parent[t.root] = Null
        BY ONLY <1>0, <3>1 DEF Linked
      <3>3. QED
        BY ONLY <1>2, <1>6, <1>r, <3>2
    <2>4. QED
      BY ONLY <2>1, <2>2, <2>3 DEF Linked
  <1>11. R[u.root] = S[t.root] \cup {k}
    BY ONLY <1>1, <1>6, <1>7, <1>r
  <1>12. Apart(u, R)
    <2>1. ASSUME NEW n \in Keys, n \notin R[u.root]
          PROVE  u.parent[n] = Null /\ \A e \in Sides : u.child[e][n] = Null
      <3>1. n # k /\ n # p /\ n \notin S[t.root]
        BY ONLY <1>1, <1>11, <2>1
      <3>2. t.parent[n] = Null /\ \A e \in Sides : t.child[e][n] = Null
        BY ONLY <1>0, <2>1, <3>1 DEF Apart
      <3>3. QED
        BY ONLY <1>6, <2>1, <3>1, <3>2
    <2>2. QED
      BY ONLY <2>1 DEF Apart
  <1>13. Shape(u, R)
    BY ONLY <1>6, <1>8, <1>9, <1>10, <1>12 DEF Shape
  <1> PICK K : K = [H EXCEPT ![k] = 1]
    OBVIOUS
  <1>14. /\ K \in [NodesOrNull -> Nat \ {0}] /\ K[k] = 1 /\ K[Null] = 1
         /\ \A n \in NodesOrNull : n # k => K[n] = H[n]
    <2>1. Null \in NodesOrNull
      BY DEF NodesOrNull
    <2>2. QED
      BY ONLY <1>0, <1>2, <2>1, K = [H EXCEPT ![k] = 1]
  <1>c. Red # Black
    BY DEF Red, Black
  <1>15. ASSUME NEW n \in Keys, NEW e \in Sides
         PROVE  K[n] = K[u.child[e][n]] + Weight(u, n) + Lack(Null, "left", n, e)
    <2>1. Lack(Null, "left", n, e) = 0
      BY RbTreeAssumption DEF Lack
    <2>2. CASE n = k
      <3>1. Weight(u, n) = 0
        BY ONLY <1>6, <1>c, <1>15, <2>2 DEF Weight
      <3>2. u.child[e][n] = Null
        BY ONLY <1>2, <1>3, <1>6, <1>15, <2>2
      <3>3. QED
        BY ONLY <1>14, <2>1, <2>2, <3>1, <3>2
    <2>3. CASE n # k
      <3>1. Weight(u, n) = Weight(t, n) /\ K[n] = H[n]
        BY ONLY <1>6, <1>14, <1>15, <2>3 DEF Weight, NodesOrNull
      <3>2. H[n] = H[t.child[e][n]] + Weight(t, n) + Lack(Null, "left", n, e)
        BY ONLY <1>0, <1>15 DEF LevelAt
      <3>3. K[u.child[e][n]] = H[t.child[e][n]]
        <4>1. CASE n = p /\ e = d
          <5>1. u.child[e][n] = k /\ t.child[e][n] = Null
            BY ONLY <1>1, <1>6, <1>15, <4>1
          <5>2. QED
            BY ONLY <1>0, <1>14, <5>1
        <4>2. CASE ~(n = p /\ e = d)
          <5>1. u.child[e][n] = t.child[e][n] /\ t.child[e][n] # k /\ t.child[e][n] \in NodesOrNull
            BY ONLY <1>0, <1>3, <1>6, <1>15, <4>2, TreeFields
          <5>2. QED
            BY ONLY <1>14, <5>1
        <4>3. QED
          BY ONLY <4>1, <4>2
      <3>4. QED
        BY ONLY <3>1, <3>2, <3>3
    <2>4. QED
      BY ONLY <2>2, <2>3
  <1>16. Level(u, K, Null, "left")
    BY ONLY <1>14, <1>15 DEF Level, LevelAt
  <1>17. RedPairs(u, {k})
    <2>1. ASSUME NEW n \in Keys, IsRed(u, n), IsRed(u, u.parent[n]), n # k PROVE FALSE
      <3>1. u.parent[n] = t.parent[n] /\ t.parent[n] # k /\ t.parent[n] \in NodesOrNull
        BY ONLY <1>0, <1>3, <1>6, <2>1, TreeFields
      <3>2. IsRed(t, n) /\ IsRed(t, t.parent[n])
        BY ONLY <1>6, <2>1, <3>1 DEF IsRed, NodesOrNull
      <3>3. QED
        BY ONLY <1>0, <2>1, <3>2, Zenon DEF RedPairs
    <2>2. QED
      BY ONLY <2>1 DEF RedPairs
  <1>18. ~IsRed(u, u.root) /\ IsRed(u, k)
    BY ONLY <1>0, <1>2, <1>6, <1>r, k \in Keys DEF IsRed
  <1>19. QED
    BY ONLY <1>11, <1>13, <1>16, <1>17, <1>18 DEF Balancing-----------------------------------------------------------------------------
(* Erase: a node with one child or none leaves the tree.                   *)

(* u is t without y, below side f of p: x, the child of y, takes its place *)
Spliced(t, u, y, x, p, f) ==
  /\ u \in TreeType
  /\ u.root = IF p = Null THEN x ELSE t.root
  /\ \A k \in Keys : u.color[k] = IF k = y THEN Red ELSE t.color[k]
  /\ \A d \in Sides, k \in Keys :
       u.child[d][k] = IF k = y THEN Null ELSE IF k = p /\ d = f THEN x ELSE t.child[d][k]
  /\ \A k \in Keys :
       u.parent[k] = IF k = y THEN Null ELSE IF k = x THEN p ELSE t.parent[k]

(* The place of y in the tree.                                             *)
PlaceOf(t, S, y, e, x, p, f) ==
  /\ t \in TreeType /\ y \in Keys /\ y \in S[t.root] /\ e \in Sides /\ f \in Sides
  /\ t.child[e][y] = Null /\ t.child[Other(e)][y] = x /\ t.parent[y] = p
  /\ x \in NodesOrNull /\ x # y /\ (x # Null => t.parent[x] = y)
  /\ p \in NodesOrNull /\ p # y /\ (x # Null => x # p)
  /\ p = Null => t.root = y
  /\ p # Null => p \in Keys /\ p \in S[t.root] /\ t.child[f][p] = y /\ t.root # y /\ t.root # x
  /\ \A k \in Keys, d \in Sides : t.child[d][k] = y => k = p /\ d = f
  /\ \A k \in Keys, d \in Sides : t.child[d][k] = x /\ x # Null => k = y
  /\ \A k \in Keys : t.parent[k] = y => k = x

(* These hold of every node that has a null child.                         *)
LEMMA PlaceIsOf ==
  ASSUME NEW t, NEW S, Shape(t, S), NEW y \in Keys, y \in S[t.root], NEW e \in Sides,
         t.child[e][y] = Null, NEW x, x = t.child[Other(e)][y], NEW p, p = t.parent[y],
         NEW f, f = SideOf(t, y)
  PROVE  PlaceOf(t, S, y, e, x, p, f)
  <1>0. /\ t \in TreeType /\ Parts(t, S) /\ Ordered(t, S) /\ Linked(t) /\ Apart(t, S)
    BY DEF Shape
  <1>q. x = t.child[Other(e)][y] /\ p = t.parent[y] /\ f = SideOf(t, y) /\ t.child[e][y] = Null
        /\ y \in S[t.root]
    OBVIOUS
  <1>s. Shape(t, S)
    OBVIOUS
  <1>e. Other(e) \in Sides /\ \A d \in Sides : d = e \/ d = Other(e)
    BY TwoSides
  <1>1. x \in NodesOrNull /\ x # y /\ (x # Null => t.parent[x] = y)
    BY ONLY <1>0, <1>e, <1>q, <1>s, y \in Keys, TreeFields, ChildrenDiffer
  <1>2. f \in Sides /\ p \in NodesOrNull
    BY ONLY <1>0, <1>q, y \in Keys, TreeFields DEF SideOf, Sides
  <1>3. p # Null => p \in Keys /\ t.child[f][p] = y
    BY ONLY <1>q, <1>s, y \in Keys, SideOfIs
  <1>4. p # y
    BY ONLY <1>2, <1>3, <1>s, y \in Keys, RbTreeAssumption, ChildrenDiffer
  <1>5. x # Null => x # p
    <2>1. SUFFICES ASSUME x # Null, x = p PROVE FALSE
      OBVIOUS
    <2>2. p # Null /\ p \in Keys /\ t.child[f][p] = y /\ t.child[Other(e)][y] = p
      BY ONLY <1>3, <1>q, <2>1
    <2>3. t.child[f][p] # y
      BY ONLY <1>0, <1>2, <1>e, <2>2, y \in Keys, NoCircleOfTwo
    <2>4. QED
      BY ONLY <2>2, <2>3
  <1>6. p = Null => t.root = y
    BY ONLY <1>q, <1>s, y \in Keys, InTheTree
  <1>7. p # Null => p \in S[t.root] /\ t.root # y /\ t.root # x
    <2>1. SUFFICES ASSUME p # Null PROVE p \in S[t.root] /\ t.root # y /\ t.root # x
      OBVIOUS
    <2>2. y # Null
      BY RbTreeAssumption
    <2>3. p \in S[t.root]
      BY ONLY <1>2, <1>3, <1>s, <2>1, <2>2, InTheTree
    <2>4. t.root # y
      BY ONLY <1>0, <1>q, <2>1, <2>2 DEF Linked
    <2>5. S[Null] = {}
      BY <1>0 DEF Parts
    <2>6. t.root # Null
      BY ONLY <1>q, <2>5
    <2>7. t.parent[t.root] = Null
      BY ONLY <1>0, <2>6 DEF Linked
    <2>8. QED
      BY ONLY <1>1, <2>2, <2>3, <2>4, <2>6, <2>7
  <1>8. ASSUME NEW k \in Keys, NEW d \in Sides, t.child[d][k] = y PROVE k = p /\ d = f
    <2>1. t.parent[y] = k /\ y # Null /\ k # Null
      BY ONLY <1>0, <1>8, y \in Keys, RbTreeAssumption DEF Linked
    <2>2. d = f
      BY ONLY <1>8, <1>q, <1>s, <2>1, y \in Keys, SideOfIs
    <2>3. QED
      BY ONLY <1>q, <2>1, <2>2
  <1>9. ASSUME NEW k \in Keys, NEW d \in Sides, t.child[d][k] = x, x # Null PROVE k = y
    BY ONLY <1>0, <1>1, <1>9 DEF Linked
  <1>10. ASSUME NEW k \in Keys, t.parent[k] = y PROVE k = x
    <2>1. y # Null /\ k # Null
      BY RbTreeAssumption
    <2>2. PICK d \in Sides : t.child[d][y] = k
      BY ONLY <1>0, <1>10, <2>1 DEF Linked
    <2>3. QED
      BY ONLY <1>e, <1>q, <2>1, <2>2
  <1>11. QED
    BY ONLY <1>0, <1>1, <1>2, <1>3, <1>4, <1>5, <1>6, <1>7, <1>8, <1>9, <1>10, <1>q,
            y \in Keys, e \in Sides DEF PlaceOf

(* The keys below the nodes when y has left.                               *)
Without(S, y) == [n \in NodesOrNull |-> IF n = y THEN {y} ELSE S[n] \ {y}]

(* The tree keeps its shape when y leaves its place.                       *)
LEMMA SpliceShape ==
  ASSUME NEW t, NEW S, Shape(t, S), NEW y, NEW e, NEW x, NEW p, NEW f,
         PlaceOf(t, S, y, e, x, p, f), NEW u, Spliced(t, u, y, x, p, f)
  PROVE  Shape(u, Without(S, y)) /\ Without(S, y)[u.root] = S[t.root] \ {y}
  <1> PICK R : R = Without(S, y)
    OBVIOUS
  <1>0. /\ t \in TreeType /\ Parts(t, S) /\ Ordered(t, S) /\ Linked(t) /\ Apart(t, S) /\ Shape(t, S)
    BY DEF Shape
  <1>1. /\ t \in TreeType /\ y \in Keys /\ y \in S[t.root] /\ e \in Sides /\ f \in Sides
        /\ t.child[e][y] = Null /\ t.child[Other(e)][y] = x /\ t.parent[y] = p
        /\ x \in NodesOrNull /\ x # y /\ (x # Null => t.parent[x] = y)
        /\ p \in NodesOrNull /\ p # y /\ (x # Null => x # p)
        /\ p = Null => t.root = y
        /\ p # Null => p \in Keys /\ p \in S[t.root] /\ t.child[f][p] = y /\ t.root # y /\ t.root # x
    BY DEF PlaceOf
  <1>2. /\ \A k \in Keys, d \in Sides : t.child[d][k] = y => k = p /\ d = f
        /\ \A k \in Keys, d \in Sides : t.child[d][k] = x /\ x # Null => k = y
        /\ \A k \in Keys : t.parent[k] = y => k = x
    BY DEF PlaceOf
  <1>3. /\ u \in TreeType
        /\ u.root = IF p = Null THEN x ELSE t.root
        /\ \A d \in Sides, k \in Keys :
             u.child[d][k] = IF k = y THEN Null ELSE IF k = p /\ d = f THEN x ELSE t.child[d][k]
        /\ \A k \in Keys :
             u.parent[k] = IF k = y THEN Null ELSE IF k = x THEN p ELSE t.parent[k]
    BY DEF Spliced
  <1>n. y # Null /\ y \in NodesOrNull
    BY ONLY <1>1, RbTreeAssumption DEF NodesOrNull
  <1>4. /\ R \in [NodesOrNull -> SUBSET Keys]
        /\ R[y] = {y}
        /\ \A n \in NodesOrNull : n # y => R[n] = S[n] \ {y}
    BY ONLY <1>0, <1>1, <1>n, R = Without(S, y) DEF Parts, Without
  <1>5. S[Null] = {} /\ R[Null] = {}
    <2>1. S[Null] = {} /\ Null \in NodesOrNull
      BY <1>0 DEF Parts, NodesOrNull
    <2>2. QED
      BY ONLY <1>4, <1>n, <2>1
  <1>6. y \notin S[x] /\ S[y] = {y} \cup S[x] /\ R[x] = S[x]
    <2>1. Other(e) \in Sides
      BY ONLY <1>1, TwoSides
    <2>2. y \notin S[x]
      BY ONLY <1>0, <1>1, <2>1, BelowShrinks
    <2>3. S[y] = {y} \cup S[x]
      BY ONLY <1>0, <1>1, <1>5 DEF Parts
    <2>4. R[x] = S[x] \ {y}
      BY ONLY <1>1, <1>4
    <2>5. S[x] \ {y} = S[x]
      BY ONLY <2>2
    <2>6. QED
      BY ONLY <2>2, <2>3, <2>4, <2>5
  <1>7. Parts(u, R)
    <2>1. ASSUME NEW n \in Keys, NEW d \in Sides
          PROVE  R[n] = {n} \cup R[u.child[d][n]] \cup R[u.child[Other(d)][n]]
      <3> PICK a : a = t.child[d][n]
        OBVIOUS
      <3> PICK b : b = t.child[Other(d)][n]
        OBVIOUS
      <3>1. /\ Other(d) \in Sides /\ Other(d) # d /\ a \in NodesOrNull /\ b \in NodesOrNull
            /\ n \in NodesOrNull /\ a = t.child[d][n] /\ b = t.child[Other(d)][n]
            /\ n \in Keys /\ d \in Sides /\ (f = d \/ f = Other(d))
        <4>1. Other(d) \in Sides /\ Other(d) # d /\ (f = d \/ f = Other(d))
          BY ONLY <1>1, TwoSides, d \in Sides
        <4>2. QED
          BY <1>0, <4>1, TreeFields DEF NodesOrNull
      <3>2. S[n] = {n} \cup S[a] \cup S[b]
        BY ONLY <1>0, <3>1 DEF Parts
      <3>3. CASE n = y
        <4>1. u.child[d][n] = Null /\ u.child[Other(d)][n] = Null
          BY ONLY <1>3, <3>1, <3>3
        <4>2. QED
          BY ONLY <1>4, <1>5, <3>3, <4>1
      <3>4. CASE n # y /\ n = p /\ d = f
        <4>1. u.child[d][n] = x /\ u.child[Other(d)][n] = b /\ a = y /\ b # y
          BY ONLY <1>1, <1>2, <1>3, <3>1, <3>4, RbTreeAssumption
        <4>2. R[n] = S[n] \ {y} /\ R[b] = S[b] \ {y}
          BY ONLY <1>4, <3>1, <3>4, <4>1
        <4>3. QED
          BY ONLY <1>6, <3>2, <3>4, <4>1, <4>2
      <3>5. CASE n # y /\ n = p /\ d # f
        <4>1. u.child[d][n] = a /\ u.child[Other(d)][n] = x /\ b = y /\ a # y
          BY ONLY <1>1, <1>2, <1>3, <3>1, <3>5, RbTreeAssumption
        <4>2. R[n] = S[n] \ {y} /\ R[a] = S[a] \ {y}
          BY ONLY <1>4, <3>1, <3>5, <4>1
        <4>3. QED
          BY ONLY <1>6, <3>2, <3>5, <4>1, <4>2
      <3>6. CASE n # y /\ n # p
        <4>1. u.child[d][n] = a /\ u.child[Other(d)][n] = b /\ a # y /\ b # y
          BY ONLY <1>2, <1>3, <3>1, <3>6
        <4>2. R[n] = S[n] \ {y} /\ R[a] = S[a] \ {y} /\ R[b] = S[b] \ {y}
          BY ONLY <1>4, <3>1, <3>6, <4>1
        <4>3. QED
          BY ONLY <3>2, <3>6, <4>1, <4>2
      <3>7. QED
        BY ONLY <3>3, <3>4, <3>5, <3>6
    <2>2. QED
      BY ONLY <1>4, <1>5, <2>1 DEF Parts
  <1>8. Ordered(u, R)
    <2>1. ASSUME NEW n \in Keys, NEW d \in Sides, NEW m \in R[u.child[d][n]] PROVE Precedes(d, m, n)
      <3>1. n # y
        BY ONLY <1>3, <1>5, <2>1
      <3>2. m \in S[t.child[d][n]]
        <4>1. CASE n = p /\ d = f
          BY ONLY <1>1, <1>3, <1>6, <2>1, <3>1, <4>1, RbTreeAssumption
        <4>2. CASE ~(n = p /\ d = f)
          <5>1. u.child[d][n] = t.child[d][n] /\ t.child[d][n] # y /\ t.child[d][n] \in NodesOrNull
            BY ONLY <1>1, <1>2, <1>3, <2>1, <3>1, <4>2, TreeFields
          <5>2. QED
            BY ONLY <1>4, <2>1, <5>1
        <4>3. QED
          BY ONLY <4>1, <4>2
      <3>3. QED
        BY ONLY <1>0, <2>1, <3>2 DEF Ordered
    <2>2. QED
      BY ONLY <2>1 DEF Ordered
  <1>9. Linked(u)
    <2>1. ASSUME NEW n \in Keys, NEW d \in Sides, u.child[d][n] # Null
          PROVE  u.parent[u.child[d][n]] = n
      <3>1. n # y
        BY ONLY <1>3, <2>1
      <3>2. CASE n = p /\ d = f
        <4>1. u.child[d][n] = x /\ x \in Keys
          BY ONLY <1>1, <1>3, <2>1, <3>1, <3>2 DEF NodesOrNull
        <4>2. QED
          BY ONLY <1>1, <1>3, <3>2, <4>1
      <3>3. CASE ~(n = p /\ d = f)
        <4>1. u.child[d][n] = t.child[d][n]
          BY ONLY <1>3, <2>1, <3>1, <3>3
        <4>2. t.child[d][n] \in Keys /\ t.parent[t.child[d][n]] = n
          BY ONLY <1>0, <2>1, <4>1, ChildrenDiffer
        <4>3. t.child[d][n] # y /\ t.child[d][n] # x
          BY ONLY <1>1, <1>2, <2>1, <3>1, <3>3, <4>1
        <4>4. QED
          BY ONLY <1>3, <4>1, <4>2, <4>3
      <3>4. QED
        BY ONLY <3>2, <3>3
    <2>2. ASSUME NEW n \in Keys, u.parent[n] # Null
          PROVE  \E d \in Sides : u.child[d][u.parent[n]] = n
      <3>1. n # y
        BY ONLY <1>3, <2>2
      <3>2. CASE n = x
        <4>1. u.parent[n] = p /\ p # Null /\ p \in Keys
          BY ONLY <1>1, <1>3, <2>2, <3>1, <3>2
        <4>2. u.child[f][p] = x
          BY ONLY <1>1, <1>3, <4>1
        <4>3. QED
          BY ONLY <1>1, <3>2, <4>1, <4>2
      <3>3. CASE n # x
        <4>1. u.parent[n] = t.parent[n] /\ t.parent[n] # y
          BY ONLY <1>2, <1>3, <2>2, <3>1, <3>3
        <4>2. PICK d \in Sides : t.child[d][t.parent[n]] = n
          BY ONLY <1>0, <2>2, <4>1 DEF Linked
        <4>3. t.parent[n] \in Keys
          BY ONLY <1>0, <2>2, <4>1, TreeFields DEF NodesOrNull
        <4>4. ~(t.parent[n] = p /\ d = f)
          BY ONLY <1>1, <3>1, <4>2, <4>3, RbTreeAssumption
        <4>5. u.child[d][t.parent[n]] = n
          BY ONLY <1>3, <4>1, <4>2, <4>3, <4>4
        <4>6. QED
          BY ONLY <4>1, <4>2, <4>5
      <3>4. QED
        BY ONLY <3>2, <3>3
    <2>3. u.root # Null => u.parent[u.root] = Null
      <3>1. CASE p = Null
        BY ONLY <1>1, <1>3, <3>1 DEF NodesOrNull
      <3>2. CASE p # Null
        <4>1. t.root \in NodesOrNull
          BY ONLY <1>1, TreeFields
        <4>2. t.root # Null => t.parent[t.root] = Null
          BY <1>0 DEF Linked
        <4>3. QED
          BY ONLY <1>1, <1>3, <3>2, <4>1, <4>2 DEF NodesOrNull
      <3>3. QED
        BY ONLY <3>1, <3>2
    <2>4. QED
      BY ONLY <2>1, <2>2, <2>3 DEF Linked
  <1>10. R[u.root] = S[t.root] \ {y}
    <2>1. CASE p = Null
      BY ONLY <1>1, <1>3, <1>6, <2>1
    <2>2. CASE p # Null
      <3>1. t.root \in NodesOrNull
        BY ONLY <1>1, TreeFields
      <3>2. QED
        BY ONLY <1>1, <1>3, <1>4, <2>2, <3>1
    <2>3. QED
      BY ONLY <2>1, <2>2
  <1>11. Apart(u, R)
    <2>1. ASSUME NEW n \in Keys, n \notin R[u.root]
          PROVE  u.parent[n] = Null /\ \A d \in Sides : u.child[d][n] = Null
      <3>1. CASE n = y
        BY ONLY <1>3, <2>1, <3>1
      <3>2. CASE n # y
        <4>1. n \notin S[t.root]
          BY ONLY <1>10, <2>1, <3>2
        <4>2. t.parent[n] = Null /\ \A d \in Sides : t.child[d][n] = Null
          BY ONLY <1>0, <2>1, <4>1 DEF Apart
        <4>3. n # p /\ n # x
          <5>1. n # Null
            BY ONLY <2>1, RbTreeAssumption
          <5>2. QED
            BY ONLY <1>1, <1>n, <4>1, <4>2, <5>1
        <4>4. QED
          BY ONLY <1>3, <2>1, <3>2, <4>2, <4>3
      <3>3. QED
        BY ONLY <3>1, <3>2
    <2>2. QED
      BY ONLY <2>1 DEF Apart
  <1>12. Shape(u, R)
    BY ONLY <1>3, <1>7, <1>8, <1>9, <1>11 DEF Shape
  <1>13. QED
    BY ONLY <1>10, <1>12, R = Without(S, y)
(* The heights when y has left: a black y leaves a gap.                    *)
LEMMA SpliceHeights ==
  ASSUME NEW t, NEW S, NEW H, Settled(t, S, H), NEW y, NEW e, NEW x, NEW p, NEW f,
         PlaceOf(t, S, y, e, x, p, f), NEW u, Spliced(t, u, y, x, p, f),
         NEW q, q = IF t.color[y] = Black THEN p ELSE Null
  PROVE  Level(u, [H EXCEPT ![y] = 1], q, f)
  <1> PICK K : K = [H EXCEPT ![y] = 1]
    OBVIOUS
  <1>0. /\ t \in TreeType /\ H \in [NodesOrNull -> Nat \ {0}] /\ H[Null] = 1
        /\ \A n \in Keys : LevelAt(t, H, Null, "left", n)
    BY DEF Settled, Shape, Level
  <1>1. /\ y \in Keys /\ e \in Sides /\ f \in Sides /\ x \in NodesOrNull /\ x # y /\ p # y
        /\ t.child[e][y] = Null /\ t.child[Other(e)][y] = x /\ (p # Null => t.child[f][p] = y)
    BY DEF PlaceOf
  <1>2. \A k \in Keys, d \in Sides : t.child[d][k] = y => k = p /\ d = f
    BY DEF PlaceOf
  <1>3. /\ \A k \in Keys : u.color[k] = IF k = y THEN Red ELSE t.color[k]
        /\ \A d \in Sides, k \in Keys :
             u.child[d][k] = IF k = y THEN Null ELSE IF k = p /\ d = f THEN x ELSE t.child[d][k]
    BY DEF Spliced
  <1>q. q = IF t.color[y] = Black THEN p ELSE Null
    OBVIOUS
  <1>n. y # Null /\ y \in NodesOrNull /\ Null \in NodesOrNull /\ \A k \in Keys : k # Null
    BY ONLY <1>1, RbTreeAssumption DEF NodesOrNull
  <1>4. /\ K \in [NodesOrNull -> Nat \ {0}] /\ K[y] = 1 /\ K[Null] = 1
        /\ \A n \in NodesOrNull : n # y => K[n] = H[n]
    BY ONLY <1>0, <1>n, K = [H EXCEPT ![y] = 1]
  <1>5. H[y] = H[x] + Weight(t, y) /\ H[x] \in Nat /\ Weight(t, y) \in Nat
    <2>1. Other(e) \in Sides
      BY ONLY <1>1, TwoSides
    <2>2. H[y] = H[x] + Weight(t, y) + Lack(Null, "left", y, Other(e))
      BY ONLY <1>0, <1>1, <2>1 DEF LevelAt
    <2>3. Lack(Null, "left", y, Other(e)) = 0
      BY ONLY <1>n DEF Lack
    <2>4. H[x] \in Nat /\ Weight(t, y) \in Nat
      BY ONLY <1>0, <1>1 DEF Weight
    <2>5. QED
      BY ONLY <2>2, <2>3, <2>4
  <1>6. ASSUME NEW n \in Keys, NEW d \in Sides
        PROVE  K[n] = K[u.child[d][n]] + Weight(u, n) + Lack(q, f, n, d)
    <2>1. CASE n = y
      <3>1. Lack(q, f, n, d) = 0 /\ Weight(u, n) = 0
        BY ONLY <1>1, <1>3, <1>n, <1>q, <2>1 DEF Lack, Weight, Red, Black
      <3>2. u.child[d][n] = Null
        BY ONLY <1>3, <1>6, <2>1
      <3>3. QED
        BY ONLY <1>4, <2>1, <3>1, <3>2
    <2>2. CASE n # y /\ n = p /\ d = f
      <3>1. u.child[d][n] = x /\ t.child[d][n] = y
        BY ONLY <1>1, <1>3, <1>6, <1>n, <2>2
      <3>2. K[x] = H[x] /\ K[n] = H[n]
        BY ONLY <1>1, <1>4, <1>6, <2>2 DEF NodesOrNull
      <3>3. Weight(u, n) = Weight(t, n) /\ Weight(t, n) \in Nat
        BY ONLY <1>3, <1>6, <2>2 DEF Weight
      <3>4. H[n] = H[y] + Weight(t, n) + 0
        BY ONLY <1>0, <1>6, <3>1, LevelSame
      <3>5. Lack(q, f, n, d) = Weight(t, y)
        BY ONLY <1>6, <1>n, <1>q, <2>2 DEF Lack, Weight
      <3>6. QED
        BY ONLY <1>5, <3>1, <3>2, <3>3, <3>4, <3>5
    <2>3. CASE n # y /\ ~(n = p /\ d = f)
      <3>1. u.child[d][n] = t.child[d][n] /\ t.child[d][n] # y /\ t.child[d][n] \in NodesOrNull
        BY ONLY <1>0, <1>2, <1>3, <1>6, <2>3, TreeFields
      <3>2. K[t.child[d][n]] = H[t.child[d][n]] /\ K[n] = H[n] /\ H[t.child[d][n]] \in Nat
        BY ONLY <1>0, <1>4, <1>6, <2>3, <3>1 DEF NodesOrNull
      <3>3. Weight(u, n) = Weight(t, n) /\ Weight(t, n) \in Nat
        BY ONLY <1>3, <1>6, <2>3 DEF Weight
      <3>4. H[n] = H[t.child[d][n]] + Weight(t, n) + 0
        BY ONLY <1>0, <1>6, LevelSame
      <3>5. Lack(q, f, n, d) = 0
        BY ONLY <1>6, <1>n, <1>q, <2>3 DEF Lack
      <3>6. QED
        BY ONLY <3>1, <3>2, <3>3, <3>4, <3>5
    <2>4. QED
      BY ONLY <2>1, <2>2, <2>3
  <1>7. QED
    BY ONLY <1>4, <1>6, K = [H EXCEPT ![y] = 1] DEF Level, LevelAt

(* When y leaves a red-black tree, only x can be a red child of a red      *)
(* node, and only when y was black.                                        *)
LEMMA SpliceReds ==
  ASSUME NEW t, NEW S, NEW H, Settled(t, S, H), NEW y, NEW e, NEW x, NEW p, NEW f,
         PlaceOf(t, S, y, e, x, p, f), NEW u, Spliced(t, u, y, x, p, f)
  PROVE  /\ RedPairs(u, {x})
         /\ IsRed(u, u.root) => u.root = x
         /\ t.color[y] = Red => ~IsRed(u, x) /\ p # Null
  <1>0. RedPairs(t, {}) /\ ~IsRed(t, t.root) /\ t \in TreeType
    BY DEF Settled, Shape
  <1>1. /\ y \in Keys /\ x \in NodesOrNull /\ x # y /\ p # y /\ p \in NodesOrNull
        /\ (x # Null => t.parent[x] = y)
        /\ p = Null => t.root = y
        /\ p # Null => p \in Keys /\ t.root # y
    BY DEF PlaceOf
  <1>2. \A k \in Keys : t.parent[k] = y => k = x
    BY DEF PlaceOf
  <1>3. /\ \A k \in Keys : u.color[k] = IF k = y THEN Red ELSE t.color[k]
        /\ u.root = IF p = Null THEN x ELSE t.root
        /\ \A k \in Keys :
             u.parent[k] = IF k = y THEN Null ELSE IF k = x THEN p ELSE t.parent[k]
    BY DEF Spliced
  <1>n. y # Null /\ y \in NodesOrNull /\ Null \in NodesOrNull /\ \A k \in Keys : k # Null
    BY ONLY <1>1, RbTreeAssumption DEF NodesOrNull
  <1>4. \A k \in NodesOrNull : k # y => (IsRed(u, k) <=> IsRed(t, k))
    BY ONLY <1>3 DEF IsRed, NodesOrNull
  <1>5. ASSUME NEW k \in Keys, IsRed(u, k), IsRed(u, u.parent[k]), k # x PROVE FALSE
    <2>1. k # y
      BY ONLY <1>3, <1>5 DEF IsRed
    <2>2. u.parent[k] = t.parent[k] /\ t.parent[k] # y /\ t.parent[k] \in NodesOrNull
      BY ONLY <1>0, <1>2, <1>3, <1>5, <2>1, TreeFields
    <2>3. IsRed(t, k) /\ IsRed(t, t.parent[k])
      BY ONLY <1>4, <1>5, <2>1, <2>2 DEF NodesOrNull
    <2>4. QED
      BY ONLY <1>0, <1>5, <2>3 DEF RedPairs
  <1>6. RedPairs(u, {x})
    BY ONLY <1>5, Zenon DEF RedPairs
  <1>7. IsRed(u, u.root) => u.root = x
    <2>1. CASE p = Null
      BY ONLY <1>3, <2>1
    <2>2. CASE p # Null
      <3>1. t.root \in NodesOrNull
        BY ONLY <1>0, TreeFields
      <3>2. QED
        BY ONLY <1>0, <1>1, <1>3, <1>4, <2>2, <3>1
    <2>3. QED
      BY ONLY <2>1, <2>2
  <1>8. ASSUME t.color[y] = Red PROVE ~IsRed(u, x) /\ p # Null
    <2>1. IsRed(t, y)
      BY ONLY <1>8, <1>n DEF IsRed
    <2>2. ~IsRed(t, x)
      BY ONLY <1>0, <1>1, <2>1 DEF RedPairs, IsRed, NodesOrNull
    <2>3. QED
      BY ONLY <1>0, <1>1, <1>4, <2>1, <2>2
  <1>9. QED
    BY ONLY <1>6, <1>7, <1>8

(* y leaves a red-black tree: without a black node there is a gap at x,    *)
(* without a red one none.                                                 *)
LEMMA SpliceColours ==
  ASSUME NEW t, NEW S, NEW H, Settled(t, S, H), NEW y, NEW e, NEW x, NEW p, NEW f,
         PlaceOf(t, S, y, e, x, p, f), NEW u, Spliced(t, u, y, x, p, f)
  PROVE  /\ Without(S, y)[u.root] = S[t.root] \ {y}
         /\ \E K : IF t.color[y] = Red THEN Settled(u, Without(S, y), K)
                                      ELSE Lacking(u, Without(S, y), K, x, p, f)
  <1> PICK R : R = Without(S, y)
    OBVIOUS
  <1> PICK K : K = [H EXCEPT ![y] = 1]
    OBVIOUS
  <1>0. Shape(t, S) /\ t \in TreeType
    BY DEF Settled, Shape
  <1>1. Shape(u, R) /\ R[u.root] = S[t.root] \ {y}
    BY <1>0, SpliceShape
  <1>2. Level(u, K, IF t.color[y] = Black THEN p ELSE Null, f)
    BY SpliceHeights
  <1>3. /\ RedPairs(u, {x})
        /\ IsRed(u, u.root) => u.root = x
        /\ t.color[y] = Red => ~IsRed(u, x) /\ p # Null
    BY SpliceReds
  <1>4. /\ y \in Keys /\ f \in Sides /\ x \in NodesOrNull /\ p \in NodesOrNull /\ p # y
        /\ p # Null => p \in S[t.root] /\ p \in Keys
    BY DEF PlaceOf
  <1>5. /\ u.root = IF p = Null THEN x ELSE t.root
        /\ p # Null => u.child[f][p] = x
    BY <1>4 DEF Spliced
  <1>6. t.color[y] \in {Red, Black} /\ Red # Black
    BY ONLY <1>0, <1>4, TreeFields DEF Red, Black
  <1>7. CASE t.color[y] = Red
    <2>1. Level(u, K, Null, "left")
      BY ONLY <1>2, <1>6, <1>7, LevelNull
    <2>2. RedPairs(u, {}) /\ ~IsRed(u, u.root)
      BY ONLY <1>3, <1>7, Zenon DEF RedPairs
    <2>3. Settled(u, R, K)
      BY ONLY <1>1, <2>1, <2>2 DEF Settled
    <2>4. QED
      BY ONLY <1>1, <1>7, <2>3, R = Without(S, y)
  <1>8. CASE t.color[y] = Black
    <2>1. Level(u, K, p, f)
      BY ONLY <1>2, <1>8
    <2>2. RedNear(u, x)
      BY ONLY <1>3, Zenon DEF RedPairs, RedNear
    <2>3. Lacking(u, R, K, x, p, f)
      BY ONLY <1>1, <1>3, <1>4, <1>5, <2>1, <2>2 DEF Lacking
    <2>4. QED
      BY ONLY <1>1, <1>6, <1>8, <2>3, R = Without(S, y)
  <1>9. QED
    BY ONLY <1>6, <1>7, <1>8-----------------------------------------------------------------------------
(* A node of the tree hands its place and its colour to one that has left. *)

(* What a link to k becomes when y stands for z, and which link was k's.   *)
Now(z, y, k)  == IF k = z THEN y ELSE k
Once(z, y, k) == IF k = y THEN z ELSE k

(* u is v with y in the place of z, which has no place left.               *)
Renamed(v, u, z, y) ==
  /\ u \in TreeType
  /\ u.root = Now(z, y, v.root)
  /\ \A k \in Keys : u.color[k] = IF k = z THEN Red ELSE v.color[Once(z, y, k)]
  /\ \A d \in Sides, k \in Keys :
       u.child[d][k] = IF k = z THEN Null ELSE Now(z, y, v.child[d][Once(z, y, k)])
  /\ \A k \in Keys :
       u.parent[k] = IF k = z THEN Null ELSE Now(z, y, v.parent[Once(z, y, k)])

(* y can stand for z: it is not in the tree, and no key lies between them. *)
Substitutes(v, S, z, y) ==
  /\ Shape(v, S)
  /\ z \in Keys /\ z \in S[v.root]
  /\ y \in Keys /\ y \notin S[v.root]
  /\ \A m \in S[v.root], d \in Sides : m # z => (Precedes(d, m, z) <=> Precedes(d, m, y))

Replaced(z, y, A) == IF z \in A THEN (A \ {z}) \cup {y} ELSE A

(* The keys below the nodes when y stands for z.                           *)
Handed(S, z, y) ==
  [n \in NodesOrNull |-> IF n = z THEN {z} ELSE Replaced(z, y, S[Once(z, y, n)])]

(* The two renamings undo each other.                                      *)
LEMMA NowAndOnce ==
  ASSUME NEW z \in Keys, NEW y \in Keys, y # z
  PROVE  /\ \A c : c # y => Once(z, y, Now(z, y, c)) = c /\ Now(z, y, c) # z
         /\ \A k : k # z => Now(z, y, Once(z, y, k)) = k /\ Once(z, y, k) # y
         /\ \A k \in Keys : Once(z, y, k) \in Keys /\ Now(z, y, k) \in Keys
         /\ \A c \in NodesOrNull : Now(z, y, c) \in NodesOrNull /\ Once(z, y, c) \in NodesOrNull
         /\ Now(z, y, Null) = Null /\ Once(z, y, Null) = Null
         /\ \A c : c # Null => Now(z, y, c) # Null
  BY RbTreeAssumption DEF Now, Once, NodesOrNull

(* What there is to know of y and z.                                       *)
LEMMA SubstituteFacts ==
  ASSUME NEW v, NEW S, NEW z, NEW y, Substitutes(v, S, z, y)
  PROVE  /\ v \in TreeType /\ Parts(v, S) /\ Ordered(v, S) /\ Linked(v) /\ Apart(v, S) /\ Shape(v, S)
         /\ z \in Keys /\ y \in Keys /\ y # z /\ z # Null /\ y # Null
         /\ v.root \in NodesOrNull /\ v.root # y /\ v.root # Null
         /\ \A k \in Keys, d \in Sides : v.child[d][k] \in NodesOrNull /\ v.child[d][k] # y
         /\ \A k \in Keys : v.parent[k] \in NodesOrNull /\ v.parent[k] # y
         /\ v.parent[v.root] = Null
         /\ \A m \in NodesOrNull : y \in S[m] => m = y
         /\ S[Null] = {}
  <1>1. /\ v \in TreeType /\ Parts(v, S) /\ Ordered(v, S) /\ Linked(v) /\ Apart(v, S) /\ Shape(v, S)
        /\ z \in Keys /\ z \in S[v.root] /\ y \in Keys /\ y \notin S[v.root]
    BY DEF Substitutes, Shape
  <1>2. z # Null /\ y # Null /\ y # z
    BY ONLY <1>1, RbTreeAssumption
  <1>3. S[Null] = {}
    BY ONLY <1>1 DEF Parts
  <1>4. v.root # Null /\ v.root \in NodesOrNull
    BY ONLY <1>1, <1>3, TreeFields
  <1>5. v.root \in S[v.root]
    <2>1. v.root \in Keys /\ "left" \in Sides
      BY ONLY <1>4 DEF NodesOrNull, Sides
    <2>2. QED
      BY ONLY <1>1, <2>1, BelowShrinks
  <1>6. v.parent[v.root] = Null
    BY ONLY <1>1, <1>4 DEF Linked
  <1>7. /\ \A m \in Keys, d \in Sides : v.child[d][m] # y
        /\ \A m \in Keys : v.parent[m] # y
        /\ \A m \in NodesOrNull : y \in S[m] => m = y
    BY ONLY <1>1, StandsAlone
  <1>8. /\ \A k \in Keys, d \in Sides : v.child[d][k] \in NodesOrNull
        /\ \A k \in Keys : v.parent[k] \in NodesOrNull
    BY ONLY <1>1, TreeFields
  <1>9. QED
    BY ONLY <1>1, <1>2, <1>3, <1>4, <1>5, <1>6, <1>7, <1>8

(* The sets below the nodes follow the renaming.                           *)
LEMMA HandedIs ==
  ASSUME NEW v, NEW S, NEW z, NEW y, Substitutes(v, S, z, y)
  PROVE  /\ Handed(S, z, y) \in [NodesOrNull -> SUBSET Keys]
         /\ Handed(S, z, y)[z] = {z}
         /\ Handed(S, z, y)[Null] = {}
         /\ \A n \in NodesOrNull : n # z =>
              Handed(S, z, y)[n] = Replaced(z, y, S[Once(z, y, n)])
         /\ \A c \in NodesOrNull : c # y =>
              Handed(S, z, y)[Now(z, y, c)] = Replaced(z, y, S[c])
  <1> PICK R : R = Handed(S, z, y)
    OBVIOUS
  <1>1. /\ z \in Keys /\ y \in Keys /\ y # z /\ z # Null /\ S[Null] = {}
        /\ S \in [NodesOrNull -> SUBSET Keys]
    BY SubstituteFacts DEF Parts
  <1>2. z \in NodesOrNull /\ Null \in NodesOrNull
    BY ONLY <1>1 DEF NodesOrNull
  <1>3. /\ \A n \in NodesOrNull : R[n] = IF n = z THEN {z} ELSE Replaced(z, y, S[Once(z, y, n)])
        /\ R = [n \in NodesOrNull |-> R[n]]
    BY ONLY R = Handed(S, z, y), Zenon DEF Handed
  <1>4. ASSUME NEW n \in NodesOrNull PROVE R[n] \subseteq Keys
    <2>1. Once(z, y, n) \in NodesOrNull
      BY ONLY <1>1, <1>4, NowAndOnce
    <2>2. S[Once(z, y, n)] \subseteq Keys
      BY ONLY <1>1, <2>1
    <2>3. QED
      BY ONLY <1>1, <1>3, <1>4, <2>2 DEF Replaced
  <1>5. R \in [NodesOrNull -> SUBSET Keys]
    BY ONLY <1>3, <1>4
  <1>6. R[Null] = {}
    BY ONLY <1>1, <1>2, <1>3, NowAndOnce DEF Replaced
  <1>7. ASSUME NEW c \in NodesOrNull, c # y PROVE R[Now(z, y, c)] = Replaced(z, y, S[c])
    <2>1. /\ Now(z, y, c) \in NodesOrNull /\ Now(z, y, c) # z
          /\ Once(z, y, Now(z, y, c)) = c
      BY ONLY <1>1, <1>7, NowAndOnce
    <2>2. QED
      BY ONLY <1>3, <2>1
  <1>8. QED
    BY ONLY <1>2, <1>3, <1>5, <1>6, <1>7, R = Handed(S, z, y)

(* The links of a node other than z, in terms of what it once was.         *)
LEMMA RenamedAt ==
  ASSUME NEW v, NEW S, NEW z, NEW y, Substitutes(v, S, z, y), NEW u, Renamed(v, u, z, y),
         NEW k \in Keys, k # z, NEW j, j = Once(z, y, k)
  PROVE  /\ j \in Keys /\ j # y /\ Now(z, y, j) = k
         /\ u.color[k] = v.color[j]
         /\ u.parent[k] = Now(z, y, v.parent[j])
         /\ v.parent[j] \in NodesOrNull /\ v.parent[j] # y
         /\ \A d \in Sides : /\ u.child[d][k] = Now(z, y, v.child[d][j])
                             /\ v.child[d][j] \in NodesOrNull /\ v.child[d][j] # y
  <1>1. z \in Keys /\ y \in Keys /\ y # z
    BY SubstituteFacts
  <1>2. /\ \A n \in Keys, d \in Sides : v.child[d][n] \in NodesOrNull /\ v.child[d][n] # y
        /\ \A n \in Keys : v.parent[n] \in NodesOrNull /\ v.parent[n] # y
    BY SubstituteFacts
  <1>3. j \in Keys /\ j # y /\ Now(z, y, j) = k
    BY ONLY <1>1, k \in Keys, k # z, j = Once(z, y, k), NowAndOnce
  <1>4. /\ u.color[k] = v.color[j]
        /\ u.parent[k] = Now(z, y, v.parent[j])
        /\ \A d \in Sides : u.child[d][k] = Now(z, y, v.child[d][j])
    BY Zenon DEF Renamed
  <1>5. QED
    BY ONLY <1>2, <1>3, <1>4

(* z itself has no links.                                                  *)
LEMMA RenamedGone ==
  ASSUME NEW v, NEW S, NEW z, NEW y, Substitutes(v, S, z, y), NEW u, Renamed(v, u, z, y)
  PROVE  /\ u.color[z] = Red /\ u.parent[z] = Null /\ \A d \in Sides : u.child[d][z] = Null
         /\ u.root = Now(z, y, v.root) /\ u \in TreeType /\ z \in Keys
  <1>1. z \in Keys
    BY DEF Substitutes
  <1>2. QED
    BY <1>1 DEF Renamed
(* The tree keeps its shape when y stands for z.                           *)
LEMMA RenameShape ==
  ASSUME NEW v, NEW S, NEW z, NEW y, Substitutes(v, S, z, y), NEW u, Renamed(v, u, z, y)
  PROVE  /\ Shape(u, Handed(S, z, y))
         /\ Handed(S, z, y)[u.root] = (S[v.root] \ {z}) \cup {y}
  <1> PICK R : R = Handed(S, z, y)
    OBVIOUS
  <1>0. /\ v \in TreeType /\ Parts(v, S) /\ Ordered(v, S) /\ Linked(v) /\ Apart(v, S) /\ Shape(v, S)
        /\ z \in Keys /\ y \in Keys /\ y # z /\ z # Null /\ y # Null
        /\ v.root \in NodesOrNull /\ v.root # y /\ v.root # Null
        /\ v.parent[v.root] = Null
        /\ \A m \in NodesOrNull : y \in S[m] => m = y
        /\ S[Null] = {}
    BY SubstituteFacts
  <1>1. /\ z \in S[v.root] /\ y \notin S[v.root]
        /\ \A m \in S[v.root], d \in Sides : m # z => (Precedes(d, m, z) <=> Precedes(d, m, y))
    BY DEF Substitutes
  <1>2. /\ R \in [NodesOrNull -> SUBSET Keys] /\ R[z] = {z} /\ R[Null] = {}
        /\ \A c \in NodesOrNull : c # y => R[Now(z, y, c)] = Replaced(z, y, S[c])
    BY ONLY Substitutes(v, S, z, y), R = Handed(S, z, y), HandedIs
  <1>3. /\ u.color[z] = Red /\ u.parent[z] = Null /\ \A d \in Sides : u.child[d][z] = Null
        /\ u.root = Now(z, y, v.root) /\ u \in TreeType
    BY RenamedGone
  <1>n. /\ \A c : c # y => Once(z, y, Now(z, y, c)) = c /\ Now(z, y, c) # z
        /\ \A k \in Keys : Now(z, y, k) \in Keys
        /\ Now(z, y, Null) = Null
    BY ONLY <1>0, NowAndOnce
  <1>4. ASSUME NEW k \in Keys, k # z
        PROVE  \E j \in Keys :
                 /\ j = Once(z, y, k) /\ j # y /\ Now(z, y, j) = k
                 /\ u.parent[k] = Now(z, y, v.parent[j])
                 /\ v.parent[j] \in NodesOrNull /\ v.parent[j] # y
                 /\ \A d \in Sides : /\ u.child[d][k] = Now(z, y, v.child[d][j])
                                     /\ v.child[d][j] \in NodesOrNull /\ v.child[d][j] # y
    <2> PICK j : j = Once(z, y, k)
      OBVIOUS
    <2>1. /\ j \in Keys /\ j # y /\ Now(z, y, j) = k
          /\ u.parent[k] = Now(z, y, v.parent[j])
          /\ v.parent[j] \in NodesOrNull /\ v.parent[j] # y
          /\ \A d \in Sides : /\ u.child[d][k] = Now(z, y, v.child[d][j])
                              /\ v.child[d][j] \in NodesOrNull /\ v.child[d][j] # y
      BY <1>4, RenamedAt
    <2>2. QED
      BY ONLY <2>1, j = Once(z, y, k)
  <1>5. Parts(u, R)
    <2>1. ASSUME NEW k \in Keys, NEW d \in Sides
          PROVE  R[k] = {k} \cup R[u.child[d][k]] \cup R[u.child[Other(d)][k]]
      <3>o. Other(d) \in Sides
        BY TwoSides
      <3>1. CASE k = z
        BY ONLY <1>2, <1>3, <2>1, <3>1, <3>o
      <3>2. CASE k # z
        <4>1. PICK j \in Keys :
                /\ j # y /\ Now(z, y, j) = k
                /\ \A s \in Sides : /\ u.child[s][k] = Now(z, y, v.child[s][j])
                                    /\ v.child[s][j] \in NodesOrNull /\ v.child[s][j] # y
          BY ONLY <1>4, <2>1, <3>2
        <4> PICK a : a = v.child[d][j]
          OBVIOUS
        <4> PICK b : b = v.child[Other(d)][j]
          OBVIOUS
        <4>2. S[j] = {j} \cup S[a] \cup S[b]
          BY ONLY <1>0, <2>1, <3>o, a = v.child[d][j], b = v.child[Other(d)][j], j \in Keys DEF Parts
        <4>3. R[k] = Replaced(z, y, S[j])
          BY ONLY <1>2, <4>1, j \in Keys DEF NodesOrNull
        <4>4. R[u.child[d][k]] = Replaced(z, y, S[a]) /\ R[u.child[Other(d)][k]] = Replaced(z, y, S[b])
          BY ONLY <1>2, <2>1, <3>o, <4>1, a = v.child[d][j], b = v.child[Other(d)][j]
        <4>5. {k} = Replaced(z, y, {j})
          BY ONLY <4>1 DEF Now, Replaced
        <4>6. Replaced(z, y, {j} \cup S[a] \cup S[b])
              = Replaced(z, y, {j}) \cup Replaced(z, y, S[a]) \cup Replaced(z, y, S[b])
          BY ONLY SMT DEF Replaced
        <4>7. QED
          BY ONLY <4>2, <4>3, <4>4, <4>5, <4>6
      <3>3. QED
        BY ONLY <3>1, <3>2
    <2>2. QED
      BY ONLY <1>2, <2>1 DEF Parts
  <1>6. Ordered(u, R)
    <2>1. ASSUME NEW k \in Keys, NEW d \in Sides, NEW m \in R[u.child[d][k]] PROVE Precedes(d, m, k)
      <3>1. k # z
        BY ONLY <1>2, <1>3, <2>1
      <3>2. PICK j \in Keys :
              /\ j # y /\ Now(z, y, j) = k
              /\ \A s \in Sides : /\ u.child[s][k] = Now(z, y, v.child[s][j])
                                  /\ v.child[s][j] \in NodesOrNull /\ v.child[s][j] # y
        BY ONLY <1>4, <2>1, <3>1
      <3> PICK c : c = v.child[d][j]
        OBVIOUS
      <3>3. m \in Replaced(z, y, S[c]) /\ c \in NodesOrNull /\ c # y
        BY ONLY <1>2, <2>1, <3>2, c = v.child[d][j]
      <3>4. c # Null
        BY ONLY <1>0, <3>3 DEF Replaced
      <3>5. j \in S[v.root]
        BY ONLY <1>0, <2>1, <3>4, c = v.child[d][j], j \in Keys, InTheTree
      <3>6. \A a \in S[c] : Precedes(d, a, j)
        BY ONLY <1>0, <2>1, c = v.child[d][j], j \in Keys DEF Ordered
      <3>7. CASE m \in S[c] /\ m # z
        <4>1. Precedes(d, m, j)
          BY ONLY <3>6, <3>7
        <4>2. CASE j # z
          BY ONLY <3>2, <4>1, <4>2 DEF Now
        <4>3. CASE j = z
          <5>1. m \in S[v.root]
            <6>1. S[c] \subseteq S[j]
              BY ONLY <1>0, <2>1, c = v.child[d][j], j \in Keys, BelowShrinks
            <6>2. S[j] \subseteq S[v.root]
              BY ONLY <1>0, <3>5, j \in Keys, InTheTree
            <6>3. QED
              BY ONLY <3>7, <6>1, <6>2
          <5>2. Precedes(d, m, y)
            BY ONLY <1>1, <2>1, <3>7, <4>1, <4>3, <5>1
          <5>3. QED
            BY ONLY <3>2, <4>3, <5>2 DEF Now
        <4>4. QED
          BY ONLY <4>2, <4>3
      <3>8. CASE m = y /\ z \in S[c]
        <4>1. Precedes(d, z, j)
          BY ONLY <3>6, <3>8
        <4>2. j # z
          BY ONLY <1>0, <2>1, <4>1, j \in Keys, OrderOfKeys
        <4>3. Precedes(Other(d), j, z) /\ Other(d) \in Sides
          BY ONLY <1>0, <2>1, <4>1, j \in Keys, OrderOfKeys, TwoSides
        <4>4. Precedes(Other(d), j, y)
          BY ONLY <1>1, <3>5, <4>2, <4>3
        <4>5. Precedes(d, y, j)
          BY ONLY <1>0, <2>1, <4>4, j \in Keys, OrderOfKeys
        <4>6. QED
          BY ONLY <3>2, <3>8, <4>2, <4>5 DEF Now
      <3>9. QED
        <4>1. y \notin S[c]
          BY ONLY <1>0, <3>3
        <4>2. QED
          BY ONLY <3>3, <3>7, <3>8, <4>1 DEF Replaced
    <2>2. QED
      BY ONLY <2>1 DEF Ordered
  <1>7. Linked(u)
    <2>1. ASSUME NEW k \in Keys, NEW d \in Sides, u.child[d][k] # Null
          PROVE  u.parent[u.child[d][k]] = k
      <3>1. k # z
        BY ONLY <1>3, <2>1
      <3>2. PICK j \in Keys :
              /\ j # y /\ Now(z, y, j) = k
              /\ \A s \in Sides : /\ u.child[s][k] = Now(z, y, v.child[s][j])
                                  /\ v.child[s][j] \in NodesOrNull /\ v.child[s][j] # y
        BY ONLY <1>4, <2>1, <3>1
      <3> PICK c : c = v.child[d][j]
        OBVIOUS
      <3>3. u.child[d][k] = Now(z, y, c) /\ c # y /\ c # Null /\ c \in Keys
        BY ONLY <1>n, <2>1, <3>2, c = v.child[d][j] DEF NodesOrNull
      <3>4. v.parent[c] = j
        BY ONLY <1>0, <2>1, <3>3, c = v.child[d][j], j \in Keys DEF Linked
      <3>5. Now(z, y, c) \in Keys /\ Now(z, y, c) # z /\ Once(z, y, Now(z, y, c)) = c
        BY ONLY <1>n, <3>3
      <3>6. u.parent[Now(z, y, c)] = Now(z, y, v.parent[c])
        BY ONLY <1>4, <3>5
      <3>7. QED
        BY ONLY <3>2, <3>3, <3>4, <3>6
    <2>2. ASSUME NEW k \in Keys, u.parent[k] # Null
          PROVE  \E d \in Sides : u.child[d][u.parent[k]] = k
      <3>1. k # z
        BY ONLY <1>3, <2>2
      <3>2. PICK j \in Keys :
              /\ j # y /\ Now(z, y, j) = k
              /\ u.parent[k] = Now(z, y, v.parent[j])
              /\ v.parent[j] \in NodesOrNull /\ v.parent[j] # y
        BY ONLY <1>4, <2>2, <3>1
      <3> PICK q : q = v.parent[j]
        OBVIOUS
      <3>3. u.parent[k] = Now(z, y, q) /\ q # y /\ q # Null /\ q \in Keys
        BY ONLY <1>n, <2>2, <3>2, q = v.parent[j] DEF NodesOrNull
      <3>4. PICK d \in Sides : v.child[d][q] = j
        BY ONLY <1>0, <3>3, q = v.parent[j], j \in Keys DEF Linked
      <3>5. Now(z, y, q) \in Keys /\ Now(z, y, q) # z /\ Once(z, y, Now(z, y, q)) = q
        BY ONLY <1>n, <3>3
      <3>6. u.child[d][Now(z, y, q)] = Now(z, y, v.child[d][q])
        BY ONLY <1>4, <3>5, d \in Sides
      <3>7. QED
        BY ONLY <3>2, <3>3, <3>4, <3>6
    <2>3. u.parent[u.root] = Null
      <3>1. /\ v.root \in Keys /\ Now(z, y, v.root) \in Keys
            /\ Now(z, y, v.root) # z /\ Once(z, y, Now(z, y, v.root)) = v.root
        BY ONLY <1>0, <1>n DEF NodesOrNull
      <3>2. u.parent[Now(z, y, v.root)] = Now(z, y, v.parent[v.root])
        BY ONLY <1>4, <3>1
      <3>3. QED
        BY ONLY <1>0, <1>3, <1>n, <3>2
    <2>4. QED
      BY ONLY <2>1, <2>2, <2>3 DEF Linked
  <1>8. R[u.root] = (S[v.root] \ {z}) \cup {y}
    <2>1. R[u.root] = Replaced(z, y, S[v.root])
      BY ONLY <1>0, <1>2, <1>3
    <2>2. QED
      BY ONLY <1>1, <2>1 DEF Replaced
  <1>9. Apart(u, R)
    <2>1. ASSUME NEW k \in Keys, k \notin R[u.root]
          PROVE  u.parent[k] = Null /\ \A d \in Sides : u.child[d][k] = Null
      <3>1. CASE k = z
        BY ONLY <1>3, <3>1
      <3>2. CASE k # z
        <4>1. PICK j \in Keys :
                /\ j = Once(z, y, k)
                /\ u.parent[k] = Now(z, y, v.parent[j])
                /\ \A s \in Sides : u.child[s][k] = Now(z, y, v.child[s][j])
          BY ONLY <1>4, <2>1, <3>2
        <4>2. j = k
          BY ONLY <1>8, <2>1, <4>1 DEF Once
        <4>3. v.parent[k] = Null /\ \A d \in Sides : v.child[d][k] = Null
          BY ONLY <1>0, <1>8, <2>1, <3>2 DEF Apart
        <4>4. QED
          BY ONLY <1>n, <4>1, <4>2, <4>3
      <3>3. QED
        BY ONLY <3>1, <3>2
    <2>2. QED
      BY ONLY <2>1 DEF Apart
  <1>10. Shape(u, R)
    BY ONLY <1>3, <1>5, <1>6, <1>7, <1>9 DEF Shape
  <1>11. QED
    BY ONLY <1>8, <1>10, R = Handed(S, z, y)
(* The heights follow the renaming, a gap with them.                       *)
LEMMA RenameHeights ==
  ASSUME NEW v, NEW S, NEW z, NEW y, Substitutes(v, S, z, y), NEW u, Renamed(v, u, z, y),
         NEW H, NEW q, NEW f, Level(v, H, q, f), q # y
  PROVE  Level(u, [n \in NodesOrNull |-> IF n = z THEN 1 ELSE H[Once(z, y, n)]],
               Now(z, y, q), f)
  <1> PICK K : K = [n \in NodesOrNull |-> IF n = z THEN 1 ELSE H[Once(z, y, n)]]
    OBVIOUS
  <1>0. /\ v \in TreeType /\ z \in Keys /\ y \in Keys /\ y # z /\ z # Null /\ y # Null
    BY SubstituteFacts
  <1>1. /\ H \in [NodesOrNull -> Nat \ {0}] /\ H[Null] = 1
        /\ \A n \in Keys : LevelAt(v, H, q, f, n)
    BY DEF Level
  <1>3. /\ u.color[z] = Red /\ \A d \in Sides : u.child[d][z] = Null
    BY RenamedGone
  <1>n. /\ \A c : c # y => Once(z, y, Now(z, y, c)) = c /\ Now(z, y, c) # z
        /\ \A c \in NodesOrNull : Now(z, y, c) \in NodesOrNull /\ Once(z, y, c) \in NodesOrNull
        /\ Once(z, y, Null) = Null
    BY ONLY <1>0, NowAndOnce
  <1>4. /\ K \in [NodesOrNull -> Nat \ {0}] /\ K[z] = 1 /\ K[Null] = 1
        /\ \A n \in NodesOrNull : n # z => K[n] = H[Once(z, y, n)]
    <2>1. z \in NodesOrNull /\ Null \in NodesOrNull
      BY ONLY <1>0 DEF NodesOrNull
    <2>2. \A n \in NodesOrNull : H[Once(z, y, n)] \in Nat \ {0}
      BY ONLY <1>1, <1>n
    <2>3. QED
      BY ONLY <1>0, <1>1, <1>n, <2>1, <2>2,
              K = [n \in NodesOrNull |-> IF n = z THEN 1 ELSE H[Once(z, y, n)]]
  <1>5. \A c \in NodesOrNull : c # y => K[Now(z, y, c)] = H[c]
    BY ONLY <1>4, <1>n
  <1>6. ASSUME NEW k \in Keys, NEW d \in Sides
        PROVE  K[k] = K[u.child[d][k]] + Weight(u, k) + Lack(Now(z, y, q), f, k, d)
    <2>1. CASE k = z
      <3>1. Now(z, y, q) # z
        BY ONLY <1>n, q # y
      <3>2. Lack(Now(z, y, q), f, k, d) = 0 /\ Weight(u, k) = 0
        BY ONLY <1>3, <2>1, <3>1 DEF Lack, Weight, Red, Black
      <3>3. u.child[d][k] = Null
        BY ONLY <1>3, <1>6, <2>1
      <3>4. QED
        BY ONLY <1>4, <2>1, <3>2, <3>3
    <2>2. CASE k # z
      <3> PICK j : j = Once(z, y, k)
        OBVIOUS
      <3>1. /\ j \in Keys /\ j # y /\ Now(z, y, j) = k
            /\ u.color[k] = v.color[j]
            /\ u.child[d][k] = Now(z, y, v.child[d][j])
            /\ v.child[d][j] \in NodesOrNull /\ v.child[d][j] # y
        BY <2>2, RenamedAt
      <3> PICK c : c = v.child[d][j]
        OBVIOUS
      <3>2. H[j] = H[c] + Weight(v, j) + Lack(q, f, j, d)
        BY ONLY <1>1, <1>6, <3>1, c = v.child[d][j] DEF LevelAt
      <3>3. K[k] = H[j] /\ K[u.child[d][k]] = H[c]
        BY ONLY <1>5, <3>1, c = v.child[d][j] DEF NodesOrNull
      <3>4. Weight(u, k) = Weight(v, j)
        BY ONLY <3>1 DEF Weight
      <3>5. j = q <=> k = Now(z, y, q)
        BY ONLY <1>n, <3>1, q # y
      <3>6. Lack(Now(z, y, q), f, k, d) = Lack(q, f, j, d)
        BY ONLY <3>5 DEF Lack
      <3>7. QED
        BY ONLY <3>2, <3>3, <3>4, <3>6
    <2>3. QED
      BY ONLY <2>1, <2>2
  <1>7. QED
    BY ONLY <1>4, <1>6, K = [n \in NodesOrNull |-> IF n = z THEN 1 ELSE H[Once(z, y, n)]]
       DEF Level, LevelAt

(* So do the colours.                                                      *)
LEMMA RenameReds ==
  ASSUME NEW v, NEW S, NEW z, NEW y, Substitutes(v, S, z, y), NEW u, Renamed(v, u, z, y)
  PROVE  /\ \A c \in NodesOrNull : c # y => (IsRed(u, Now(z, y, c)) <=> IsRed(v, c))
         /\ \A k \in Keys : IsRed(u, k) /\ IsRed(u, u.parent[k]) =>
              \E j \in Keys : /\ IsRed(v, j) /\ IsRed(v, v.parent[j]) /\ k = Now(z, y, j)
                              /\ u.parent[k] = Now(z, y, v.parent[j])
  <1>0. /\ z \in Keys /\ y \in Keys /\ y # z /\ z # Null /\ y # Null
    BY SubstituteFacts
  <1>n. /\ \A c : c # y => Once(z, y, Now(z, y, c)) = c /\ Now(z, y, c) # z
        /\ \A k \in Keys : Now(z, y, k) \in Keys
        /\ Now(z, y, Null) = Null
        /\ \A k \in Keys : k # Null
    BY ONLY <1>0, NowAndOnce, RbTreeAssumption
  <1>1. ASSUME NEW c \in NodesOrNull, c # y PROVE IsRed(u, Now(z, y, c)) <=> IsRed(v, c)
    <2>1. CASE c = Null
      BY ONLY <1>n, <2>1 DEF IsRed
    <2>2. CASE c # Null
      <3> PICK k : k = Now(z, y, c)
        OBVIOUS
      <3>1. k \in Keys /\ k # z /\ c = Once(z, y, k) /\ k # Null
        BY ONLY <1>1, <1>n, <2>2, k = Now(z, y, c) DEF NodesOrNull
      <3>2. u.color[k] = v.color[c]
        BY <3>1, RenamedAt
      <3>3. QED
        BY ONLY <2>2, <3>1, <3>2, k = Now(z, y, c) DEF IsRed
    <2>3. QED
      BY ONLY <2>1, <2>2
  <1>2. ASSUME NEW k \in Keys, IsRed(u, k), IsRed(u, u.parent[k])
        PROVE  \E j \in Keys : /\ IsRed(v, j) /\ IsRed(v, v.parent[j]) /\ k = Now(z, y, j)
                               /\ u.parent[k] = Now(z, y, v.parent[j])
    <2>1. k # z
      <3>1. u.parent[z] = Null
        BY RenamedGone
      <3>2. QED
        BY ONLY <1>2, <3>1 DEF IsRed
    <2> PICK j : j = Once(z, y, k)
      OBVIOUS
    <2>2. /\ j \in Keys /\ j # y /\ Now(z, y, j) = k
          /\ u.parent[k] = Now(z, y, v.parent[j])
          /\ v.parent[j] \in NodesOrNull /\ v.parent[j] # y
      BY <2>1, RenamedAt
    <2>3. IsRed(v, j) /\ IsRed(v, v.parent[j])
      BY ONLY <1>1, <1>2, <2>2 DEF NodesOrNull
    <2>4. QED
      BY ONLY <2>2, <2>3
  <1>3. QED
    BY ONLY <1>1, <1>2

(* A red-black tree stays one when y stands for z.                         *)
LEMMA RenameSettled ==
  ASSUME NEW v, NEW S, NEW H, NEW z, NEW y, Substitutes(v, S, z, y), Settled(v, S, H),
         NEW u, Renamed(v, u, z, y)
  PROVE  \E R, K : Settled(u, R, K) /\ R[u.root] = (S[v.root] \ {z}) \cup {y}
  <1> PICK R : R = Handed(S, z, y)
    OBVIOUS
  <1> PICK K : K = [n \in NodesOrNull |-> IF n = z THEN 1 ELSE H[Once(z, y, n)]]
    OBVIOUS
  <1>1. Shape(u, R) /\ R[u.root] = (S[v.root] \ {z}) \cup {y}
    BY ONLY Substitutes(v, S, z, y), Renamed(v, u, z, y), R = Handed(S, z, y), RenameShape
  <1>2. /\ z \in Keys /\ y \in Keys /\ y # z /\ y # Null /\ v.root \in NodesOrNull /\ v.root # y
    BY SubstituteFacts
  <1>3. Level(v, H, Null, "left") /\ RedPairs(v, {}) /\ ~IsRed(v, v.root)
    BY DEF Settled
  <1>4. Now(z, y, Null) = Null /\ Null # y
    BY ONLY <1>2, NowAndOnce
  <1>5. Level(u, K, Now(z, y, Null), "left")
    BY ONLY <1>3, <1>4, Substitutes(v, S, z, y), Renamed(v, u, z, y), RenameHeights,
            K = [n \in NodesOrNull |-> IF n = z THEN 1 ELSE H[Once(z, y, n)]]
  <1>6. u.root = Now(z, y, v.root)
    BY RenamedGone
  <1>7. ~IsRed(u, u.root)
    BY <1>2, <1>3, <1>6, RenameReds
  <1>8. ASSUME NEW k \in Keys, IsRed(u, k), IsRed(u, u.parent[k]) PROVE FALSE
    <2>1. \E j \in Keys : IsRed(v, j) /\ IsRed(v, v.parent[j])
      BY <1>8, RenameReds
    <2>2. QED
      BY ONLY <1>3, <2>1 DEF RedPairs
  <1>9. RedPairs(u, {})
    BY ONLY <1>8, Zenon DEF RedPairs
  <1>10. QED
    BY ONLY <1>1, <1>4, <1>5, <1>7, <1>9 DEF Settled

(* A gap stays where it is when y stands for z.                            *)
LEMMA RenameLacking ==
  ASSUME NEW v, NEW S, NEW H, NEW z, NEW y, NEW x, NEW q, NEW f, NEW u, NEW x1, NEW q1,
         Substitutes(v, S, z, y), Lacking(v, S, H, x, q, f), Renamed(v, u, z, y),
         x # y, q # y, x1 = Now(z, y, x), q1 = Now(z, y, q)
  PROVE  \E R, K : Lacking(u, R, K, x1, q1, f) /\ R[u.root] = Replaced(z, y, S[v.root])
  <1> PICK R : R = Handed(S, z, y)
    OBVIOUS
  <1> PICK K : K = [n \in NodesOrNull |-> IF n = z THEN 1 ELSE H[Once(z, y, n)]]
    OBVIOUS
  <1>1. Shape(u, R) /\ R[u.root] = (S[v.root] \ {z}) \cup {y}
    BY ONLY Substitutes(v, S, z, y), Renamed(v, u, z, y), R = Handed(S, z, y), RenameShape
  <1>2. /\ z \in Keys /\ y \in Keys /\ y # z /\ y # Null /\ v.root \in NodesOrNull /\ v.root # y
        /\ v \in TreeType /\ Parts(v, S)
    BY SubstituteFacts
  <1>3. /\ Level(v, H, q, f) /\ f \in Sides
        /\ x \in NodesOrNull /\ q \in NodesOrNull
        /\ q = Null => x = v.root
        /\ q # Null => q \in S[v.root] /\ v.child[f][q] = x
        /\ RedNear(v, x)
        /\ IsRed(v, v.root) => v.root = x
    BY DEF Lacking
  <1>n. /\ \A c : c # y => Once(z, y, Now(z, y, c)) = c /\ Now(z, y, c) # z
        /\ \A c \in NodesOrNull : Now(z, y, c) \in NodesOrNull
        /\ \A k \in Keys : Now(z, y, k) \in Keys
        /\ Now(z, y, Null) = Null
        /\ \A c : c # Null => Now(z, y, c) # Null
    BY ONLY <1>2, NowAndOnce
  <1>4. x1 = Now(z, y, x) /\ q1 = Now(z, y, q) /\ x # y /\ q # y
    OBVIOUS
  <1>5. Level(u, K, q1, f)
    BY ONLY <1>3, <1>4, Substitutes(v, S, z, y), Renamed(v, u, z, y), RenameHeights,
            K = [n \in NodesOrNull |-> IF n = z THEN 1 ELSE H[Once(z, y, n)]]
  <1>6. u.root = Now(z, y, v.root)
    BY RenamedGone
  <1>7. IsRed(u, u.root) => u.root = x1
    <2>1. IsRed(u, Now(z, y, v.root)) <=> IsRed(v, v.root)
      BY <1>2, RenameReds
    <2>2. QED
      BY ONLY <1>3, <1>4, <1>6, <2>1
  <1>8. ASSUME NEW k \in Keys, IsRed(u, k), IsRed(u, u.parent[k]) PROVE k = x1 \/ u.parent[k] = x1
    <2>1. PICK j \in Keys : /\ IsRed(v, j) /\ IsRed(v, v.parent[j]) /\ k = Now(z, y, j)
                            /\ u.parent[k] = Now(z, y, v.parent[j])
      BY <1>8, RenameReds
    <2>2. j = x \/ v.parent[j] = x
      BY ONLY <1>3, <2>1 DEF RedNear
    <2>3. QED
      BY ONLY <1>4, <2>1, <2>2
  <1>9. RedNear(u, x1)
    BY ONLY <1>8, Zenon DEF RedNear
  <1>10. q1 = Null => x1 = u.root
    BY ONLY <1>3, <1>4, <1>6, <1>n
  <1>11. ASSUME q1 # Null PROVE q1 \in R[u.root] /\ u.child[f][q1] = x1
    <2>1. q # Null /\ q \in Keys
      BY ONLY <1>3, <1>4, <1>11, <1>n DEF NodesOrNull
    <2>2. q1 \in Keys /\ q1 # z /\ Once(z, y, q1) = q
      BY ONLY <1>4, <1>n, <2>1
    <2>3. u.child[f][q1] = Now(z, y, v.child[f][q])
      <3> PICK j : j = Once(z, y, q1)
        OBVIOUS
      <3>1. u.child[f][q1] = Now(z, y, v.child[f][j])
        BY <1>3, <2>2, RenamedAt
      <3>2. QED
        BY ONLY <2>2, <3>1, j = Once(z, y, q1)
    <2>4. q1 \in (S[v.root] \ {z}) \cup {y}
      BY ONLY <1>3, <1>4, <2>1 DEF Now
    <2>5. QED
      BY ONLY <1>1, <1>3, <1>4, <2>1, <2>3, <2>4
  <1>12. x1 \in NodesOrNull /\ q1 \in NodesOrNull
    BY ONLY <1>3, <1>4, <1>n
  <1>13. Lacking(u, R, K, x1, q1, f)
    BY ONLY <1>1, <1>3, <1>5, <1>7, <1>9, <1>10, <1>11, <1>12 DEF Lacking
  <1>14. R[u.root] = Replaced(z, y, S[v.root])
    <2>1. z \in S[v.root]
      BY DEF Substitutes
    <2>2. QED
      BY ONLY <1>1, <2>1 DEF Replaced
  <1>15. QED
    BY ONLY <1>13, <1>14-----------------------------------------------------------------------------
(* Erase: what leaves the tree, and the tree that is left.                 *)

(* y is the successor of z, whose children are l and r; p, g and x are the *)
(* parent of y, the parent of z and the right child of y.                  *)
Successor(t, z, y, l, r, x, p, f, g, h) ==
  /\ t \in TreeType /\ z \in Keys /\ y \in Keys /\ l \in Keys /\ r \in Keys
  /\ x \in NodesOrNull /\ p \in Keys /\ g \in NodesOrNull /\ f \in Sides /\ h \in Sides
  /\ z # y /\ z # l /\ z # r /\ l # r /\ y # l
  /\ x # z /\ x # y /\ x # l /\ x # r
  /\ (p = z <=> y = r) /\ p # y /\ g # z /\ g # y /\ g # p
  /\ t.child["left"][z] = l /\ t.child["right"][z] = r /\ t.parent[l] = z /\ t.parent[r] = z
  /\ t.child["left"][y] = Null /\ t.child["right"][y] = x /\ (x # Null => t.parent[x] = y)
  /\ t.parent[y] = p /\ t.child[f][p] = y /\ f = SideOf(t, y) /\ (y = r => f = "right")
  /\ t.parent[z] = g /\ (g # Null => t.child[h][g] = z) /\ (g = Null <=> t.root = z)
  /\ \A k \in Keys, d \in Sides : t.child[d][k] = z => k = g /\ d = h
  /\ \A k \in Keys : t.parent[k] = z => k = l \/ k = r

(* The successor of a node with two children is the first of its right     *)
(* subtree.                                                                *)
LEMMA SuccessorIs ==
  ASSUME NEW t, NEW S, Shape(t, S), NEW z \in Keys, z \in S[t.root],
         NEW l, l = t.child["left"][z], l # Null, NEW r, r = t.child["right"][z], r # Null,
         NEW y, y = Extreme(t, "left", r), NEW x, x = t.child["right"][y],
         NEW p, p = t.parent[y], NEW f, f = SideOf(t, y), NEW g, g = t.parent[z]
  PROVE  /\ \E h : Successor(t, z, y, l, r, x, p, f, g, h)
         /\ y \in S[r] /\ y \in S[z] /\ y \in S[t.root]
         /\ \A m \in S[r] : m # y => Precedes("left", y, m)
  <1>0. /\ t \in TreeType /\ Parts(t, S) /\ Ordered(t, S) /\ Linked(t) /\ Shape(t, S)
    BY DEF Shape
  <1>q. /\ l = t.child["left"][z] /\ r = t.child["right"][z] /\ y = Extreme(t, "left", r)
        /\ x = t.child["right"][y] /\ p = t.parent[y] /\ f = SideOf(t, y) /\ g = t.parent[z]
        /\ z \in S[t.root] /\ l # Null /\ r # Null
    OBVIOUS
  <1>e. /\ "left" \in Sides /\ "right" \in Sides /\ Other("left") = "right"
        /\ Other("right") = "left" /\ "left" # "right"
        /\ \A d \in Sides : d = "left" \/ d = "right"
    BY DEF Sides, Other
  <1>1. /\ l \in Keys /\ r \in Keys /\ t.parent[l] = z /\ t.parent[r] = z /\ l # z /\ r # z /\ l # r
    <2>1. l \in Keys /\ t.parent[l] = z /\ l # z /\ r \in Keys /\ t.parent[r] = z /\ r # z
      BY ONLY <1>0, <1>e, <1>q, z \in Keys, ChildrenDiffer
    <2>2. l # r
      BY ONLY <1>0, <1>e, <1>q, z \in Keys, ChildrenDiffer
    <2>3. QED
      BY ONLY <2>1, <2>2
  <1>2. /\ y \in S[r] /\ t.child["left"][y] = Null
        /\ \A m \in S[r] : m # y => Precedes("left", y, m)
    BY ONLY <1>0, <1>1, <1>e, <1>q, ExtremeIs
  <1>3. /\ S[r] \subseteq S[z] /\ z \notin S[r] /\ S[z] \subseteq S[t.root]
        /\ y \in Keys /\ l \in S[l] /\ S[l] \subseteq S[z]
    <2>1. S[r] \subseteq S[z] /\ z \notin S[r] /\ S[l] \subseteq S[z]
      BY ONLY <1>0, <1>e, <1>q, z \in Keys, BelowShrinks
    <2>2. S[z] \subseteq S[t.root]
      BY ONLY <1>0, <1>q, z \in Keys, InTheTree
    <2>3. l \in S[l] /\ r \in S[r]
      BY ONLY <1>0, <1>1, <1>e, BelowShrinks
    <2>4. y \in Keys
      BY ONLY <1>0, <1>1, <1>2, BelowOnSide
    <2>5. QED
      BY ONLY <2>1, <2>2, <2>3, <2>4
  <1>4. y # z /\ y # l /\ y \in S[t.root] /\ y \in S[z]
    <2>1. y # l
      <3>1. Precedes("left", l, z)
        BY ONLY <1>0, <1>3, <1>e, <1>q, z \in Keys DEF Ordered
      <3>2. Precedes("right", y, z)
        BY ONLY <1>0, <1>2, <1>e, <1>q, z \in Keys DEF Ordered
      <3>3. ~(Precedes("left", l, z) /\ Precedes("left", z, l))
        BY ONLY <1>1, <1>e, z \in Keys, OrderOfKeys
      <3>4. Precedes("right", l, z) <=> Precedes("left", z, l)
        BY ONLY <1>1, <1>e, z \in Keys, OrderOfKeys
      <3>5. QED
        BY ONLY <3>1, <3>2, <3>3, <3>4
    <2>2. QED
      BY ONLY <1>2, <1>3, <2>1
  <1>5. PlaceOf(t, S, y, "left", x, p, f)
    BY ONLY <1>0, <1>2, <1>3, <1>4, <1>e, <1>q, PlaceIsOf
  <1>6. /\ x \in NodesOrNull /\ x # y /\ (x # Null => t.parent[x] = y)
        /\ p \in NodesOrNull /\ p # y /\ f \in Sides
        /\ p = Null => t.root = y
        /\ p # Null => t.child[f][p] = y /\ p \in Keys
        /\ \A k \in Keys, d \in Sides : t.child[d][k] = y => k = p /\ d = f
    BY ONLY <1>5 DEF PlaceOf
  <1>7. p \in Keys /\ t.child[f][p] = y /\ p \in S[z]
    <2>1. p \in S[z]
      BY ONLY <1>0, <1>4, <1>q, z \in Keys, ParentWithin DEF NodesOrNull
    <2>2. p \in Keys
      BY ONLY <1>0, <2>1, z \in Keys, BelowOnSide
    <2>3. QED
      BY ONLY <1>6, <2>1, <2>2, RbTreeAssumption
  <1>8. p = z <=> y = r
    <2>1. y = r => p = z
      BY ONLY <1>1, <1>q
    <2>2. p = z => y = r
      BY ONLY <1>4, <1>6, <1>7, <1>e, <1>q
    <2>3. QED
      BY ONLY <2>1, <2>2
  <1>9. x # z /\ x # l /\ x # r
    <2>1. x # Null => t.parent[x] = y
      BY ONLY <1>6
    <2>2. x # l /\ x # r
      BY ONLY <1>1, <1>4, <1>q, <2>1
    <2>3. x # z
      <3>1. SUFFICES ASSUME x = z PROVE FALSE
        OBVIOUS
      <3>2. S[x] \subseteq S[y]
        BY ONLY <1>0, <1>3, <1>e, <1>q, BelowShrinks
      <3>3. S[y] \subseteq S[r]
        BY ONLY <1>0, <1>1, <1>2, Nested DEF NodesOrNull
      <3>4. z \in S[z]
        BY ONLY <1>0, <1>e, z \in Keys, BelowShrinks
      <3>5. QED
        BY ONLY <1>3, <3>1, <3>2, <3>3, <3>4
    <2>4. QED
      BY ONLY <2>2, <2>3
  <1>10. g \in NodesOrNull /\ g \notin S[z]
    <2>1. g \in NodesOrNull
      BY ONLY <1>0, <1>q, z \in Keys, TreeFields
    <2>2. CASE g = Null
      <3>1. S[z] \subseteq Keys
        BY ONLY <1>0, z \in Keys DEF Parts, NodesOrNull
      <3>2. QED
        BY ONLY <2>1, <2>2, <3>1, RbTreeAssumption
    <2>3. CASE g # Null
      <3>1. g \in Keys
        BY ONLY <2>1, <2>3 DEF NodesOrNull
      <3>2. PICK d \in Sides : t.child[d][g] = z
        BY ONLY <1>0, <1>q, <2>3, z \in Keys DEF Linked
      <3>3. g \notin S[z]
        BY ONLY <1>0, <3>1, <3>2, BelowShrinks
      <3>4. QED
        BY ONLY <2>1, <3>3
    <2>4. QED
      BY ONLY <2>2, <2>3
  <1>11. g # z /\ g # y /\ g # p
    <2>1. z \in S[z]
      BY ONLY <1>0, <1>e, z \in Keys, BelowShrinks
    <2>2. QED
      BY ONLY <1>4, <1>7, <1>10, <2>1
  <1>12. y = r => f = "right"
    BY ONLY <1>1, <1>7, <1>8, <1>e, <1>6, <1>q
  <1>13. \A k \in Keys : t.parent[k] = z => k = l \/ k = r
    <2>1. SUFFICES ASSUME NEW k \in Keys, t.parent[k] = z PROVE k = l \/ k = r
      OBVIOUS
    <2>2. z # Null
      BY RbTreeAssumption
    <2>3. PICK d \in Sides : t.child[d][z] = k
      BY ONLY <1>0, <2>1, <2>2 DEF Linked
    <2>4. QED
      BY ONLY <1>e, <1>q, <2>3
  <1>14. g = Null <=> t.root = z
    <2>1. g = Null => t.root = z
      BY ONLY <1>0, <1>q, z \in Keys, InTheTree
    <2>2. t.root = z => g = Null
      BY ONLY <1>0, <1>q, z \in Keys, RbTreeAssumption DEF Linked
    <2>3. QED
      BY ONLY <2>1, <2>2
  <1>15. \E h \in Sides : /\ g # Null => t.child[h][g] = z
                          /\ \A k \in Keys, d \in Sides : t.child[d][k] = z => k = g /\ d = h
    <2>1. ASSUME NEW k \in Keys, NEW d \in Sides, t.child[d][k] = z PROVE k = g /\ g # Null
      BY ONLY <1>0, <1>q, <2>1, z \in Keys, RbTreeAssumption DEF Linked
    <2>2. CASE g = Null
      BY ONLY <1>e, <2>1, <2>2
    <2>3. CASE g # Null
      <3>1. PICK h \in Sides : h = SideOf(t, z)
        BY ONLY <1>0, <1>q, <2>3, z \in Keys, SideOfIs
      <3>2. t.child[h][g] = z /\ \A d \in Sides : t.child[d][g] = z => d = h
        BY ONLY <1>0, <1>q, <2>3, <3>1, z \in Keys, SideOfIs
      <3>3. QED
        BY ONLY <2>1, <3>2, h \in Sides
    <2>4. QED
      BY ONLY <2>2, <2>3
  <1>16. PICK h \in Sides : /\ g # Null => t.child[h][g] = z
                            /\ \A k \in Keys, d \in Sides : t.child[d][k] = z => k = g /\ d = h
    BY <1>15
  <1>17. Successor(t, z, y, l, r, x, p, f, g, h)
    BY ONLY <1>0, <1>1, <1>2, <1>3, <1>4, <1>6, <1>7, <1>8, <1>9, <1>10, <1>11, <1>12, <1>13,
            <1>14, <1>16, <1>q, z \in Keys, h \in Sides DEF Successor
  <1>18. QED
    BY ONLY <1>2, <1>4, <1>17
(* u is t without the links and the colour of z.                           *)
Freed(t, u, z) ==
  /\ u \in TreeType
  /\ u.root = t.root
  /\ \A k \in Keys : u.color[k] = IF k = z THEN Red ELSE t.color[k]
  /\ \A d \in Sides, k \in Keys : u.child[d][k] = IF k = z THEN Null ELSE t.child[d][k]
  /\ \A k \in Keys : u.parent[k] = IF k = z THEN Null ELSE t.parent[k]

(* The node is freed.                                                      *)
LEMMA FreedFields ==
  ASSUME NEW t \in TreeType, NEW z \in Keys,
         NEW u, u = [t EXCEPT !.child["left"][z] = Null, !.child["right"][z] = Null,
                              !.parent[z] = Null, !.color[z] = Red]
  PROVE  Freed(t, u, z)
  <1>1. /\ t = [root |-> t.root, child |-> t.child, parent |-> t.parent, color |-> t.color]
        /\ t.root \in NodesOrNull
        /\ t.child \in [Sides -> [Keys -> NodesOrNull]]
        /\ t.parent \in [Keys -> NodesOrNull]
        /\ t.color \in [Keys -> {Red, Black}]
    BY DEF TreeType
  <1>2. u = [root |-> t.root,
             child |-> [[t.child EXCEPT !["left"][z] = Null] EXCEPT !["right"][z] = Null],
             parent |-> [t.parent EXCEPT ![z] = Null], color |-> [t.color EXCEPT ![z] = Red]]
    BY ONLY <1>1, u = [t EXCEPT !.child["left"][z] = Null, !.child["right"][z] = Null,
                                !.parent[z] = Null, !.color[z] = Red]
  <1> PICK c : c = [[t.child EXCEPT !["left"][z] = Null] EXCEPT !["right"][z] = Null]
    OBVIOUS
  <1>e. "left" # "right" /\ Sides = {"left", "right"} /\ Null \in NodesOrNull
    BY DEF Sides, NodesOrNull
  <1>3. /\ c \in [Sides -> [Keys -> NodesOrNull]]
        /\ \A d \in Sides, k \in Keys : c[d][k] = IF k = z THEN Null ELSE t.child[d][k]
    <2> PICK b : b = [t.child EXCEPT !["left"][z] = Null]
      OBVIOUS
    <2>1. /\ b \in [Sides -> [Keys -> NodesOrNull]]
          /\ \A d \in Sides, k \in Keys :
               b[d][k] = IF k = z /\ d = "left" THEN Null ELSE t.child[d][k]
      BY ONLY <1>1, <1>e, z \in Keys, b = [t.child EXCEPT !["left"][z] = Null]
    <2>2. c = [b EXCEPT !["right"][z] = Null]
      BY ONLY b = [t.child EXCEPT !["left"][z] = Null],
              c = [[t.child EXCEPT !["left"][z] = Null] EXCEPT !["right"][z] = Null]
    <2>3. /\ c \in [Sides -> [Keys -> NodesOrNull]]
          /\ \A d \in Sides, k \in Keys :
               c[d][k] = IF k = z /\ d = "right" THEN Null ELSE b[d][k]
      BY ONLY <2>1, <2>2, <1>e, z \in Keys
    <2>4. QED
      BY ONLY <2>1, <2>3, <1>e
  <1>4. u.root = t.root /\ u.child = c /\ u.parent = [t.parent EXCEPT ![z] = Null]
        /\ u.color = [t.color EXCEPT ![z] = Red]
    BY ONLY <1>2, c = [[t.child EXCEPT !["left"][z] = Null] EXCEPT !["right"][z] = Null]
  <1>5. u \in TreeType
    <2>1. /\ [t.parent EXCEPT ![z] = Null] \in [Keys -> NodesOrNull]
          /\ [t.color EXCEPT ![z] = Red] \in [Keys -> {Red, Black}]
      BY ONLY <1>1, <1>e, z \in Keys
    <2>2. u = [root |-> t.root, child |-> c, parent |-> [t.parent EXCEPT ![z] = Null],
               color |-> [t.color EXCEPT ![z] = Red]]
      BY ONLY <1>2, c = [[t.child EXCEPT !["left"][z] = Null] EXCEPT !["right"][z] = Null]
    <2>3. QED
      BY ONLY <1>1, <1>3, <2>1, <2>2 DEF TreeType
  <1>6. QED
    BY ONLY <1>1, <1>3, <1>4, <1>5, z \in Keys DEF Freed

(* The fields when y has taken the place of z and x that of y.             *)
Unlinked(t, u, z, y, l, r, x, p, f, g, h) ==
  /\ u \in TreeType
  /\ u.root = IF g = Null THEN y ELSE t.root
  /\ \A k \in Keys :
       u.color[k] = IF k = z THEN Red ELSE IF k = y THEN t.color[z] ELSE t.color[k]
  /\ \A d \in Sides, k \in Keys :
       u.child[d][k] = IF k = z THEN Null
                       ELSE IF k = y THEN IF d = "left" THEN l ELSE IF y = r THEN x ELSE r
                       ELSE IF k = g /\ d = h THEN y
                       ELSE IF k = p /\ d = f THEN x ELSE t.child[d][k]
  /\ \A k \in Keys :
       u.parent[k] = IF k = z THEN Null ELSE IF k = y THEN g
                     ELSE IF k = l \/ k = r THEN y
                     ELSE IF k = x THEN IF y = r THEN y ELSE p ELSE t.parent[k]

(* Between y and the right subtree of z: x goes to the parent of y, and y  *)
(* gets the right subtree.                                                 *)
LEMMA RelinkFields ==
  ASSUME NEW t, NEW z, NEW y, NEW l, NEW r, NEW x, NEW p, NEW f, NEW g, NEW h,
         Successor(t, z, y, l, r, x, p, f, g, h),
         NEW u, u = IF y = r THEN t ELSE Hang(Lift(t, y, x), y, "right", r)
  PROVE  /\ u \in TreeType /\ u.root = t.root /\ u.color = t.color
         /\ \A d \in Sides, k \in Keys :
              u.child[d][k] = IF y = r THEN t.child[d][k]
                              ELSE IF k = y /\ d = "right" THEN r
                              ELSE IF k = p /\ d = f THEN x ELSE t.child[d][k]
         /\ \A k \in Keys :
              u.parent[k] = IF y = r THEN t.parent[k] ELSE IF k = r THEN y
                            ELSE IF k = x THEN p ELSE t.parent[k]
  <1>1. /\ t \in TreeType /\ y \in Keys /\ r \in Keys /\ x \in NodesOrNull /\ p \in Keys
        /\ t.parent[y] = p /\ f = SideOf(t, y) /\ p # Null
    BY RbTreeAssumption DEF Successor
  <1>2. CASE y = r
    BY <1>1, <1>2
  <1>3. CASE y # r
    <2> PICK v : v = Lift(t, y, x)
      OBVIOUS
    <2>1. Lifted(t, v, p, f, x)
      BY ONLY <1>1, v = Lift(t, y, x), LiftFields
    <2>2. u = Hang(v, y, "right", r) /\ v \in TreeType
      BY <1>3, <2>1 DEF Lifted
    <2>3. Hung(v, u, y, "right", r)
      BY ONLY <1>1, <2>2, HangFields DEF Sides, NodesOrNull
    <2>4. /\ v.root = t.root /\ v.color = t.color
          /\ \A d \in Sides, k \in Keys :
               v.child[d][k] = IF k = p /\ d = f THEN x ELSE t.child[d][k]
          /\ \A k \in Keys : v.parent[k] = IF k = x THEN p ELSE t.parent[k]
      BY ONLY <1>1, <2>1 DEF Lifted
    <2>5. /\ u \in TreeType /\ u.root = v.root /\ u.color = v.color
          /\ \A d \in Sides, k \in Keys :
               u.child[d][k] = IF d = "right" /\ k = y THEN r ELSE v.child[d][k]
          /\ \A k \in Keys : u.parent[k] = IF k = r THEN y ELSE v.parent[k]
      BY ONLY <2>3 DEF Hung
    <2>6. QED
      BY ONLY <1>3, <2>4, <2>5
  <1>4. QED
    BY ONLY <1>2, <1>3

(* Erase of a node with two children, before its fields are freed.         *)
LEMMA UnlinkTwo ==
  ASSUME NEW t, NEW z, NEW y, NEW l, NEW r, NEW x, NEW p, NEW f, NEW g, NEW h,
         Successor(t, z, y, l, r, x, p, f, g, h),
         NEW t2, t2 = IF y = r THEN t ELSE Hang(Lift(t, y, x), y, "right", r),
         NEW t5, t5 = Paint(Lift(Hang(t2, y, "left", l), z, y), y, t.color[z]),
         NEW u, u = [t5 EXCEPT !.child["left"][z] = Null, !.child["right"][z] = Null,
                               !.parent[z] = Null, !.color[z] = Red]
  PROVE  Unlinked(t, u, z, y, l, r, x, p, f, g, h)
  <1> PICK t3 : t3 = Hang(t2, y, "left", l)
    OBVIOUS
  <1> PICK t4 : t4 = Lift(t3, z, y)
    OBVIOUS
  <1>s. Successor(t, z, y, l, r, x, p, f, g, h)
    OBVIOUS
  <1>1. /\ t \in TreeType /\ z \in Keys /\ y \in Keys /\ l \in Keys /\ r \in Keys
        /\ x \in NodesOrNull /\ p \in Keys /\ g \in NodesOrNull /\ f \in Sides /\ h \in Sides
        /\ z # y /\ z # l /\ z # r /\ l # r /\ y # l
        /\ x # z /\ x # y /\ x # l /\ x # r
        /\ (p = z <=> y = r) /\ p # y /\ g # z /\ g # y /\ g # p
        /\ t.color[z] \in {Red, Black}
    BY <1>s, TreeFields DEF Successor
  <1>2. /\ t.child["left"][z] = l /\ t.child["right"][z] = r /\ t.parent[l] = z /\ t.parent[r] = z
        /\ t.child["left"][y] = Null /\ t.child["right"][y] = x /\ (x # Null => t.parent[x] = y)
        /\ t.parent[y] = p /\ t.child[f][p] = y
        /\ t.parent[z] = g /\ (g # Null => t.child[h][g] = z)
    BY <1>s DEF Successor
  <1>3. /\ \A k \in Keys, d \in Sides : t.child[d][k] = z => k = g /\ d = h
        /\ \A k \in Keys : t.parent[k] = z => k = l \/ k = r
    BY <1>s DEF Successor
  <1>4. /\ t2 \in TreeType /\ t2.root = t.root /\ t2.color = t.color
        /\ \A d \in Sides, k \in Keys :
             t2.child[d][k] = IF y = r THEN t.child[d][k]
                              ELSE IF k = y /\ d = "right" THEN r
                              ELSE IF k = p /\ d = f THEN x ELSE t.child[d][k]
        /\ \A k \in Keys :
             t2.parent[k] = IF y = r THEN t.parent[k] ELSE IF k = r THEN y
                            ELSE IF k = x THEN p ELSE t.parent[k]
    BY ONLY <1>s, t2 = IF y = r THEN t ELSE Hang(Lift(t, y, x), y, "right", r), RelinkFields
  <1>5. Hung(t2, t3, y, "left", l)
    BY ONLY <1>1, <1>4, t3 = Hang(t2, y, "left", l), HangFields DEF Sides, NodesOrNull
  <1>6. /\ t3 \in TreeType /\ t3.root = t.root /\ t3.color = t.color
        /\ \A d \in Sides, k \in Keys :
             t3.child[d][k] = IF d = "left" /\ k = y THEN l ELSE t2.child[d][k]
        /\ \A k \in Keys : t3.parent[k] = IF k = l THEN y ELSE t2.parent[k]
    BY ONLY <1>4, <1>5 DEF Hung
  <1>7. t3.parent[z] = g
    BY ONLY <1>1, <1>2, <1>4, <1>6
  <1>8. g # Null => SideOf(t3, z) = h
    <2>1. SUFFICES ASSUME g # Null PROVE SideOf(t3, z) = h
      OBVIOUS
    <2>2. g \in Keys /\ "left" \in Sides /\ (h = "left" \/ h = "right")
      BY ONLY <1>1, <2>1 DEF NodesOrNull, Sides
    <2>3. t3.child["left"][g] = t.child["left"][g]
      BY ONLY <1>1, <1>4, <1>6, <2>2
    <2>4. t.child["left"][g] = z <=> h = "left"
      BY ONLY <1>2, <1>3, <2>1, <2>2
    <2>5. QED
      BY ONLY <1>7, <2>2, <2>3, <2>4 DEF SideOf
  <1>9. Lifted(t3, t4, g, SideOf(t3, z), y)
    BY ONLY <1>1, <1>6, <1>7, t4 = Lift(t3, z, y), LiftFields DEF NodesOrNull
  <1>10. /\ t4 \in TreeType /\ t4.root = (IF g = Null THEN y ELSE t.root) /\ t4.color = t.color
         /\ \A d \in Sides, k \in Keys :
              t4.child[d][k] = IF k = g /\ d = h THEN y ELSE t3.child[d][k]
         /\ \A k \in Keys : t4.parent[k] = IF k = y THEN g ELSE t3.parent[k]
    <2>1. \A k \in Keys : k # Null
      BY RbTreeAssumption
    <2>2. QED
      BY ONLY <1>6, <1>8, <1>9, <2>1 DEF Lifted
  <1>11. Painted(t4, t5, y, t.color[z])
    <2>1. t5 = Paint(t4, y, t.color[z])
      BY ONLY t3 = Hang(t2, y, "left", l), t4 = Lift(t3, z, y),
              t5 = Paint(Lift(Hang(t2, y, "left", l), z, y), y, t.color[z])
    <2>2. QED
      BY ONLY <1>1, <1>10, <2>1, PaintFields DEF NodesOrNull
  <1>12. /\ t5 \in TreeType /\ t5.root = t4.root /\ t5.child = t4.child /\ t5.parent = t4.parent
         /\ \A k \in Keys : t5.color[k] = IF k = y THEN t.color[z] ELSE t.color[k]
    BY ONLY <1>10, <1>11 DEF Painted
  <1>13. Freed(t5, u, z)
    BY ONLY <1>1, <1>12, FreedFields,
            u = [t5 EXCEPT !.child["left"][z] = Null, !.child["right"][z] = Null,
                           !.parent[z] = Null, !.color[z] = Red]
  <1>14. /\ u \in TreeType /\ u.root = IF g = Null THEN y ELSE t.root
         /\ \A k \in Keys :
              u.color[k] = IF k = z THEN Red ELSE IF k = y THEN t.color[z] ELSE t.color[k]
    BY ONLY <1>10, <1>12, <1>13 DEF Freed
  <1>15. /\ \A d \in Sides, k \in Keys : u.child[d][k] = IF k = z THEN Null ELSE t4.child[d][k]
         /\ \A k \in Keys : u.parent[k] = IF k = z THEN Null ELSE t4.parent[k]
    BY ONLY <1>12, <1>13 DEF Freed
  <1>16. ASSUME NEW d \in Sides, NEW k \in Keys
         PROVE  u.child[d][k] = IF k = z THEN Null
                       ELSE IF k = y THEN IF d = "left" THEN l ELSE IF y = r THEN x ELSE r
                       ELSE IF k = g /\ d = h THEN y
                       ELSE IF k = p /\ d = f THEN x ELSE t.child[d][k]
    <2>1. d = "left" \/ d = "right"
      BY DEF Sides
    <2>2. CASE k = z
      BY ONLY <1>15, <1>16, <2>2
    <2>3. CASE k # z /\ k = y
      BY ONLY <1>1, <1>2, <1>4, <1>6, <1>10, <1>15, <1>16, <2>1, <2>3
    <2>4. CASE k # z /\ k # y
      BY ONLY <1>1, <1>4, <1>6, <1>10, <1>15, <1>16, <2>4
    <2>5. QED
      BY ONLY <2>2, <2>3, <2>4
  <1>17. ASSUME NEW k \in Keys
         PROVE  u.parent[k] = IF k = z THEN Null ELSE IF k = y THEN g
                     ELSE IF k = l \/ k = r THEN y
                     ELSE IF k = x THEN IF y = r THEN y ELSE p ELSE t.parent[k]
    <2>1. CASE k = z \/ k = y
      BY ONLY <1>1, <1>10, <1>15, <1>17, <2>1
    <2>2. CASE k # z /\ k # y
      <3>1. k # Null
        BY RbTreeAssumption
      <3>2. QED
        BY ONLY <1>1, <1>2, <1>4, <1>6, <1>10, <1>15, <1>17, <2>2, <3>1
    <2>3. QED
      BY ONLY <2>1, <2>2
  <1>18. QED
    BY ONLY <1>14, <1>16, <1>17, Zenon DEF Unlinked
(* The code's order of the changes comes to this: first y leaves its       *)
(* place, then it stands for z.                                            *)
LEMMA UnlinkedIsRenamed ==
  ASSUME NEW t, NEW z, NEW y, NEW l, NEW r, NEW x, NEW p, NEW f, NEW g, NEW h,
         Successor(t, z, y, l, r, x, p, f, g, h),
         NEW v, Spliced(t, v, y, x, p, f), NEW u, Unlinked(t, u, z, y, l, r, x, p, f, g, h)
  PROVE  Renamed(v, u, z, y)
  <1>1. /\ t \in TreeType /\ z \in Keys /\ y \in Keys /\ l \in Keys /\ r \in Keys
        /\ x \in NodesOrNull /\ p \in Keys /\ g \in NodesOrNull /\ f \in Sides /\ h \in Sides
        /\ z # y /\ z # l /\ z # r /\ l # r /\ y # l
        /\ x # z /\ x # y /\ x # l /\ x # r
        /\ (p = z <=> y = r) /\ p # y /\ g # z /\ g # y /\ g # p
        /\ (y = r => f = "right")
    BY DEF Successor
  <1>2. /\ t.child["left"][z] = l /\ t.child["right"][z] = r /\ t.parent[l] = z /\ t.parent[r] = z
        /\ (x # Null => t.parent[x] = y)
        /\ t.parent[y] = p /\ t.child[f][p] = y
        /\ t.parent[z] = g /\ (g # Null => t.child[h][g] = z) /\ (g = Null <=> t.root = z)
    BY DEF Successor
  <1>3. /\ \A k \in Keys, d \in Sides : t.child[d][k] = z => k = g /\ d = h
        /\ \A k \in Keys : t.parent[k] = z => k = l \/ k = r
    BY DEF Successor
  <1>4. /\ v \in TreeType
        /\ v.root = IF p = Null THEN x ELSE t.root
        /\ \A k \in Keys : v.color[k] = IF k = y THEN Red ELSE t.color[k]
        /\ \A d \in Sides, k \in Keys :
             v.child[d][k] = IF k = y THEN Null ELSE IF k = p /\ d = f THEN x ELSE t.child[d][k]
        /\ \A k \in Keys :
             v.parent[k] = IF k = y THEN Null ELSE IF k = x THEN p ELSE t.parent[k]
    BY DEF Spliced
  <1>5. /\ u \in TreeType
        /\ u.root = IF g = Null THEN y ELSE t.root
        /\ \A k \in Keys :
             u.color[k] = IF k = z THEN Red ELSE IF k = y THEN t.color[z] ELSE t.color[k]
        /\ \A d \in Sides, k \in Keys :
             u.child[d][k] = IF k = z THEN Null
                             ELSE IF k = y THEN IF d = "left" THEN l ELSE IF y = r THEN x ELSE r
                             ELSE IF k = g /\ d = h THEN y
                             ELSE IF k = p /\ d = f THEN x ELSE t.child[d][k]
        /\ \A k \in Keys :
             u.parent[k] = IF k = z THEN Null ELSE IF k = y THEN g
                           ELSE IF k = l \/ k = r THEN y
                           ELSE IF k = x THEN IF y = r THEN y ELSE p ELSE t.parent[k]
    BY Zenon DEF Unlinked
  <1>n. /\ \A k \in Keys : k # Null
        /\ \A d \in Sides : d = "left" \/ d = "right"
        /\ "left" # "right"
    BY RbTreeAssumption DEF Sides
  <1>6. u.root = Now(z, y, v.root)
    BY ONLY <1>1, <1>2, <1>4, <1>5, <1>n DEF Now
  <1>7. \A k \in Keys : u.color[k] = IF k = z THEN Red ELSE v.color[Once(z, y, k)]
    BY ONLY <1>1, <1>4, <1>5 DEF Once
  <1>8. ASSUME NEW d \in Sides, NEW k \in Keys, k # z
        PROVE  u.child[d][k] = Now(z, y, v.child[d][Once(z, y, k)])
    <2>1. CASE k = y
      <3>1. Once(z, y, k) = z
        BY ONLY <2>1 DEF Once
      <3>2. v.child[d][z] = IF z = p /\ d = f THEN x ELSE t.child[d][z]
        BY ONLY <1>1, <1>4, <1>8
      <3>3. v.child[d][z] # z
        BY ONLY <1>1, <1>2, <1>n, <1>8, <3>2
      <3>4. u.child[d][k] = v.child[d][z]
        BY ONLY <1>1, <1>2, <1>5, <1>8, <1>n, <2>1, <3>2
      <3>5. QED
        BY ONLY <3>1, <3>3, <3>4 DEF Now
    <2>2. CASE k # y
      <3>1. Once(z, y, k) = k
        BY ONLY <2>2 DEF Once
      <3>2. v.child[d][k] = IF k = p /\ d = f THEN x ELSE t.child[d][k]
        BY ONLY <1>4, <1>8, <2>2
      <3>3. u.child[d][k] = IF k = g /\ d = h THEN y
                            ELSE IF k = p /\ d = f THEN x ELSE t.child[d][k]
        BY ONLY <1>5, <1>8, <2>2
      <3>4. CASE k = g /\ d = h
        <4>1. v.child[d][k] = z
          BY ONLY <1>1, <1>2, <1>n, <1>8, <3>2, <3>4
        <4>2. QED
          BY ONLY <3>1, <3>3, <3>4, <4>1 DEF Now
      <3>5. CASE ~(k = g /\ d = h)
        <4>1. v.child[d][k] # z
          BY ONLY <1>1, <1>3, <1>8, <3>2, <3>5
        <4>2. QED
          BY ONLY <3>1, <3>2, <3>3, <3>5, <4>1 DEF Now
      <3>6. QED
        BY ONLY <3>4, <3>5
    <2>3. QED
      BY ONLY <2>1, <2>2
  <1>9. ASSUME NEW k \in Keys, k # z
        PROVE  u.parent[k] = Now(z, y, v.parent[Once(z, y, k)])
    <2>1. CASE k = y
      <3>1. Once(z, y, k) = z
        BY ONLY <2>1 DEF Once
      <3>2. v.parent[z] = g /\ u.parent[k] = g
        BY ONLY <1>1, <1>2, <1>4, <1>5, <1>9, <2>1
      <3>3. QED
        BY ONLY <1>1, <3>1, <3>2 DEF Now
    <2>2. CASE k # y
      <3>1. Once(z, y, k) = k
        BY ONLY <2>2 DEF Once
      <3>2. v.parent[k] = IF k = x THEN p ELSE t.parent[k]
        BY ONLY <1>4, <1>9, <2>2
      <3>3. u.parent[k] = IF k = l \/ k = r THEN y
                          ELSE IF k = x THEN IF y = r THEN y ELSE p ELSE t.parent[k]
        BY ONLY <1>5, <1>9, <2>2
      <3>4. CASE k = l \/ k = r
        BY ONLY <1>1, <1>2, <3>1, <3>2, <3>3, <3>4 DEF Now
      <3>5. CASE ~(k = l \/ k = r) /\ k = x
        BY ONLY <1>1, <3>1, <3>2, <3>3, <3>5 DEF Now
      <3>6. CASE ~(k = l \/ k = r) /\ k # x
        BY ONLY <1>3, <1>9, <3>1, <3>2, <3>3, <3>6 DEF Now
      <3>7. QED
        BY ONLY <3>4, <3>5, <3>6
    <2>3. QED
      BY ONLY <2>1, <2>2
  <1>10. /\ \A d \in Sides, k \in Keys :
              u.child[d][k] = IF k = z THEN Null ELSE Now(z, y, v.child[d][Once(z, y, k)])
         /\ \A k \in Keys :
              u.parent[k] = IF k = z THEN Null ELSE Now(z, y, v.parent[Once(z, y, k)])
    BY ONLY <1>1, <1>5, <1>8, <1>9
  <1>11. QED
    BY ONLY <1>5, <1>6, <1>7, <1>10 DEF Renamed

(* There is a tree that y has left.                                        *)
LEMMA SplicedExists ==
  ASSUME NEW t, NEW S, NEW y, NEW e, NEW x, NEW p, NEW f, PlaceOf(t, S, y, e, x, p, f)
  PROVE  \E v : Spliced(t, v, y, x, p, f)
  <1>1. t \in TreeType /\ x \in NodesOrNull /\ p \in NodesOrNull /\ Null \in NodesOrNull
    BY DEF PlaceOf, NodesOrNull
  <1>2. /\ t.root \in NodesOrNull
        /\ \A n \in Keys, s \in Sides : t.child[s][n] \in NodesOrNull
        /\ \A n \in Keys : t.parent[n] \in NodesOrNull
        /\ \A n \in Keys : t.color[n] \in {Red, Black}
    BY ONLY <1>1, TreeFields
  <1> PICK c : c = [d \in Sides |-> [k \in Keys |->
                      IF k = y THEN Null ELSE IF k = p /\ d = f THEN x ELSE t.child[d][k]]]
    OBVIOUS
  <1> PICK b : b = [k \in Keys |-> IF k = y THEN Null ELSE IF k = x THEN p ELSE t.parent[k]]
    OBVIOUS
  <1> PICK a : a = [k \in Keys |-> IF k = y THEN Red ELSE t.color[k]]
    OBVIOUS
  <1>3. /\ c \in [Sides -> [Keys -> NodesOrNull]]
        /\ \A d \in Sides, k \in Keys :
             c[d][k] = IF k = y THEN Null ELSE IF k = p /\ d = f THEN x ELSE t.child[d][k]
    BY ONLY <1>1, <1>2,
       c = [d \in Sides |-> [k \in Keys |->
              IF k = y THEN Null ELSE IF k = p /\ d = f THEN x ELSE t.child[d][k]]]
  <1>4. /\ b \in [Keys -> NodesOrNull]
        /\ \A k \in Keys : b[k] = IF k = y THEN Null ELSE IF k = x THEN p ELSE t.parent[k]
    BY ONLY <1>1, <1>2,
       b = [k \in Keys |-> IF k = y THEN Null ELSE IF k = x THEN p ELSE t.parent[k]]
  <1>5. /\ a \in [Keys -> {Red, Black}]
        /\ \A k \in Keys : a[k] = IF k = y THEN Red ELSE t.color[k]
    BY ONLY <1>2, a = [k \in Keys |-> IF k = y THEN Red ELSE t.color[k]]
  <1> PICK m : m = IF p = Null THEN x ELSE t.root
    OBVIOUS
  <1>6. m \in NodesOrNull
    BY ONLY <1>1, <1>2, m = IF p = Null THEN x ELSE t.root
  <1> PICK v : v = [root |-> m, child |-> c, parent |-> b, color |-> a]
    OBVIOUS
  <1>7. /\ v.root = m /\ v.child = c /\ v.parent = b /\ v.color = a
        /\ v \in TreeType
    BY ONLY <1>3, <1>4, <1>5, <1>6, v = [root |-> m, child |-> c, parent |-> b, color |-> a]
       DEF TreeType
  <1>8. Spliced(t, v, y, x, p, f)
    BY ONLY <1>3, <1>4, <1>5, <1>7, m = IF p = Null THEN x ELSE t.root DEF Spliced
  <1>9. QED
    BY ONLY <1>8

(* The successor can stand for the node.                                   *)
LEMMA SuccessorSubstitutes ==
  ASSUME NEW t, NEW S, Shape(t, S), NEW z \in Keys, z \in S[t.root], NEW r \in Keys,
         r = t.child["right"][z], NEW y \in Keys, y \in S[r], y # z,
         \A m \in S[r] : m # y => Precedes("left", y, m),
         NEW v, Shape(v, Without(S, y)), Without(S, y)[v.root] = S[t.root] \ {y}
  PROVE  Substitutes(v, Without(S, y), z, y)
  <1>0. /\ t \in TreeType /\ Parts(t, S) /\ Ordered(t, S) /\ Shape(t, S)
        /\ z \in S[t.root] /\ r = t.child["right"][z] /\ y \in S[r] /\ y # z
    BY DEF Shape
  <1>e. /\ "left" \in Sides /\ "right" \in Sides /\ Other("left") = "right"
        /\ Other("right") = "left"
        /\ \A d \in Sides : d = "left" \/ d = "right"
    BY DEF Sides, Other
  <1>1. t.root \in NodesOrNull /\ z \in NodesOrNull /\ S[t.root] \subseteq Keys
    BY ONLY <1>0, TreeFields, z \in Keys DEF Parts, NodesOrNull
  <1>2. Precedes("right", y, z) /\ y \in S[z]
    <2>1. Precedes("right", y, z)
      BY ONLY <1>0, <1>e, z \in Keys DEF Ordered
    <2>2. S[r] \subseteq S[z]
      BY ONLY <1>0, <1>e, z \in Keys, BelowShrinks
    <2>3. QED
      BY ONLY <1>0, <2>1, <2>2
  <1>3. ASSUME NEW m \in S[t.root], m # y, m # z, NEW d \in Sides
        PROVE  Precedes(d, m, z) <=> Precedes(d, m, y)
    <2>0. m \in Keys
      BY ONLY <1>1, <1>3
    <2>1. CASE m \notin S[z]
      <3>1. \A s \in Sides : Precedes(s, y, m) <=> Precedes(s, z, m)
        BY ONLY <1>0, <1>1, <1>2, <1>3, <2>1, Convex
      <3>2. Precedes(Other(d), y, m) <=> Precedes(Other(d), z, m)
        BY ONLY <1>3, <3>1, TwoSides
      <3>3. /\ Precedes(Other(d), y, m) <=> Precedes(d, m, y)
            /\ Precedes(Other(d), z, m) <=> Precedes(d, m, z)
        BY ONLY <1>3, <2>0, y \in Keys, z \in Keys, OrderOfKeys
      <3>4. QED
        BY ONLY <3>2, <3>3
    <2>2. CASE m \in S[r]
      <3>1. Precedes("left", y, m)
        BY <1>3, <2>2
      <3>2. Precedes("right", m, z)
        BY ONLY <1>0, <1>e, <2>2, z \in Keys DEF Ordered
      <3>3. m \in Nat /\ y \in Nat /\ z \in Nat
        BY ONLY <2>0, y \in Keys, z \in Keys, RbTreeAssumption
      <3>4. QED
        BY ONLY <1>3, <1>e, <3>1, <3>2, <3>3 DEF Precedes
    <2>3. CASE m \in S[z] /\ m \notin S[r]
      <3>1. PICK s \in Sides : m \in S[t.child[s][z]]
        BY ONLY <1>0, <1>3, <2>3, z \in Keys, BelowOnSide
      <3>2. m \in S[t.child["left"][z]]
        BY ONLY <1>0, <1>e, <2>3, <3>1
      <3>3. Precedes("left", m, z)
        BY ONLY <1>0, <1>e, <3>2, z \in Keys DEF Ordered
      <3>4. m \in Nat /\ y \in Nat /\ z \in Nat
        BY ONLY <2>0, y \in Keys, z \in Keys, RbTreeAssumption
      <3>5. QED
        BY ONLY <1>2, <1>3, <1>e, <3>3, <3>4 DEF Precedes
    <2>4. QED
      BY ONLY <2>1, <2>2, <2>3
  <1> PICK R : R = Without(S, y)
    OBVIOUS
  <1>4. Shape(v, R) /\ R[v.root] = S[t.root] \ {y}
    OBVIOUS
  <1>5. z \in R[v.root] /\ y \notin R[v.root]
    BY ONLY <1>0, <1>4
  <1>6. \A m \in R[v.root], d \in Sides : m # z => (Precedes(d, m, z) <=> Precedes(d, m, y))
    BY ONLY <1>3, <1>4
  <1>7. QED
    BY ONLY <1>4, <1>5, <1>6, z \in Keys, y \in Keys, R = Without(S, y) DEF Substitutes
(* What an erase leaves: without a lost black node a red-black tree,       *)
(* otherwise a gap at the node that took the place.                        *)
ErasedTo(t, S, z, v, x, p, lost) ==
  \E R, K : /\ R[v.root] = S[t.root] \ {z}
            /\ IF lost = Red THEN Settled(v, R, K) ELSE \E f : Lacking(v, R, K, x, p, f)

(* A node without one child leaves its place to the other child.           *)
LEMMA EraseOne ==
  ASSUME NEW t, NEW S, NEW H, Settled(t, S, H), NEW z \in Keys, z \in S[t.root],
         NEW e \in Sides, t.child[e][z] = Null, NEW x, x = t.child[Other(e)][z],
         NEW t1, t1 = Lift(t, z, x),
         NEW u, u = [t1 EXCEPT !.child["left"][z] = Null, !.child["right"][z] = Null,
                               !.parent[z] = Null, !.color[z] = Red]
  PROVE  ErasedTo(t, S, z, u, x, t.parent[z], t.color[z])
  <1> PICK p : p = t.parent[z]
    OBVIOUS
  <1> PICK f : f = SideOf(t, z)
    OBVIOUS
  <1>0. Shape(t, S) /\ t \in TreeType
    BY DEF Settled, Shape
  <1>1. PlaceOf(t, S, z, e, x, p, f)
    BY <1>0, PlaceIsOf
  <1>2. x \in NodesOrNull /\ x # z /\ p # z
    BY ONLY <1>1 DEF PlaceOf
  <1>3. Lifted(t, t1, p, f, x)
    BY ONLY <1>0, <1>2, z \in Keys, p = t.parent[z], f = SideOf(t, z), t1 = Lift(t, z, x), LiftFields
  <1>4. Freed(t1, u, z)
    <2>1. t1 \in TreeType
      BY ONLY <1>3 DEF Lifted
    <2>2. QED
      BY ONLY <2>1, z \in Keys, FreedFields,
         u = [t1 EXCEPT !.child["left"][z] = Null, !.child["right"][z] = Null,
                        !.parent[z] = Null, !.color[z] = Red]
  <1>5. Spliced(t, u, z, x, p, f)
    BY ONLY <1>2, <1>3, <1>4, z \in Keys DEF Spliced, Lifted, Freed
  <1> PICK R : R = Without(S, z)
    OBVIOUS
  <1>6. R[u.root] = S[t.root] \ {z} /\ \E K : IF t.color[z] = Red THEN Settled(u, R, K)
                                                               ELSE Lacking(u, R, K, x, p, f)
    BY ONLY <1>1, <1>5, Settled(t, S, H), R = Without(S, z), SpliceColours
  <1>7. QED
    BY ONLY <1>6, p = t.parent[z] DEF ErasedTo

(* The code's steps for a node with two children.                          *)
TakesOver(t, z, l, r, y, x, t2, t5, u) ==
  /\ l = t.child["left"][z] /\ l # Null
  /\ r = t.child["right"][z] /\ r # Null
  /\ y = Extreme(t, "left", r) /\ x = t.child["right"][y]
  /\ t2 = IF y = r THEN t ELSE Hang(Lift(t, y, x), y, "right", r)
  /\ t5 = Paint(Lift(Hang(t2, y, "left", l), z, y), y, t.color[z])
  /\ u = [t5 EXCEPT !.child["left"][z] = Null, !.child["right"][z] = Null,
                    !.parent[z] = Null, !.color[z] = Red]

(* A node with two children leaves its place to its successor.             *)
LEMMA EraseTwo ==
  ASSUME NEW t, NEW S, NEW H, Settled(t, S, H), NEW z \in Keys, z \in S[t.root],
         NEW l, NEW r, NEW y, NEW x, NEW t2, NEW t5, NEW u,
         TakesOver(t, z, l, r, y, x, t2, t5, u)
  PROVE  /\ y # z
         /\ ErasedTo(t, S, z, u, x, IF y = r THEN y ELSE t.parent[y], t.color[y])
  <1> PICK p : p = t.parent[y]
    OBVIOUS
  <1> PICK f : f = SideOf(t, y)
    OBVIOUS
  <1> PICK g : g = t.parent[z]
    OBVIOUS
  <1>0. Shape(t, S) /\ t \in TreeType
    BY DEF Settled, Shape
  <1>q. /\ l = t.child["left"][z] /\ r = t.child["right"][z] /\ y = Extreme(t, "left", r)
        /\ x = t.child["right"][y] /\ p = t.parent[y] /\ f = SideOf(t, y) /\ g = t.parent[z]
        /\ z \in S[t.root] /\ l # Null /\ r # Null
    BY Zenon DEF TakesOver
  <1>1. /\ \E h : Successor(t, z, y, l, r, x, p, f, g, h)
        /\ y \in S[r] /\ y \in S[t.root]
        /\ \A m \in S[r] : m # y => Precedes("left", y, m)
    BY ONLY <1>0, <1>q, z \in Keys, SuccessorIs
  <1>2. PICK h : Successor(t, z, y, l, r, x, p, f, g, h)
    BY ONLY <1>1
  <1>3. /\ y \in Keys /\ r \in Keys /\ y # z /\ x # z /\ x # y /\ p # y
        /\ (p = z <=> y = r) /\ t.child["left"][y] = Null
    BY ONLY <1>2 DEF Successor
  <1>4. PlaceOf(t, S, y, "left", x, p, f)
    BY ONLY <1>0, <1>1, <1>3, <1>q, PlaceIsOf DEF Sides, Other
  <1>5. PICK v : Spliced(t, v, y, x, p, f)
    BY ONLY <1>4, SplicedExists
  <1>6. Unlinked(t, u, z, y, l, r, x, p, f, g, h)
    <2>1. t2 = IF y = r THEN t ELSE Hang(Lift(t, y, x), y, "right", r)
      BY Zenon DEF TakesOver
    <2>2. t5 = Paint(Lift(Hang(t2, y, "left", l), z, y), y, t.color[z])
      BY Zenon DEF TakesOver
    <2>3. u = [t5 EXCEPT !.child["left"][z] = Null, !.child["right"][z] = Null,
                         !.parent[z] = Null, !.color[z] = Red]
      BY Zenon DEF TakesOver
    <2>4. QED
      BY ONLY <1>2, <2>1, <2>2, <2>3, UnlinkTwo
  <1>7. Renamed(v, u, z, y)
    BY ONLY <1>2, <1>5, <1>6, UnlinkedIsRenamed
  <1> PICK R : R = Without(S, y)
    OBVIOUS
  <1>8. Shape(v, R) /\ R[v.root] = S[t.root] \ {y}
    BY ONLY <1>0, <1>4, <1>5, R = Without(S, y), SpliceShape
  <1>9. PICK K : IF t.color[y] = Red THEN Settled(v, R, K) ELSE Lacking(v, R, K, x, p, f)
    BY ONLY <1>4, <1>5, Settled(t, S, H), R = Without(S, y), SpliceColours
  <1>10. Substitutes(v, R, z, y)
    BY ONLY <1>0, <1>1, <1>3, <1>8, <1>q, z \in Keys, R = Without(S, y), SuccessorSubstitutes
  <1>11. (R[v.root] \ {z}) \cup {y} = S[t.root] \ {z}
    BY ONLY <1>1, <1>3, <1>8
  <1>12. CASE t.color[y] = Red
    <2>1. \E Q, J : Settled(u, Q, J) /\ Q[u.root] = S[t.root] \ {z}
      BY ONLY <1>7, <1>9, <1>10, <1>11, <1>12, RenameSettled
    <2>2. QED
      BY ONLY <1>3, <1>12, <2>1 DEF ErasedTo
  <1>13. CASE t.color[y] # Red
    <2>a. Lacking(v, R, K, x, p, f) /\ x # y /\ p # y
      BY ONLY <1>3, <1>9, <1>13
    <2> PICK x1 : x1 = Now(z, y, x)
      OBVIOUS
    <2> PICK p1 : p1 = Now(z, y, p)
      OBVIOUS
    <2> PICK T : T = S[t.root] \ {z}
      OBVIOUS
    <2>b. x1 = Now(z, y, x) /\ p1 = Now(z, y, p) /\ T = Replaced(z, y, R[v.root])
      <3>1. z \in R[v.root]
        BY ONLY <1>10 DEF Substitutes
      <3>2. QED
        BY ONLY <1>11, <3>1, x1 = Now(z, y, x), p1 = Now(z, y, p), T = S[t.root] \ {z}
           DEF Replaced
    <2>c. \E Q, J : Lacking(u, Q, J, x1, p1, f) /\ Q[u.root] = T
      BY ONLY <1>7, <1>10, <2>a, <2>b, RenameLacking
    <2>1. \E Q, J : /\ Lacking(u, Q, J, Now(z, y, x), Now(z, y, p), f)
                    /\ Q[u.root] = S[t.root] \ {z}
      BY ONLY <2>c, x1 = Now(z, y, x), p1 = Now(z, y, p), T = S[t.root] \ {z}
    <2>2. Now(z, y, x) = x /\ Now(z, y, p) = IF y = r THEN y ELSE t.parent[y]
      BY ONLY <1>3, p = t.parent[y] DEF Now
    <2>3. QED
      BY ONLY <1>3, <1>13, <2>1, <2>2 DEF ErasedTo
  <1>14. QED
    BY ONLY <1>12, <1>13

(* The first half of RebalanceForErase.                                    *)
LEMMA EraseKeeps ==
  ASSUME NEW t, NEW S, NEW H, Settled(t, S, H), NEW z \in Keys, z \in S[t.root],
         NEW w, w = Unlink(t, z)
  PROVE  ErasedTo(t, S, z, w.tree, w.x, w.parent, w.lost)
  <1> DEFINE l == t.child["left"][z]
             r == t.child["right"][z]
             y == IF l # Null /\ r # Null THEN Extreme(t, "left", r) ELSE z
             x == IF y # z THEN t.child["right"][y]
                  ELSE IF l = Null THEN r ELSE l
             freed(t1) == [t1 EXCEPT !.child["left"][z] = Null, !.child["right"][z] = Null,
                                     !.parent[z] = Null, !.color[z] = Red]
             relinked == IF y = r THEN t
                         ELSE Hang(Lift(t, y, x), y, "right", r)
  <1>1. w = IF y = z
            THEN [tree |-> freed(Lift(t, z, x)), x |-> x, parent |-> t.parent[z],
                  lost |-> t.color[z]]
            ELSE [tree |-> freed(Paint(Lift(Hang(relinked, y, "left", l), z, y),
                                       y, t.color[z])),
                  x |-> x, parent |-> IF y = r THEN y ELSE t.parent[y],
                  lost |-> t.color[y]]
    BY ONLY w = Unlink(t, z), Zenon DEF Unlink
  <1>e. /\ "left" \in Sides /\ "right" \in Sides /\ Other("left") = "right"
        /\ Other("right") = "left"
    BY DEF Sides, Other
  <1>2. CASE l = Null \/ r = Null
    <2> PICK u : u = freed(Lift(t, z, x))
      OBVIOUS
    <2>1. y = z
      BY ONLY <1>2, Zenon
    <2>2. w = [tree |-> u, x |-> x, parent |-> t.parent[z], lost |-> t.color[z]]
      BY ONLY <1>1, <2>1, u = freed(Lift(t, z, x)), Zenon
    <2>3. x = IF l = Null THEN r ELSE l
      BY ONLY <2>1, Zenon
    <2>4. PICK e \in Sides : t.child[e][z] = Null /\ x = t.child[Other(e)][z]
      <3> HIDE DEF x
      <3>1. CASE l = Null
        BY ONLY <1>e, <2>3, <3>1
      <3>2. CASE l # Null
        BY ONLY <1>2, <1>e, <2>3, <3>2
      <3>3. QED
        BY ONLY <3>1, <3>2
    <2>5. ErasedTo(t, S, z, u, x, t.parent[z], t.color[z])
      <3> PICK t1 : t1 = Lift(t, z, x)
        OBVIOUS
      <3> PICK x1 : x1 = x
        OBVIOUS
      <3>1. /\ t.child[e][z] = Null /\ x1 = t.child[Other(e)][z] /\ t1 = Lift(t, z, x1)
            /\ u = [t1 EXCEPT !.child["left"][z] = Null, !.child["right"][z] = Null,
                              !.parent[z] = Null, !.color[z] = Red]
        BY ONLY <2>4, t1 = Lift(t, z, x), x1 = x, u = freed(Lift(t, z, x)), Zenon
      <3>2. ErasedTo(t, S, z, u, x1, t.parent[z], t.color[z])
        BY ONLY <3>1, Settled(t, S, H), z \in Keys, z \in S[t.root], e \in Sides, EraseOne
      <3>3. QED
        BY ONLY <3>2, x1 = x, Zenon
    <2>6. w.tree = u /\ w.x = x /\ w.parent = t.parent[z] /\ w.lost = t.color[z]
      <3> HIDE DEF x
      <3> QED BY ONLY <2>2
    <2>7. QED
      <3> HIDE DEF x
      <3> QED BY ONLY <2>5, <2>6
  <1>3. CASE l # Null /\ r # Null
    <2> PICK y1 : y1 = Extreme(t, "left", r)
      OBVIOUS
    <2> PICK x1 : x1 = t.child["right"][y1]
      OBVIOUS
    <2> PICK t2 : t2 = IF y1 = r THEN t ELSE Hang(Lift(t, y1, x1), y1, "right", r)
      OBVIOUS
    <2> PICK t5 : t5 = Paint(Lift(Hang(t2, y1, "left", l), z, y1), y1, t.color[z])
      OBVIOUS
    <2> PICK u : u = [t5 EXCEPT !.child["left"][z] = Null, !.child["right"][z] = Null,
                                !.parent[z] = Null, !.color[z] = Red]
      OBVIOUS
    <2>1. y1 # z /\ ErasedTo(t, S, z, u, x1, IF y1 = r THEN y1 ELSE t.parent[y1], t.color[y1])
      <3> PICK l1 : l1 = l
        OBVIOUS
      <3> PICK r1 : r1 = r
        OBVIOUS
      <3>1. /\ l1 = t.child["left"][z] /\ l1 # Null /\ r1 = t.child["right"][z] /\ r1 # Null
            /\ y1 = Extreme(t, "left", r1) /\ x1 = t.child["right"][y1]
        BY ONLY <1>3, l1 = l, r1 = r, y1 = Extreme(t, "left", r), x1 = t.child["right"][y1], Zenon
      <3>2. /\ t2 = IF y1 = r1 THEN t ELSE Hang(Lift(t, y1, x1), y1, "right", r1)
            /\ t5 = Paint(Lift(Hang(t2, y1, "left", l1), z, y1), y1, t.color[z])
        BY ONLY l1 = l, r1 = r, Zenon,
           t2 = IF y1 = r THEN t ELSE Hang(Lift(t, y1, x1), y1, "right", r),
           t5 = Paint(Lift(Hang(t2, y1, "left", l), z, y1), y1, t.color[z])
      <3>a. TakesOver(t, z, l1, r1, y1, x1, t2, t5, u)
        BY ONLY <3>1, <3>2, Zenon, u = [t5 EXCEPT !.child["left"][z] = Null, !.child["right"][z] = Null,
                          !.parent[z] = Null, !.color[z] = Red] DEF TakesOver
      <3>3. y1 # z /\ ErasedTo(t, S, z, u, x1, IF y1 = r1 THEN y1 ELSE t.parent[y1], t.color[y1])
        BY ONLY <3>a, Settled(t, S, H), z \in Keys, z \in S[t.root], EraseTwo
      <3>4. QED
        BY ONLY <3>3, r1 = r, Zenon
    <2>2. y = y1
      BY ONLY <1>3, y1 = Extreme(t, "left", r), Zenon
    <2>3. x = x1
      BY ONLY <2>1, <2>2, x1 = t.child["right"][y1], Zenon
    <2>4. relinked = t2
      BY ONLY <2>2, <2>3, t2 = IF y1 = r THEN t ELSE Hang(Lift(t, y1, x1), y1, "right", r), Zenon
    <2>5. freed(t5) = u
      BY ONLY u = [t5 EXCEPT !.child["left"][z] = Null, !.child["right"][z] = Null,
                             !.parent[z] = Null, !.color[z] = Red], Zenon
    <2>6. w = [tree |-> u, x |-> x1, parent |-> IF y1 = r THEN y1 ELSE t.parent[y1],
               lost |-> t.color[y1]]
      <3> HIDE DEF y, x, relinked, freed
      <3> QED BY ONLY <1>1, <2>1, <2>2, <2>3, <2>4, <2>5, Zenon,
                 t5 = Paint(Lift(Hang(t2, y1, "left", l), z, y1), y1, t.color[z])
    <2>7. /\ w.tree = u /\ w.x = x1 /\ w.lost = t.color[y1]
          /\ w.parent = IF y1 = r THEN y1 ELSE t.parent[y1]
      BY ONLY <2>6
    <2>8. QED
      BY ONLY <2>1, <2>7
  <1>4. QED
    BY ONLY <1>2, <1>3, Zenon-----------------------------------------------------------------------------
(* The other operations, and what the operators of the properties compute. *)

(* The empty tree.                                                         *)
LEMMA EmptySettled ==
  \E S, H : Settled(Empty, S, H) /\ S[Empty.root] = {}
  <1> PICK S : S = [n \in NodesOrNull |-> IF n = Null THEN {} ELSE {n}]
    OBVIOUS
  <1> PICK H : H = [n \in NodesOrNull |-> 1]
    OBVIOUS
  <1>n. /\ Null \in NodesOrNull /\ (\A k \in Keys : k \in NodesOrNull /\ k # Null)
        /\ \A n \in NodesOrNull : n # Null => n \in Keys
    BY RbTreeAssumption DEF NodesOrNull
  <1> PICK t : t = Empty
    OBVIOUS
  <1>1. /\ t.root = Null
        /\ \A d \in Sides, k \in Keys : t.child[d][k] = Null
        /\ \A k \in Keys : t.parent[k] = Null /\ t.color[k] = Red
        /\ t \in TreeType
    <2>1. t = [root |-> Null, child |-> [d \in Sides |-> [k \in Keys |-> Null]],
               parent |-> [k \in Keys |-> Null], color |-> [k \in Keys |-> Red]]
      BY t = Empty DEF Empty, NoNode
    <2>2. QED
      BY ONLY <1>n, <2>1 DEF TreeType
  <1>2. /\ S \in [NodesOrNull -> SUBSET Keys] /\ S[Null] = {}
        /\ \A k \in Keys : S[k] = {k}
    BY ONLY <1>n, S = [n \in NodesOrNull |-> IF n = Null THEN {} ELSE {n}]
  <1>3. /\ H \in [NodesOrNull -> Nat \ {0}] /\ H[Null] = 1
        /\ \A k \in Keys : H[k] = 1
    BY ONLY <1>n, H = [n \in NodesOrNull |-> 1]
  <1>4. Shape(t, S)
    <2>1. Parts(t, S)
      BY ONLY <1>1, <1>2, TwoSides DEF Parts
    <2>2. Ordered(t, S)
      BY ONLY <1>1, <1>2 DEF Ordered
    <2>3. Linked(t)
      BY ONLY <1>1 DEF Linked
    <2>4. Apart(t, S)
      BY ONLY <1>1 DEF Apart
    <2>5. QED
      BY ONLY <1>1, <2>1, <2>2, <2>3, <2>4 DEF Shape
  <1>5. Level(t, H, Null, "left")
    <2>1. ASSUME NEW n \in Keys, NEW d \in Sides
          PROVE  H[n] = H[t.child[d][n]] + Weight(t, n) + Lack(Null, "left", n, d)
      <3>1. Lack(Null, "left", n, d) = 0
        BY ONLY <1>n, <2>1 DEF Lack
      <3>2. Weight(t, n) = 0
        BY ONLY <1>1, <2>1 DEF Weight, Red, Black
      <3>3. QED
        BY ONLY <1>1, <1>3, <2>1, <3>1, <3>2
    <2>2. QED
      BY ONLY <1>3, <2>1 DEF Level, LevelAt
  <1>6. RedPairs(t, {}) /\ ~IsRed(t, t.root)
    BY ONLY <1>1 DEF RedPairs, IsRed
  <1>7. QED
    BY <1>1, <1>2, <1>4, <1>5, <1>6 DEF Settled

(* The nodes of the tree are the keys below its root.                      *)
LEMMA NodesAre ==
  ASSUME NEW t, NEW S, Shape(t, S)
  PROVE  Nodes(t) = S[t.root]
  <1>0. t \in TreeType /\ Parts(t, S) /\ Ordered(t, S)
    BY DEF Shape
  <1>1. t.root \in NodesOrNull /\ "left" \in Sides
    BY ONLY <1>0, TreeFields DEF Sides
  <1>2. S[t.root] \subseteq Keys
    BY ONLY <1>0, <1>1 DEF Parts
  <1>3. ASSUME NEW k \in Keys PROVE k \in S[t.root] <=> t.root = k \/ t.parent[k] # Null
    <2>1. t.parent[k] # Null => k \in S[t.root]
      BY InTheTree
    <2>2. k \in S[t.root] /\ t.parent[k] = Null => k = t.root
      BY InTheTree
    <2>3. t.root = k => k \in S[t.root]
      BY ONLY <1>0, <1>1, <1>3, BelowShrinks
    <2>4. QED
      BY ONLY <2>1, <2>2, <2>3
  <1>4. QED
    BY ONLY <1>2, <1>3 DEF Nodes

(* CopyTree: the new parent links are the ones there were.                 *)
LEMMA CopyIsSame ==
  ASSUME NEW t, NEW S, Shape(t, S)
  PROVE  CopyTree(t) = t
  <1>0. t \in TreeType /\ Linked(t)
    BY DEF Shape
  <1>1. ASSUME NEW k \in Keys
        PROVE  t.parent[k] = IF \E n \in Keys : k \in {t.child[s][n] : s \in Sides}
                             THEN CHOOSE n \in Keys : k \in {t.child[s][n] : s \in Sides}
                             ELSE Null
    <2>1. k # Null /\ t.parent[k] \in NodesOrNull
      BY <1>0, <1>1, RbTreeAssumption, TreeFields
    <2>2. \A n \in Keys : k \in {t.child[s][n] : s \in Sides} => t.parent[k] = n
      BY ONLY <1>0, <2>1 DEF Linked
    <2>3. t.parent[k] # Null => k \in {t.child[s][t.parent[k]] : s \in Sides}
      BY ONLY <1>0, <1>1 DEF Linked
    <2>4. CASE \E n \in Keys : k \in {t.child[s][n] : s \in Sides}
      <3> PICK m : m = CHOOSE n \in Keys : k \in {t.child[s][n] : s \in Sides}
        OBVIOUS
      <3>1. m \in Keys /\ k \in {t.child[s][m] : s \in Sides}
        BY ONLY <2>4, m = CHOOSE n \in Keys : k \in {t.child[s][n] : s \in Sides}, Zenon
      <3>2. t.parent[k] = m
        BY ONLY <2>2, <3>1
      <3>3. QED
        BY ONLY <2>4, <3>2, m = CHOOSE n \in Keys : k \in {t.child[s][n] : s \in Sides}, Zenon
    <2>5. CASE ~ \E n \in Keys : k \in {t.child[s][n] : s \in Sides}
      <3>1. t.parent[k] = Null
        BY ONLY <2>1, <2>3, <2>5 DEF NodesOrNull
      <3>2. QED
        BY ONLY <2>5, <3>1, Zenon
    <2>6. QED
      BY ONLY <2>4, <2>5
  <1>2. t.parent = [k \in Keys |->
          IF \E n \in Keys : k \in {t.child[s][n] : s \in Sides}
          THEN CHOOSE n \in Keys : k \in {t.child[s][n] : s \in Sides}
          ELSE Null]
    <2>1. t.parent = [k \in Keys |-> t.parent[k]]
      BY ONLY <1>0 DEF TreeType
    <2>2. QED
      BY ONLY <1>1, <2>1, Zenon
  <1>3. CopyTree(t) = [t EXCEPT !.parent = t.parent]
    BY ONLY <1>2, Zenon DEF CopyTree
  <1>4. [t EXCEPT !.parent = t.parent] = t
    BY ONLY <1>0 DEF TreeType
  <1>5. QED
    BY ONLY <1>3, <1>4

(* The black height that the property computes is the one of H.            *)
LEMMA BlackHeightIs ==
  ASSUME NEW t, NEW S, NEW H, Settled(t, S, H)
  PROVE  BlackHeight(t) = H[t.root] /\ H[t.root] \in Nat \ {0}
  <1> DEFINE rank == [n \in NodesOrNull |-> Cardinality(S[n])]
  <1>0. /\ t \in TreeType /\ Parts(t, S) /\ Ordered(t, S)
        /\ H \in [NodesOrNull -> Nat \ {0}] /\ H[Null] = 1
        /\ \A n \in Keys : LevelAt(t, H, Null, "left", n)
    BY DEF Settled, Shape, Level
  <1>r. t.root \in NodesOrNull
    BY ONLY <1>0, TreeFields
  <1>e. "left" \in Sides /\ "right" \in Sides
    BY DEF Sides
  <1>1. ASSUME NEW n \in Keys
        PROVE  /\ t.child["left"][n] \in NodesOrNull /\ t.child["right"][n] \in NodesOrNull
               /\ H[t.child["left"][n]] \in Nat \ {0}
               /\ H[t.child["right"][n]] = H[t.child["left"][n]]
               /\ H[n] = IF t.color[n] = Black THEN H[t.child["left"][n]] + 1
                                               ELSE H[t.child["left"][n]]
    <2>1. t.child["left"][n] \in NodesOrNull /\ t.child["right"][n] \in NodesOrNull
      BY ONLY <1>0, <1>1, <1>e, TreeFields
    <2>2. /\ H[n] = H[t.child["left"][n]] + Weight(t, n) + 0
          /\ H[n] = H[t.child["right"][n]] + Weight(t, n) + 0
      BY ONLY <1>0, <1>1, <1>e, LevelSame
    <2>3. H[t.child["left"][n]] \in Nat \ {0} /\ H[t.child["right"][n]] \in Nat \ {0}
      BY ONLY <1>0, <2>1
    <2>4. Weight(t, n) = IF t.color[n] = Black THEN 1 ELSE 0
      BY DEF Weight
    <2>5. QED
      BY ONLY <2>1, <2>2, <2>3, <2>4
  <1>2. H = [n \in NodesOrNull |->
               IF n = Null THEN 1
               ELSE IF H[t.child["left"][n]] # H[t.child["right"][n]] \/ H[t.child["left"][n]] = 0
                    THEN 0
                    ELSE IF t.color[n] = Black THEN H[t.child["left"][n]] + 1
                                               ELSE H[t.child["left"][n]]]
    <2>1. ASSUME NEW n \in NodesOrNull
          PROVE  H[n] = IF n = Null THEN 1
               ELSE IF H[t.child["left"][n]] # H[t.child["right"][n]] \/ H[t.child["left"][n]] = 0
                    THEN 0
                    ELSE IF t.color[n] = Black THEN H[t.child["left"][n]] + 1
                                               ELSE H[t.child["left"][n]]
      <3>1. CASE n = Null
        BY ONLY <1>0, <3>1
      <3>2. CASE n # Null
        <4>1. n \in Keys
          BY ONLY <2>1, <3>2 DEF NodesOrNull
        <4>2. QED
          BY ONLY <1>1, <3>2, <4>1
      <3>3. QED
        BY ONLY <3>1, <3>2
    <2>2. H = [n \in NodesOrNull |-> H[n]]
      BY ONLY <1>0
    <2>3. QED
      BY ONLY <2>1, <2>2, Zenon
  <1>3. PICK w : /\ BlackHeight(t) = w[t.root]
                 /\ w = [n \in NodesOrNull |->
                          IF n = Null THEN 1
                          ELSE IF \/ w[t.child["left"][n]] # w[t.child["right"][n]]
                                  \/ w[t.child["left"][n]] = 0
                               THEN 0
                               ELSE IF t.color[n] = Black THEN w[t.child["left"][n]] + 1
                                                          ELSE w[t.child["left"][n]]]
    BY ONLY <1>2, Zenon DEF BlackHeight
  <1>4. /\ w[Null] = 1
        /\ \A n \in Keys : w[n] =
             IF w[t.child["left"][n]] # w[t.child["right"][n]] \/ w[t.child["left"][n]] = 0
             THEN 0
             ELSE IF t.color[n] = Black THEN w[t.child["left"][n]] + 1
                                        ELSE w[t.child["left"][n]]
    BY ONLY <1>3, RbTreeAssumption DEF NodesOrNull
  <1> DEFINE Bad == {n \in NodesOrNull : w[n] # H[n]}
  <1>5. Bad = {}
    <2>1. SUFFICES ASSUME Bad # {} PROVE FALSE
      OBVIOUS
    <2>2. rank \in [NodesOrNull -> Nat]
      BY ONLY <1>0, BelowShrinks
    <2>3. PICK n \in Bad : \A m \in Bad : rank[n] <= rank[m]
      <3>1. Bad \subseteq NodesOrNull
        OBVIOUS
      <3>2. QED
        <4> HIDE DEF rank, Bad
        <4> QED BY ONLY <2>1, <2>2, <3>1, LeastRank
    <2>4. n \in Keys /\ w[n] # H[n]
      BY ONLY <1>0, <1>4, <2>3 DEF NodesOrNull
    <2>5. ASSUME NEW d \in Sides PROVE w[t.child[d][n]] = H[t.child[d][n]]
      <3>1. t.child[d][n] \in NodesOrNull /\ Cardinality(S[t.child[d][n]]) < Cardinality(S[n])
        BY ONLY <1>0, <2>4, <2>5, BelowShrinks, TreeFields
      <3>2. rank[t.child[d][n]] < rank[n] /\ rank[t.child[d][n]] \in Nat /\ rank[n] \in Nat
        BY ONLY <2>2, <2>4, <3>1 DEF NodesOrNull
      <3>3. t.child[d][n] \notin Bad
        <4> HIDE DEF rank, Bad
        <4>1. t.child[d][n] \in Bad => rank[n] <= rank[t.child[d][n]]
          BY ONLY <2>3
        <4>2. QED
          BY ONLY <3>2, <4>1
      <3>4. QED
        BY ONLY <3>1, <3>3
    <2>6. w[n] = H[n]
      BY ONLY <1>1, <1>4, <1>e, <2>4, <2>5
    <2>7. QED
      BY ONLY <2>4, <2>6
  <1>6. QED
    BY ONLY <1>0, <1>3, <1>5, <1>r-----------------------------------------------------------------------------
(* The inductive invariant.                                                *)

Calls == [kind : {"idle", "balance", "rebalance", "rebalanced"},
          x : NodesOrNull, parent : NodesOrNull]

(* What a call in progress has left to do, T being the keys in the tree.   *)
InCall(t, sz, c, S, H, T) ==
  \/ /\ c = Idle
     /\ Settled(t, S, H)
     /\ sz = Cardinality(T)
  \/ /\ c.kind = "balance"
     /\ Balancing(t, S, H, c.x)
     /\ sz + 1 = Cardinality(T)
  \/ /\ c.kind = "rebalance"
     /\ \E f : Lacking(t, S, H, c.x, c.parent, f)
     /\ sz = Cardinality(T) + 1 /\ T # Keys
  \/ /\ c.kind = "rebalanced"
     /\ Settled(t, S, H) /\ ~IsRed(t, c.x)
     /\ sz = Cardinality(T) + 1 /\ T # Keys

Consistent(t, val, sz, c, S, H, T) ==
  /\ c \in Calls
  /\ sz \in Nat
  /\ val \in [Keys -> Values \cup {Null}]
  /\ Shape(t, S) /\ T = S[t.root] /\ T \subseteq Keys
  /\ \A k \in Keys : val[k] # Null <=> k \in T
  /\ InCall(t, sz, c, S, H, T)

IInv == \E S, H, T : Consistent(tree, value, size, call, S, H, T)

(* Counting the keys.                                                      *)
LEMMA CountKeys ==
  ASSUME NEW T, T \subseteq Keys
  PROVE  /\ Cardinality(T) \in Nat /\ Cardinality(Keys) \in Nat
         /\ Cardinality(T) <= Cardinality(Keys)
         /\ T # Keys => Cardinality(T) < Cardinality(Keys)
         /\ \A k : k \notin T => Cardinality(T \cup {k}) = Cardinality(T) + 1
         /\ \A k : k \in T => Cardinality(T \ {k}) = Cardinality(T) - 1
         /\ Cardinality({}) = 0
  <1>1. IsFiniteSet(Keys)
    BY RbTreeAssumption
  <1>2. /\ IsFiniteSet(T) /\ Cardinality(T) <= Cardinality(Keys)
        /\ Cardinality(Keys) = Cardinality(T) => Keys = T
    BY <1>1, FS_Subset
  <1>3. Cardinality(T) \in Nat /\ Cardinality(Keys) \in Nat
    BY ONLY <1>1, <1>2, FS_CardinalityType
  <1>4. \A k : k \notin T => Cardinality(T \cup {k}) = Cardinality(T) + 1
    BY ONLY <1>2, FS_AddElement
  <1>5. \A k : k \in T => Cardinality(T \ {k}) = Cardinality(T) - 1
    BY ONLY <1>2, FS_RemoveElement
  <1>6. QED
    BY ONLY <1>2, <1>3, <1>4, <1>5, FS_EmptySet

(* A state is consistent once the parts of it are.                         *)
LEMMA ConsistentWhen ==
  ASSUME NEW t, NEW val, NEW sz, NEW c, NEW S, NEW H, NEW T,
         c \in Calls, sz \in Nat, val \in [Keys -> Values \cup {Null}],
         Shape(t, S), S[t.root] = T, \A k \in Keys : val[k] # Null <=> k \in T,
         InCall(t, sz, c, S, H, T)
  PROVE  Consistent(t, val, sz, c, S, H, T)
  <1>1. T \subseteq Keys
    <2>1. t \in TreeType /\ Parts(t, S)
      BY DEF Shape
    <2>2. t.root \in NodesOrNull
      BY ONLY <2>1, TreeFields
    <2>3. QED
      BY <2>1, <2>2 DEF Parts
  <1>2. QED
    BY <1>1 DEF Consistent

(* Between calls.                                                          *)
LEMMA IdleFacts ==
  ASSUME NEW t, NEW val, NEW sz, NEW S, NEW H, NEW T, Consistent(t, val, sz, Idle, S, H, T)
  PROVE  /\ Settled(t, S, H) /\ Shape(t, S) /\ T = S[t.root] /\ T \subseteq Keys
         /\ sz = Cardinality(T) /\ Idle \in Calls
         /\ val \in [Keys -> Values \cup {Null}]
         /\ \A k \in Keys : val[k] # Null <=> k \in T
  BY DEF Consistent, InCall, Idle

(* After an erase of k.                                                    *)
LEMMA OneKeyRemoved ==
  ASSUME NEW val \in [Keys -> Values \cup {Null}], NEW T, \A k \in Keys : val[k] # Null <=> k \in T,
         NEW k \in Keys
  PROVE  /\ [val EXCEPT ![k] = Null] \in [Keys -> Values \cup {Null}]
         /\ \A m \in Keys : [val EXCEPT ![k] = Null][m] # Null <=> m \in T \ {k}
  BY RbTreeAssumption

(* The initial state is consistent.                                        *)
LEMMA InitIInv == Init => IInv
  <1>1. SUFFICES ASSUME Init PROVE IInv
    OBVIOUS
  <1>2. PICK S, H : Settled(Empty, S, H) /\ S[Empty.root] = {}
    BY EmptySettled
  <1> PICK T : T = {}
    OBVIOUS
  <1>3. Shape(Empty, S)
    BY ONLY <1>2 DEF Settled
  <1>4. InCall(Empty, 0, Idle, S, H, T)
    BY <1>2, CountKeys DEF InCall
  <1>5. Idle \in Calls
    BY DEF Idle, Calls, NodesOrNull
  <1>6. NoNode \in [Keys -> Values \cup {Null}] /\ \A k \in Keys : NoNode[k] # Null <=> k \in T
    BY DEF NoNode
  <1>7. Consistent(Empty, NoNode, 0, Idle, S, H, T)
    BY <1>2, <1>3, <1>4, <1>5, <1>6, ConsistentWhen
  <1>8. tree = Empty /\ value = NoNode /\ size = 0 /\ call = Idle
    BY <1>1 DEF Init
  <1>9. QED
    BY ONLY <1>7, <1>8, Zenon DEF IInv

(* Insert of a key that is not there.                                      *)
LEMMA InsertStep ==
  ASSUME NEW S, NEW H, NEW T, Consistent(tree, value, size, call, S, H, T),
         NEW k \in Keys, NEW v \in Values, Insert(k, v)
  PROVE  IInv' /\ value[k] = Null /\ value' = [value EXCEPT ![k] = v]
  <1>1. call = Idle /\ FindNode(tree, k) = Null /\ value' = [value EXCEPT ![k] = v]
    BY Zenon DEF Insert
  <1>2. /\ Settled(tree, S, H) /\ Shape(tree, S) /\ T = S[tree.root] /\ T \subseteq Keys
        /\ size = Cardinality(T) /\ Idle \in Calls
        /\ value \in [Keys -> Values \cup {Null}]
        /\ \A m \in Keys : value[m] # Null <=> m \in T
    BY ONLY <1>1, Consistent(tree, value, size, call, S, H, T), IdleFacts
  <1>3. k \notin T /\ value[k] = Null
    BY ONLY <1>1, <1>2, k \in Keys, FindNodeIs, RbTreeAssumption
  <1>4. /\ value' \in [Keys -> Values \cup {Null}]
        /\ \A m \in Keys : value'[m] # Null <=> m \in T \cup {k}
    <2>1. v # Null
      BY ONLY v \in Values, RbTreeAssumption
    <2>2. value' \in [Keys -> Values \cup {Null}]
      BY ONLY <1>1, <1>2, v \in Values
    <2>3. \A m \in Keys : value'[m] = IF m = k THEN v ELSE value[m]
      BY ONLY <1>1, <1>2
    <2>4. QED
      BY ONLY <1>2, <2>1, <2>2, <2>3, k \in Keys
  <1> PICK Q : Q = T \cup {k}
    OBVIOUS
  <1>5. Cardinality(Q) = Cardinality(T) + 1 /\ Cardinality(T) \in Nat
    BY ONLY <1>2, <1>3, Q = T \cup {k}, CountKeys
  <1>6. CASE tree.root = Null
    <2>1. tree' = Paint([tree EXCEPT !.root = k], k, Black) /\ size' = 1 /\ call' = Idle
      BY ONLY <1>6, Insert(k, v), Zenon DEF Insert
    <2>2. PICK R, K : Settled(tree', R, K) /\ R[tree'.root] = T \cup {k}
      BY ONLY <1>2, <1>6, <2>1, k \in Keys, InsertFirst
    <2>3. T = {}
      BY ONLY <1>2, <1>6 DEF Shape, Parts
    <2>4. size' = Cardinality(Q) /\ size' \in Nat
      BY ONLY <1>5, <2>1, <2>3, CountKeys
    <2>5. InCall(tree', size', call', R, K, Q)
      BY ONLY <2>1, <2>2, <2>4 DEF InCall
    <2>6. Shape(tree', R)
      BY ONLY <2>2 DEF Settled
    <2>7. Consistent(tree', value', size', call', R, K, Q)
      BY ONLY <1>2, <1>4, <2>1, <2>2, <2>4, <2>5, <2>6, Q = T \cup {k}, ConsistentWhen
    <2>8. QED
      BY ONLY <1>1, <1>3, <2>7 DEF IInv
  <1>7. CASE tree.root # Null
    <2> DEFINE p == Place(tree, k)
    <2>1. /\ tree' = Paint(Hang(tree, p, Toward(k, p), k), k, Red)
          /\ call' = [kind |-> "balance", x |-> k, parent |-> Null]
          /\ size' = size
      BY ONLY <1>7, Insert(k, v), Zenon DEF Insert
    <2>2. PICK R, K : Balancing(tree', R, K, k) /\ R[tree'.root] = T \cup {k}
      BY ONLY <1>2, <1>3, <1>7, <2>1, k \in Keys, InsertBelow
    <2>3. call' \in Calls /\ call'.kind = "balance" /\ call'.x = k
      BY ONLY <2>1, k \in Keys DEF Calls, NodesOrNull
    <2>4. size' + 1 = Cardinality(Q) /\ size' \in Nat
      BY ONLY <1>2, <1>5, <2>1
    <2>5. InCall(tree', size', call', R, K, Q)
      BY ONLY <2>2, <2>3, <2>4 DEF InCall
    <2>6. Shape(tree', R)
      BY ONLY <2>2 DEF Balancing
    <2>7. Consistent(tree', value', size', call', R, K, Q)
      BY ONLY <1>4, <2>2, <2>3, <2>4, <2>5, <2>6, Q = T \cup {k}, ConsistentWhen
    <2>8. QED
      BY ONLY <1>1, <1>3, <2>7 DEF IInv
  <1>8. QED
    BY ONLY <1>6, <1>7

(* Erase of a key that is there.                                           *)
LEMMA EraseStep ==
  ASSUME NEW S, NEW H, NEW T, Consistent(tree, value, size, call, S, H, T),
         NEW k \in Keys, Erase(k)
  PROVE  IInv' /\ value[k] # Null /\ value' = [value EXCEPT ![k] = Null]
  <1> DEFINE w == Unlink(tree, k)
  <1>1. /\ call = Idle /\ FindNode(tree, k) # Null /\ value' = [value EXCEPT ![k] = Null]
        /\ tree' = w.tree
        /\ w.lost = Red => size' = size - 1 /\ call' = Idle
        /\ w.lost # Red => /\ size' = size
                           /\ call' = [kind |-> "rebalance", x |-> w.x, parent |-> w.parent]
    BY Zenon DEF Erase
  <1>2. /\ Settled(tree, S, H) /\ Shape(tree, S) /\ T = S[tree.root] /\ T \subseteq Keys
        /\ size = Cardinality(T) /\ Idle \in Calls
        /\ value \in [Keys -> Values \cup {Null}]
        /\ \A m \in Keys : value[m] # Null <=> m \in T
    BY ONLY <1>1, Consistent(tree, value, size, call, S, H, T), IdleFacts
  <1>3. k \in T /\ value[k] # Null
    BY ONLY <1>1, <1>2, k \in Keys, FindNodeIs
  <1>4. /\ value' \in [Keys -> Values \cup {Null}]
        /\ \A m \in Keys : value'[m] # Null <=> m \in T \ {k}
    BY ONLY <1>1, <1>2, k \in Keys, OneKeyRemoved
  <1> PICK Q : Q = T \ {k}
    OBVIOUS
  <1>5. /\ Cardinality(Q) = Cardinality(T) - 1 /\ Cardinality(T) \in Nat /\ Cardinality(Q) \in Nat
        /\ Q # Keys
    <2>1. Cardinality(Q) = Cardinality(T) - 1 /\ Cardinality(T) \in Nat
      BY ONLY <1>2, <1>3, Q = T \ {k}, CountKeys
    <2>2. Cardinality(Q) \in Nat
      BY ONLY <1>2, Q = T \ {k}, CountKeys
    <2>3. QED
      BY ONLY <2>1, <2>2, Q = T \ {k}, k \in Keys
  <1>6. ErasedTo(tree, S, k, tree', w.x, w.parent, w.lost)
    <2>1. ErasedTo(tree, S, k, w.tree, w.x, w.parent, w.lost)
      BY ONLY <1>2, <1>3, k \in Keys, EraseKeeps
    <2>2. QED
      BY ONLY <1>1, <2>1
  <1> HIDE DEF w
  <1>7. PICK R, K : /\ R[tree'.root] = Q
                    /\ IF w.lost = Red THEN Settled(tree', R, K)
                                       ELSE \E f : Lacking(tree', R, K, w.x, w.parent, f)
    BY ONLY <1>2, <1>6, Q = T \ {k} DEF ErasedTo
  <1>8. CASE w.lost = Red
    <2>1. InCall(tree', size', call', R, K, Q)
      BY ONLY <1>1, <1>2, <1>5, <1>7, <1>8 DEF InCall
    <2>2. Shape(tree', R)
      BY ONLY <1>7, <1>8 DEF Settled
    <2>3. size' \in Nat /\ call' \in Calls
      BY ONLY <1>1, <1>2, <1>5, <1>8
    <2>4. Consistent(tree', value', size', call', R, K, Q)
      BY ONLY <1>4, <1>7, <2>1, <2>2, <2>3, Q = T \ {k}, ConsistentWhen
    <2>5. QED
      BY ONLY <1>1, <1>3, <2>4 DEF IInv
  <1>9. CASE w.lost # Red
    <2>1. PICK f : Lacking(tree', R, K, w.x, w.parent, f)
      BY ONLY <1>7, <1>9
    <2>2. Shape(tree', R) /\ w.x \in NodesOrNull /\ w.parent \in NodesOrNull
      BY ONLY <2>1 DEF Lacking
    <2>3. /\ call' \in Calls /\ call'.kind = "rebalance"
          /\ call'.x = w.x /\ call'.parent = w.parent
      BY ONLY <1>1, <1>9, <2>2 DEF Calls
    <2>4. size' \in Nat /\ size' = Cardinality(Q) + 1
      BY ONLY <1>1, <1>2, <1>5, <1>9
    <2>5. InCall(tree', size', call', R, K, Q)
      BY ONLY <1>5, <2>1, <2>3, <2>4 DEF InCall
    <2>6. Consistent(tree', value', size', call', R, K, Q)
      BY ONLY <1>4, <1>7, <2>2, <2>3, <2>4, <2>5, Q = T \ {k}, ConsistentWhen
    <2>7. QED
      BY ONLY <1>1, <1>3, <2>6 DEF IInv
  <1>10. QED
    BY ONLY <1>8, <1>9
(* What a step of the restructuring keeps: the keys, the values, the size. *)
LEMMA RestructuringKeeps ==
  ASSUME NEW S, NEW H, NEW T, Consistent(tree, value, size, call, S, H, T),
         value' = value, NEW R, NEW K, Shape(tree', R), R[tree'.root] = S[tree.root],
         call' \in Calls, size' \in Nat, InCall(tree', size', call', R, K, T)
  PROVE  IInv'
  <1>1. /\ value \in [Keys -> Values \cup {Null}] /\ T = S[tree.root]
        /\ \A k \in Keys : value[k] # Null <=> k \in T
    BY DEF Consistent
  <1>2. /\ value' \in [Keys -> Values \cup {Null}] /\ R[tree'.root] = T
        /\ \A k \in Keys : value'[k] # Null <=> k \in T
    BY <1>1
  <1>3. Consistent(tree', value', size', call', R, K, T)
    BY <1>2, ConsistentWhen
  <1>4. QED
    BY ONLY <1>3 DEF IInv

(* What is known in the middle of a call.                                  *)
LEMMA CallFacts ==
  ASSUME NEW t, NEW val, NEW sz, NEW c, NEW S, NEW H, NEW T, Consistent(t, val, sz, c, S, H, T)
  PROVE  /\ c \in Calls /\ sz \in Nat /\ Shape(t, S) /\ t \in TreeType /\ Parts(t, S)
         /\ Ordered(t, S) /\ Linked(t) /\ T = S[t.root] /\ T \subseteq Keys
         /\ t.root \in NodesOrNull
         /\ c.kind = "balance" => Balancing(t, S, H, c.x) /\ sz + 1 = Cardinality(T)
         /\ c.kind = "rebalance" => /\ \E f : Lacking(t, S, H, c.x, c.parent, f)
                                    /\ sz = Cardinality(T) + 1 /\ T # Keys
         /\ c.kind = "rebalanced" => /\ Settled(t, S, H) /\ ~IsRed(t, c.x)
                                     /\ sz = Cardinality(T) + 1 /\ T # Keys
         /\ Cardinality(T) \in Nat
  <1>1. /\ c \in Calls /\ sz \in Nat /\ Shape(t, S) /\ t \in TreeType /\ Parts(t, S)
        /\ Ordered(t, S) /\ Linked(t) /\ T = S[t.root] /\ T \subseteq Keys
        /\ InCall(t, sz, c, S, H, T)
    BY DEF Consistent, Shape
  <1>2. Cardinality(T) \in Nat
    BY ONLY <1>1, CountKeys
  <1>3. t.root \in NodesOrNull
    BY ONLY <1>1, TreeFields
  <1>4. /\ c.kind = "balance" => Balancing(t, S, H, c.x) /\ sz + 1 = Cardinality(T)
        /\ c.kind = "rebalance" => /\ \E f : Lacking(t, S, H, c.x, c.parent, f)
                                   /\ sz = Cardinality(T) + 1 /\ T # Keys
        /\ c.kind = "rebalanced" => /\ Settled(t, S, H) /\ ~IsRed(t, c.x)
                                    /\ sz = Cardinality(T) + 1 /\ T # Keys
    BY ONLY <1>1 DEF InCall, Idle
  <1>5. QED
    BY ONLY <1>1, <1>2, <1>3, <1>4

(* One iteration of the loop of BalanceTree.                               *)
LEMMA BalanceLoop ==
  ASSUME NEW S, NEW H, NEW T, Consistent(tree, value, size, call, S, H, T), BalanceStep
  PROVE  IInv' /\ value' = value
  <1>1. call.kind = "balance" /\ value' = value /\ size' = size
    BY Zenon DEF BalanceStep
  <1>2. /\ call \in Calls /\ size \in Nat /\ T = S[tree.root]
        /\ Balancing(tree, S, H, call.x) /\ size + 1 = Cardinality(T)
    BY ONLY <1>1, Consistent(tree, value, size, call, S, H, T), CallFacts
  <1>3. PICK R, K, y : /\ Balancing(tree', R, K, y) /\ R[tree'.root] = S[tree.root]
                       /\ call' = [call EXCEPT !.x = y]
    BY ONLY <1>2, BalanceStep, BalanceStepKeeps
  <1>4. Shape(tree', R) /\ y \in NodesOrNull
    <2>1. Shape(tree', R) /\ y \in R[tree'.root] /\ tree' \in TreeType /\ Parts(tree', R)
      BY ONLY <1>3 DEF Balancing, Shape
    <2>2. tree'.root \in NodesOrNull
      BY ONLY <2>1, TreeFields
    <2>3. QED
      BY ONLY <2>1, <2>2 DEF Parts, NodesOrNull
  <1>5. call' \in Calls /\ call'.kind = "balance" /\ call'.x = y
    BY ONLY <1>1, <1>2, <1>3, <1>4 DEF Calls
  <1>6. InCall(tree', size', call', R, K, T)
    BY ONLY <1>1, <1>2, <1>3, <1>5 DEF InCall
  <1>7. QED
    BY ONLY <1>1, <1>2, <1>3, <1>4, <1>5, <1>6, Consistent(tree, value, size, call, S, H, T),
            RestructuringKeeps

(* Its end: the root is black.                                             *)
LEMMA BalanceEnds ==
  ASSUME NEW S, NEW H, NEW T, Consistent(tree, value, size, call, S, H, T), BalanceEnd
  PROVE  IInv' /\ value' = value
  <1>1. /\ call.kind = "balance" /\ value' = value /\ size' = size + 1 /\ call' = Idle
        /\ call.x = tree.root \/ ~IsRed(tree, tree.parent[call.x])
        /\ tree' = Paint(tree, tree.root, Black)
    BY DEF BalanceEnd
  <1>2. /\ size \in Nat /\ T = S[tree.root] /\ Linked(tree) /\ tree.root \in NodesOrNull
        /\ Balancing(tree, S, H, call.x) /\ size + 1 = Cardinality(T) /\ Parts(tree, S)
    BY ONLY <1>1, Consistent(tree, value, size, call, S, H, T), CallFacts
  <1>3. /\ Shape(tree, S) /\ Level(tree, H, Null, "left") /\ call.x \in S[tree.root]
        /\ RedPairs(tree, {call.x})
        /\ IsRed(tree, tree.root) => tree.root = call.x
    BY ONLY <1>2 DEF Balancing
  <1>4. tree.root # Null /\ tree.parent[tree.root] = Null
    <2>1. tree.root # Null
      BY ONLY <1>2, <1>3 DEF Parts
    <2>2. QED
      BY ONLY <1>2, <2>1 DEF Linked
  <1>5. RedNear(tree, tree.root)
    BY ONLY <1>1, <1>3, Zenon DEF RedPairs, RedNear
  <1>6. OneBlackAway(tree, S, H, tree.root, Null, "left")
    BY ONLY <1>2, <1>3, <1>4, <1>5 DEF OneBlackAway, Sides
  <1>7. PICK K : Settled(tree', S, K) /\ tree'.root = tree.root
    BY ONLY <1>1, <1>6, Blacken
  <1>8. InCall(tree', size', call', S, K, T)
    BY ONLY <1>1, <1>2, <1>7 DEF InCall
  <1>9. Shape(tree', S) /\ call' \in Calls /\ size' \in Nat
    BY ONLY <1>1, <1>2, <1>7 DEF Settled, Idle, Calls, NodesOrNull
  <1>10. QED
    BY ONLY <1>1, <1>7, <1>8, <1>9, Consistent(tree, value, size, call, S, H, T),
            RestructuringKeeps

(* One iteration of the loop of RebalanceForErase.                         *)
LEMMA RebalanceLoop ==
  ASSUME NEW S, NEW H, NEW T, Consistent(tree, value, size, call, S, H, T), RebalanceStep
  PROVE  IInv' /\ value' = value
  <1>1. call.kind = "rebalance" /\ value' = value /\ size' = size
    BY Zenon DEF RebalanceStep
  <1>2. /\ call \in Calls /\ size \in Nat /\ T = S[tree.root]
        /\ \E f : Lacking(tree, S, H, call.x, call.parent, f)
        /\ size = Cardinality(T) + 1 /\ T # Keys
    BY ONLY <1>1, Consistent(tree, value, size, call, S, H, T), CallFacts
  <1>3. PICK R, K :
           /\ R[tree'.root] = S[tree.root]
           /\ \/ \E y, q, e : /\ Lacking(tree', R, K, y, q, e)
                              /\ call' = [call EXCEPT !.x = y, !.parent = q]
              \/ /\ Settled(tree', R, K) /\ ~IsRed(tree', call.x)
                 /\ call' = [call EXCEPT !.kind = "rebalanced"]
    BY ONLY <1>2, RebalanceStep, RebalanceStepKeeps
  <1>4. CASE \E y, q, e : /\ Lacking(tree', R, K, y, q, e)
                          /\ call' = [call EXCEPT !.x = y, !.parent = q]
    <2>1. PICK y, q, e : /\ Lacking(tree', R, K, y, q, e)
                         /\ call' = [call EXCEPT !.x = y, !.parent = q]
      BY ONLY <1>4
    <2>2. Shape(tree', R) /\ y \in NodesOrNull /\ q \in NodesOrNull
      BY ONLY <2>1 DEF Lacking
    <2>3. call' \in Calls /\ call'.kind = "rebalance" /\ call'.x = y /\ call'.parent = q
      BY ONLY <1>1, <1>2, <2>1, <2>2 DEF Calls
    <2>4. InCall(tree', size', call', R, K, T)
      BY ONLY <1>1, <1>2, <2>1, <2>3 DEF InCall
    <2>5. QED
      BY ONLY <1>1, <1>2, <1>3, <2>2, <2>3, <2>4, RestructuringKeeps,
              Consistent(tree, value, size, call, S, H, T)
  <1>5. CASE /\ Settled(tree', R, K) /\ ~IsRed(tree', call.x)
             /\ call' = [call EXCEPT !.kind = "rebalanced"]
    <2>1. call' \in Calls /\ call'.kind = "rebalanced" /\ call'.x = call.x
      BY ONLY <1>2, <1>5 DEF Calls
    <2>2. InCall(tree', size', call', R, K, T)
      BY ONLY <1>1, <1>2, <1>5, <2>1 DEF InCall
    <2>3. Shape(tree', R)
      BY ONLY <1>5 DEF Settled
    <2>4. QED
      BY ONLY <1>1, <1>2, <1>3, <2>1, <2>2, <2>3, RestructuringKeeps,
              Consistent(tree, value, size, call, S, H, T)
  <1>6. QED
    BY ONLY <1>3, <1>4, <1>5

(* Its end: x is black.                                                    *)
LEMMA RebalanceEnds ==
  ASSUME NEW S, NEW H, NEW T, Consistent(tree, value, size, call, S, H, T), RebalanceEnd
  PROVE  IInv' /\ value' = value
  <1>1. /\ \/ call.kind = "rebalanced"
           \/ call.kind = "rebalance" /\ (call.x = tree.root \/ IsRed(tree, call.x))
        /\ value' = value /\ size' = size - 1 /\ call' = Idle
        /\ tree' = Paint(tree, call.x, Black)
    BY DEF RebalanceEnd
  <1>2. /\ call \in Calls /\ size \in Nat /\ T = S[tree.root] /\ Linked(tree)
        /\ tree.root \in NodesOrNull /\ Parts(tree, S) /\ Cardinality(T) \in Nat
        /\ size = Cardinality(T) + 1
    BY ONLY <1>1, Consistent(tree, value, size, call, S, H, T), CallFacts
  <1>3. \E q, f : OneBlackAway(tree, S, H, call.x, q, f)
    <2>1. CASE call.kind = "rebalanced"
      <3>1. Settled(tree, S, H) /\ ~IsRed(tree, call.x)
        BY ONLY <2>1, Consistent(tree, value, size, call, S, H, T), CallFacts
      <3>2. RedNear(tree, call.x)
        BY ONLY <3>1, Zenon DEF Settled, RedPairs, RedNear
      <3>3. call.x \in NodesOrNull
        BY ONLY <1>2 DEF Calls
      <3>4. OneBlackAway(tree, S, H, call.x, Null, "left")
        BY ONLY <3>1, <3>2, <3>3 DEF OneBlackAway, Settled, Sides
      <3>5. QED
        BY ONLY <3>4
    <2>2. CASE call.kind = "rebalance" /\ (call.x = tree.root \/ IsRed(tree, call.x))
      <3> PICK x : x = call.x
        OBVIOUS
      <3> PICK p : p = call.parent
        OBVIOUS
      <3>1. PICK f : Lacking(tree, S, H, x, p, f)
        BY ONLY <2>2, Consistent(tree, value, size, call, S, H, T), CallFacts,
                x = call.x, p = call.parent
      <3>2. /\ Shape(tree, S) /\ Level(tree, H, p, f) /\ f \in Sides
            /\ x \in NodesOrNull /\ p \in NodesOrNull
            /\ p = Null => x = tree.root
            /\ p # Null => p \in S[tree.root] /\ tree.child[f][p] = x
            /\ RedNear(tree, x)
            /\ IsRed(tree, tree.root) => tree.root = x
        BY ONLY <3>1 DEF Lacking
      <3>3. x # Null => tree.parent[x] = p
        <4>1. CASE p = Null
          BY ONLY <1>2, <3>2, <4>1 DEF Linked
        <4>2. CASE p # Null
          BY ONLY <1>2, <3>2, <4>2 DEF Linked, NodesOrNull
        <4>3. QED
          BY ONLY <4>1, <4>2
      <3>4. ~IsRed(tree, x) => p = Null
        <4>1. SUFFICES ASSUME ~IsRed(tree, x), p # Null PROVE FALSE
          OBVIOUS
        <4>2. x = tree.root
          BY ONLY <2>2, <4>1, x = call.x
        <4>3. CASE x = Null
          BY ONLY <1>2, <3>2, <4>1, <4>2, <4>3 DEF Parts
        <4>4. CASE x # Null
          BY ONLY <1>2, <3>3, <4>1, <4>2, <4>4 DEF Linked
        <4>5. QED
          BY ONLY <4>3, <4>4
      <3>5. IsRed(tree, x) => p = tree.parent[x] /\ (p # Null => tree.child[f][p] = x)
        BY ONLY <3>2, <3>3 DEF IsRed
      <3>6. OneBlackAway(tree, S, H, x, p, f)
        BY ONLY <3>2, <3>4, <3>5 DEF OneBlackAway
      <3>7. QED
        BY ONLY <3>6, x = call.x
    <2>3. QED
      BY ONLY <1>1, <2>1, <2>2
  <1>4. PICK K : Settled(tree', S, K) /\ tree'.root = tree.root
    BY ONLY <1>1, <1>3, Blacken
  <1>5. size' = Cardinality(T) /\ size' \in Nat
    BY ONLY <1>1, <1>2
  <1>6. InCall(tree', size', call', S, K, T)
    BY ONLY <1>1, <1>4, <1>5 DEF InCall
  <1>7. Shape(tree', S) /\ call' \in Calls
    BY ONLY <1>1, <1>4 DEF Settled, Idle, Calls, NodesOrNull
  <1>8. QED
    BY ONLY <1>1, <1>4, <1>5, <1>6, <1>7, Consistent(tree, value, size, call, S, H, T),
            RestructuringKeeps
(* Clear: RemoveTree counts down once for every node.                      *)
LEMMA ClearStep ==
  ASSUME NEW S, NEW H, NEW T, Consistent(tree, value, size, call, S, H, T), Clear
  PROVE  IInv' /\ value' = NoNode
  <1>1. /\ call = Idle /\ tree' = Empty /\ value' = NoNode /\ call' = call
        /\ size' = size - Cardinality(Nodes(tree))
    BY Zenon DEF Clear
  <1>2. Shape(tree, S) /\ T = S[tree.root] /\ T \subseteq Keys /\ size = Cardinality(T)
        /\ Idle \in Calls
    BY ONLY <1>1, Consistent(tree, value, size, call, S, H, T), IdleFacts
  <1>3. Nodes(tree) = T
    BY ONLY <1>2, NodesAre
  <1>4. Cardinality(T) \in Nat /\ Cardinality({}) = 0
    BY ONLY <1>2, CountKeys
  <1>5. size' = 0 /\ call' = Idle
    BY ONLY <1>1, <1>2, <1>3, <1>4
  <1>6. PICK R, K : Settled(tree', R, K) /\ R[tree'.root] = {}
    BY ONLY <1>1, EmptySettled
  <1>7. /\ value' \in [Keys -> Values \cup {Null}]
        /\ \A m \in Keys : value'[m] # Null <=> m \in {}
    BY ONLY <1>1 DEF NoNode
  <1>8. InCall(tree', size', call', R, K, {})
    BY ONLY <1>4, <1>5, <1>6 DEF InCall
  <1>9. Shape(tree', R) /\ size' \in Nat /\ call' \in Calls
    BY ONLY <1>2, <1>5, <1>6 DEF Settled
  <1>10. Consistent(tree', value', size', call', R, K, {})
    BY ONLY <1>6, <1>7, <1>8, <1>9, ConsistentWhen
  <1>11. QED
    BY ONLY <1>1, <1>10, Zenon DEF IInv

(* Assignment: the copy is the tree, its parent links those the child      *)
(* links give.                                                             *)
LEMMA AssignStep ==
  ASSUME NEW S, NEW H, NEW T, Consistent(tree, value, size, call, S, H, T), AssignTree
  PROVE  IInv' /\ value' = value
  <1>1. tree' = CopyTree(tree) /\ value' = value /\ size' = size /\ call' = call
    BY Zenon DEF AssignTree
  <1>2. tree' = tree
    BY ONLY <1>1, CopyIsSame, Consistent(tree, value, size, call, S, H, T) DEF Consistent
  <1>3. Consistent(tree', value', size', call', S, H, T)
    BY ONLY <1>1, <1>2, Consistent(tree, value, size, call, S, H, T)
  <1>4. QED
    BY ONLY <1>1, <1>3, Zenon DEF IInv

(* Nothing changes.                                                        *)
LEMMA StutterStep ==
  ASSUME IInv, UNCHANGED vars
  PROVE  IInv' /\ value' = value
  <1>1. tree' = tree /\ value' = value /\ size' = size /\ call' = call
    BY DEF vars
  <1>2. PICK S, H, T : Consistent(tree, value, size, call, S, H, T)
    BY Zenon DEF IInv
  <1>3. Consistent(tree', value', size', call', S, H, T)
    BY ONLY <1>1, <1>2
  <1>4. QED
    BY ONLY <1>1, <1>3, Zenon DEF IInv

(* How the values of the tree change in a step: as a map's.                *)
Changes ==
  \/ \E k \in Keys, v \in Values : value[k] = Null /\ value' = [value EXCEPT ![k] = v]
  \/ \E k \in Keys : value[k] # Null /\ value' = [value EXCEPT ![k] = Null]
  \/ value' = NoNode
  \/ value' = value

(* Every action keeps the invariant, and changes the values as a map's.    *)
LEMMA NextStep ==
  ASSUME IInv, [Next]_vars
  PROVE  IInv' /\ Changes
  <1>1. PICK S, H, T : Consistent(tree, value, size, call, S, H, T)
    BY Zenon DEF IInv
  <1>2. CASE \E k \in Keys, v \in Values : Insert(k, v)
    <2>1. PICK k \in Keys, v \in Values : Insert(k, v)
      BY ONLY <1>2
    <2>2. IInv' /\ value[k] = Null /\ value' = [value EXCEPT ![k] = v]
      BY ONLY <1>1, <2>1, k \in Keys, v \in Values, InsertStep
    <2>3. QED
      BY ONLY <2>2, k \in Keys, v \in Values DEF Changes
  <1>3. CASE \E k \in Keys, v \in Values : InsertThere(k, v)
    <2>1. UNCHANGED vars
      BY ONLY <1>3, Zenon DEF InsertThere
    <2>2. QED
      BY ONLY <2>1, IInv, StutterStep DEF Changes
  <1>4. CASE \E k \in Keys : Erase(k)
    <2>1. PICK k \in Keys : Erase(k)
      BY ONLY <1>4
    <2>2. IInv' /\ value[k] # Null /\ value' = [value EXCEPT ![k] = Null]
      BY ONLY <1>1, <2>1, k \in Keys, EraseStep
    <2>3. QED
      BY ONLY <2>2, k \in Keys DEF Changes
  <1>5. CASE Clear
    BY ONLY <1>1, <1>5, ClearStep DEF Changes
  <1>6. CASE AssignTree
    BY ONLY <1>1, <1>6, AssignStep DEF Changes
  <1>7. CASE BalanceStep
    BY ONLY <1>1, <1>7, BalanceLoop DEF Changes
  <1>8. CASE BalanceEnd
    BY ONLY <1>1, <1>8, BalanceEnds DEF Changes
  <1>9. CASE RebalanceStep
    BY ONLY <1>1, <1>9, RebalanceLoop DEF Changes
  <1>10. CASE RebalanceEnd
    BY ONLY <1>1, <1>10, RebalanceEnds DEF Changes
  <1>11. CASE UNCHANGED vars
    BY ONLY <1>11, IInv, StutterStep DEF Changes
  <1>12. QED
    <2>1. Next \/ UNCHANGED vars
      BY ONLY [Next]_vars
    <2>2. QED
      BY ONLY <2>1, <1>2, <1>3, <1>4, <1>5, <1>6, <1>7, <1>8, <1>9, <1>10, <1>11,
              Zenon DEF Next

-----------------------------------------------------------------------------
(* In every reachable state, also in the middle of a restructuring, the    *)
(* tree is a search tree whose links agree and which holds the keys that   *)
(* have a value, and what is wrong with its colours and its size is what   *)
(* the call in progress has left to mend; for every set of keys.           *)
THEOREM TreeHolds == Spec => []IInv
  <1>1. Init => IInv
    BY InitIInv
  <1>2. IInv /\ [Next]_vars => IInv'
    BY NextStep
  <1>3. QED
    BY <1>1, <1>2, PTL DEF Spec

(* A tree's size is a number of keys.                                      *)
LEMMA IsTyped == IInv => TypeOK
  <1>1. SUFFICES ASSUME IInv PROVE TypeOK
    OBVIOUS
  <1>2. PICK S, H, T : Consistent(tree, value, size, call, S, H, T)
    BY <1>1, Zenon DEF IInv
  <1>3. /\ call \in Calls /\ size \in Nat /\ value \in [Keys -> Values \cup {Null}]
        /\ tree \in TreeType /\ T \subseteq Keys
    BY ONLY <1>2 DEF Consistent, Shape
  <1>4. /\ tree.root \in NodesOrNull
        /\ tree.child \in [Sides -> [Keys -> NodesOrNull]]
        /\ tree.parent \in [Keys -> NodesOrNull]
        /\ tree.color \in [Keys -> {Red, Black}]
    BY ONLY <1>3 DEF TreeType
  <1>5. /\ call.kind \in {"idle", "balance", "rebalance", "rebalanced"}
        /\ call.x \in NodesOrNull /\ call.parent \in NodesOrNull
    BY ONLY <1>3 DEF Calls
  <1>6. /\ Cardinality(T) \in Nat /\ Cardinality(Keys) \in Nat
        /\ Cardinality(T) <= Cardinality(Keys)
        /\ T # Keys => Cardinality(T) < Cardinality(Keys)
    BY ONLY <1>3, CountKeys
  <1>7. \/ size = Cardinality(T) \/ size + 1 = Cardinality(T)
        \/ size = Cardinality(T) + 1 /\ T # Keys
    BY ONLY <1>2 DEF Consistent, InCall
  <1>8. size \in 0..Cardinality(Keys)
    BY ONLY <1>3, <1>6, <1>7
  <1>9. QED
    BY ONLY <1>3, <1>4, <1>5, <1>8 DEF TypeOK

(* Every variable keeps its type; the size never passes the number of      *)
(* keys, nor does it fall below zero while an erase is under way.          *)
THEOREM TypeCorrect == Spec => []TypeOK
  BY TreeHolds, IsTyped, PTL

(* A tree that needs no mending is a red-black tree.                       *)
LEMMA IsRedBlack == IInv => RedBlack
  <1>1. SUFFICES ASSUME IInv, call = Idle
        PROVE  /\ ~IsRed(tree, tree.root)
               /\ \A n \in Nodes(tree) : IsRed(tree, n) => ~IsRed(tree, tree.parent[n])
               /\ BlackHeight(tree) > 0
    BY Zenon DEF RedBlack
  <1>2. PICK S, H, T : Consistent(tree, value, size, call, S, H, T)
    BY <1>1, Zenon DEF IInv
  <1>3. Settled(tree, S, H)
    BY ONLY <1>1, <1>2, IdleFacts
  <1>4. ~IsRed(tree, tree.root) /\ RedPairs(tree, {})
    BY ONLY <1>3 DEF Settled
  <1>5. \A n \in Keys : IsRed(tree, n) => ~IsRed(tree, tree.parent[n])
    BY ONLY <1>4, Zenon DEF RedPairs
  <1>6. BlackHeight(tree) > 0
    BY ONLY <1>3, BlackHeightIs
  <1>7. \A n \in Nodes(tree) : n \in Keys
    BY ONLY Zenon DEF Nodes
  <1>8. QED
    BY ONLY <1>4, <1>5, <1>6, <1>7

(* Between calls the tree is a red-black tree, whatever the keys and the   *)
(* order in which they were inserted and erased: what BalanceTree and      *)
(* RebalanceForErase restore (RbTree.h:351, 539).                          *)
THEOREM RedBlackHolds == Spec => []RedBlack
  BY TreeHolds, IsRedBlack, PTL

(* Which of two keys comes first, by side.                                 *)
LEMMA PrecedesIs ==
  /\ Other("left") = "right" /\ Other("right") = "left"
  /\ "left" \in Sides /\ "right" \in Sides
  /\ \A m, n : (Precedes("left", m, n) <=> m < n) /\ (Precedes("right", m, n) <=> n < m)
  BY DEF Other, Sides, Precedes

(* The iterators go from a key to the next one.                            *)
LEMMA IsInOrder == IInv => IteratorOrder
  <1>1. SUFFICES ASSUME IInv, call = Idle
        PROVE  IteratorOrder
    BY Zenon DEF IteratorOrder
  <1>2. PICK S, H, T : Consistent(tree, value, size, call, S, H, T)
    BY <1>1, Zenon DEF IInv
  <1>3. /\ Shape(tree, S) /\ T = S[tree.root] /\ T \subseteq Keys /\ size = Cardinality(T)
        /\ \A k \in Keys : value[k] # Null <=> k \in T
    BY ONLY <1>1, <1>2, IdleFacts
  <1> DEFINE held == {k \in Keys : value[k] # Null}
             above(k) == {m \in held : m > k}
             below(k) == {m \in held : m < k}
  <1>4. held = T
    BY ONLY <1>3
  <1>5. T \subseteq Nat /\ Null \notin Keys
    BY ONLY <1>3, RbTreeAssumption
  <1>6. ASSUME NEW k \in T PROVE Extreme(tree, "left", tree.root) <= k
    <2>1. tree.root \in Keys
      <3>1. tree.root \in NodesOrNull /\ S[Null] = {}
        BY ONLY <1>3 DEF Shape, TreeType, Parts
      <3>2. QED
        BY ONLY <1>3, <1>6, <3>1 DEF NodesOrNull
    <2> PICK e : e = Extreme(tree, "left", tree.root)
      OBVIOUS
    <2>2. e \in T /\ \A m \in T : m # e => Precedes("left", e, m)
      BY ONLY <1>3, <2>1, ExtremeIs, PrecedesIs, e = Extreme(tree, "left", tree.root)
    <2>3. k # e => e < k
      BY ONLY <1>6, <2>2, PrecedesIs
    <2>4. e <= k
      BY ONLY <1>5, <1>6, <2>2, <2>3
    <2>5. QED
      BY ONLY <2>4, e = Extreme(tree, "left", tree.root)
  <1>7. ASSUME NEW k \in T
        PROVE  LET up == Advance(tree, "right", k)
               IN IF above(k) = {} THEN up = Null
                  ELSE up \in above(k) /\ \A m \in above(k) : up <= m
    <2> PICK r : r = Advance(tree, "right", k)
      OBVIOUS
    <2>1. /\ r = Null => \A m \in T : ~Precedes("left", k, m)
          /\ r # Null => /\ r \in T /\ Precedes("left", k, r)
                         /\ \A m \in T : Precedes("left", k, m) => m = r \/ Precedes("left", r, m)
      BY ONLY <1>3, <1>7, AdvanceIs, PrecedesIs, r = Advance(tree, "right", k)
    <2>2. /\ r = Null => \A m \in T : ~(k < m)
          /\ r # Null => /\ r \in T /\ k < r
                         /\ \A m \in T : k < m => m = r \/ r < m
      BY ONLY <2>1, PrecedesIs
    <2>3. IF above(k) = {} THEN r = Null ELSE r \in above(k) /\ \A m \in above(k) : r <= m
      <3>1. CASE r = Null
        <4>1. \A m : m \notin above(k)
          BY ONLY <1>4, <2>2, <3>1
        <4>2. QED
          BY ONLY <3>1, <4>1
      <3>2. CASE r # Null
        <4>1. r \in above(k)
          BY ONLY <1>4, <2>2, <3>2
        <4>2. ASSUME NEW m \in above(k) PROVE r <= m
          <5>1. m \in T /\ (m = r \/ r < m) /\ m \in Nat /\ r \in Nat
            BY ONLY <1>4, <1>5, <2>2, <3>2, <4>1, <4>2
          <5>2. QED
            BY ONLY <5>1
        <4>3. QED
          BY ONLY <4>1, <4>2
      <3>3. QED
        BY ONLY <3>1, <3>2
    <2>4. QED
      BY ONLY <2>3, r = Advance(tree, "right", k)
  <1>8. ASSUME NEW k \in T
        PROVE  LET down == Advance(tree, "left", k)
               IN IF below(k) = {} THEN down = Null
                  ELSE down \in below(k) /\ \A m \in below(k) : down >= m
    <2> PICK r : r = Advance(tree, "left", k)
      OBVIOUS
    <2>1. /\ r = Null => \A m \in T : ~Precedes("right", k, m)
          /\ r # Null => /\ r \in T /\ Precedes("right", k, r)
                         /\ \A m \in T : Precedes("right", k, m) => m = r \/ Precedes("right", r, m)
      BY ONLY <1>3, <1>8, AdvanceIs, PrecedesIs, r = Advance(tree, "left", k)
    <2>2. /\ r = Null => \A m \in T : ~(m < k)
          /\ r # Null => /\ r \in T /\ r < k
                         /\ \A m \in T : m < k => m = r \/ m < r
      BY ONLY <2>1, PrecedesIs
    <2>3. IF below(k) = {} THEN r = Null ELSE r \in below(k) /\ \A m \in below(k) : r >= m
      <3>1. CASE r = Null
        <4>1. \A m : m \notin below(k)
          BY ONLY <1>4, <2>2, <3>1
        <4>2. QED
          BY ONLY <3>1, <4>1
      <3>2. CASE r # Null
        <4>1. r \in below(k)
          BY ONLY <1>4, <2>2, <3>2
        <4>2. ASSUME NEW m \in below(k) PROVE r >= m
          <5>1. m \in T /\ (m = r \/ m < r) /\ m \in Nat /\ r \in Nat
            BY ONLY <1>4, <1>5, <2>2, <3>2, <4>1, <4>2
          <5>2. QED
            BY ONLY <5>1
        <4>3. QED
          BY ONLY <4>1, <4>2
      <3>3. QED
        BY ONLY <3>1, <3>2
    <2>4. QED
      BY ONLY <2>3, r = Advance(tree, "left", k)
  <1>9. QED
    <2>1. size = Cardinality(held)
      BY ONLY <1>3, <1>4
    <2>2. \A k \in held : Extreme(tree, "left", tree.root) <= k
      BY ONLY <1>4, <1>6
    <2>3. \A k \in held :
            LET up == Advance(tree, "right", k)
            IN IF above(k) = {} THEN up = Null
               ELSE up \in above(k) /\ \A m \in above(k) : up <= m
      BY ONLY <1>4, <1>7
    <2>4. \A k \in held :
            LET down == Advance(tree, "left", k)
            IN IF below(k) = {} THEN down = Null
               ELSE down \in below(k) /\ \A m \in below(k) : down >= m
      BY ONLY <1>4, <1>8
    <2>5. QED
      BY ONLY <2>1, <2>2, <2>3, <2>4, Zenon DEF IteratorOrder

(* Between calls ++ goes from each key of the map to the next larger one,  *)
(* -- to the next smaller one, Begin is the least and size counts them:    *)
(* the order of addresses SectionAllocator relies on                       *)
(* (SectionAllocator.cpp:83).                                              *)
THEOREM IteratorOrderHolds == Spec => []IteratorOrder
  BY TreeHolds, IsInOrder, PTL

(* Find answers with the value of the key, also in the middle of a         *)
(* restructuring.                                                          *)
LEMMA FoundIs == IInv => Found = value
  <1>1. SUFFICES ASSUME IInv PROVE Found = value
    OBVIOUS
  <1>2. PICK S, H, T : Consistent(tree, value, size, call, S, H, T)
    BY <1>1, Zenon DEF IInv
  <1>3. /\ Shape(tree, S) /\ T = S[tree.root] /\ value \in [Keys -> Values \cup {Null}]
        /\ \A k \in Keys : value[k] # Null <=> k \in T
    BY ONLY <1>2 DEF Consistent
  <1>4. Null \notin Keys
    BY ONLY RbTreeAssumption
  <1>5. ASSUME NEW k \in Keys PROVE FindNode(tree, k) = Null <=> value[k] = Null
    BY ONLY <1>3, <1>4, <1>5, FindNodeIs
  <1>6. QED
    <2>1. \A k \in Keys : (IF FindNode(tree, k) = Null THEN Null ELSE value[k]) = value[k]
      BY ONLY <1>5
    <2>2. Found = [k \in Keys |-> value[k]]
      BY ONLY <2>1, Zenon DEF Found
    <2>3. value = [k \in Keys |-> value[k]]
      BY ONLY <1>3
    <2>4. QED
      BY ONLY <2>2, <2>3

(* The tree implements a map: whatever restructuring goes on, Find answers *)
(* as the map does, an insert of a key that is there changes nothing, and  *)
(* an insert, erase or clear takes effect in one step.                     *)
THEOREM ImplementsMap == Spec => IsSortedMap
  <1>1. Init => Map!Init
    <2>1. Init => Found = value /\ value = NoNode
      <3>1. SUFFICES ASSUME Init PROVE Found = value /\ value = NoNode
        OBVIOUS
      <3>2. IInv
        BY ONLY <3>1, InitIInv
      <3>3. QED
        BY ONLY <3>1, <3>2, FoundIs, Zenon DEF Init
    <2>2. QED
      BY ONLY <2>1 DEF Map!Init, NoNode
  <1>2. IInv /\ IInv' /\ [Next]_vars => [Map!Next]_Found
    <2>1. SUFFICES ASSUME IInv, IInv', [Next]_vars PROVE [Map!Next]_Found
      OBVIOUS
    <2>2. Found = value /\ Found' = value'
      <3>1. Found = value
        BY ONLY <2>1, FoundIs
      <3>2. (IInv => Found = value)'
        BY FoundIs, PTL
      <3>3. QED
        BY ONLY <2>1, <3>1, <3>2
    <2>3. Changes
      BY ONLY <2>1, NextStep
    <2>4. CASE \E k \in Keys, v \in Values :
                 value[k] = Null /\ value' = [value EXCEPT ![k] = v]
      BY ONLY <2>2, <2>4 DEF Map!Next, Map!InsertIfAbsent
    <2>5. CASE \E k \in Keys : value[k] # Null /\ value' = [value EXCEPT ![k] = Null]
      BY ONLY <2>2, <2>5 DEF Map!Next, Map!Erase
    <2>6. CASE value' = NoNode
      BY ONLY <2>2, <2>6 DEF Map!Next, Map!Clear, NoNode
    <2>7. CASE value' = value
      BY ONLY <2>2, <2>7
    <2>8. QED
      BY ONLY <2>3, <2>4, <2>5, <2>6, <2>7, Zenon DEF Changes
  <1>3. QED
    BY <1>1, <1>2, TreeHolds, PTL DEF Spec, IsSortedMap, Map!Spec
=============================================================================
