------------------------------- MODULE RbTree -------------------------------
(* The red-black tree of src/Share/base/Common/RbTree.h. It orders the     *)
(* freed allocations of a section by address (SectionAllocator) and holds  *)
(* the settings (TMQSettings). A node keeps its key for its whole life and *)
(* a key has one node at most, so a node is named by its key.              *)
(*                                                                         *)
(* A call runs to its end before the next one (its users hold a mutex);    *)
(* its loops are unfolded, one step per iteration, so that each state of   *)
(* the restructuring can be looked at. The code's mirrored halves (left    *)
(* and right) are one definition with the side as a parameter.             *)
EXTENDS Naturals, FiniteSets

CONSTANTS Keys, Values, Null

ASSUME RbTreeAssumption == /\ Keys \subseteq Nat
                           /\ IsFiniteSet(Keys)
                           /\ Null \notin Keys \cup Values

VARIABLES
  tree,    \* root, child by side and node, parent, color
  value,   \* the value in each node
  size,    \* RbTree::size
  call     \* the restructuring in progress: its kind, x and the parent of x

vars == <<tree, value, size, call>>

Red   == "red"
Black == "black"
Sides == {"left", "right"}
Other(s) == IF s = "left" THEN "right" ELSE "left"
Idle == [kind |-> "idle", x |-> Null, parent |-> Null]

NoNode == [k \in Keys |-> Null]
Empty  == [root |-> Null, child |-> [s \in Sides |-> NoNode],
           parent |-> NoNode, color |-> [k \in Keys |-> Red]]

IsRed(t, n) == n # Null /\ t.color[n] = Red

(* The side on which a node hangs, its parent being there.                 *)
SideOf(t, n) == IF t.child["left"][t.parent[n]] = n THEN "left" ELSE "right"

(* The last node on one side of a subtree: GetMinNode and GetMaxNode, and  *)
(* the iterator's GetNextDescendant and GetPreDescendant.                  *)
Extreme(t, s, top) ==
  LET walk[n \in Keys] == IF t.child[s][n] = Null THEN n ELSE walk[t.child[s][n]]
  IN IF top = Null THEN Null ELSE walk[top]

(* The side of node n on which a key is looked for and linked.             *)
Toward(key, n) == IF key < n THEN "left" ELSE "right"

(* FindNode.                                                               *)
FindNode(t, key) ==
  LET walk[n \in Keys \cup {Null}] ==
        IF n = Null \/ n = key THEN n ELSE walk[t.child[Toward(key, n)][n]]
  IN walk[t.root]

(* The node under which InsertNode links a key that is not in the tree.    *)
Place(t, key) ==
  LET down(n) == t.child[Toward(key, n)][n]
      walk[n \in Keys] == IF down(n) = Null THEN n ELSE walk[down(n)]
  IN walk[t.root]

(* operator++ with s = "right", operator-- with s = "left": the nearest    *)
(* node in the subtree on that side, otherwise the nearest ancestor of     *)
(* which the node lies on the other side (0 when there is none).           *)
Advance(t, s, node) ==
  LET ancestor[n \in Keys] ==
        IF t.parent[n] = Null \/ t.child[Other(s)][t.parent[n]] = n
        THEN t.parent[n] ELSE ancestor[t.parent[n]]
  IN IF t.child[s][node] # Null
     THEN Extreme(t, Other(s), t.child[s][node])
     ELSE ancestor[node]

(* m takes the place of n under the parent of n, or as the root.           *)
Lift(t, n, m) ==
  LET p == t.parent[n]
      hung == IF p = Null THEN [t EXCEPT !.root = m]
                          ELSE [t EXCEPT !.child[SideOf(t, n)][p] = m]
  IN IF m = Null THEN hung ELSE [hung EXCEPT !.parent[m] = p]

(* Hang c, which may be null, on side s of n.                              *)
Hang(t, n, s, c) ==
  LET hung == [t EXCEPT !.child[s][n] = c]
  IN IF c = Null THEN hung ELSE [hung EXCEPT !.parent[c] = n]

(* Mutant: the node that goes down does not adopt the inner grandchild.    *)
RotateForgets(t, n, s) ==
  LET riser == t.child[Other(s)][n]
      inner == t.child[s][riser]
  IN Hang(Hang(Lift(t, n, riser), n, Other(s), Null), riser, s, n)

(* RotateLeft is Rotate with s = "left", RotateRight with s = "right": the *)
(* child on the other side rises and n goes down on side s.                *)
Rotate(t, n, s) ==
  LET riser == t.child[Other(s)][n]
      inner == t.child[s][riser]
  IN Hang(Hang(Lift(t, n, riser), n, Other(s), inner), riser, s, n)

Paint(t, n, c) == IF n = Null THEN t ELSE [t EXCEPT !.color[n] = c]

Nodes(t) == {k \in Keys : t.root = k \/ t.parent[k] # Null}

Init ==
  /\ tree = Empty
  /\ value = NoNode
  /\ size = 0
  /\ call = Idle

-----------------------------------------------------------------------------
(* Insert: the first node is the black root; a key that is there is left   *)
(* alone, with the value it has; otherwise the node is linked, red, and    *)
(* the tree is balanced from it.                                           *)
Insert(k, v) ==
  /\ call = Idle
  /\ FindNode(tree, k) = Null
  /\ value' = [value EXCEPT ![k] = v]
  /\ IF tree.root = Null
     THEN /\ tree' = Paint([tree EXCEPT !.root = k], k, Black)
          /\ size' = 1
          /\ call' = Idle
     ELSE LET p == Place(tree, k)
          IN /\ tree' = Paint(Hang(tree, p, Toward(k, p), k), k, Red)
             /\ call' = [kind |-> "balance", x |-> k, parent |-> Null]
             /\ UNCHANGED size

(* Mutant: insert of a key that is there overwrites its value.             *)
InsertOverwrites(k, v) ==
  /\ call = Idle
  /\ FindNode(tree, k) # Null
  /\ value' = [value EXCEPT ![k] = v]
  /\ UNCHANGED <<tree, size, call>>

InsertThere(k, v) ==
  /\ call = Idle
  /\ FindNode(tree, k) # Null
  /\ UNCHANGED vars

(* One iteration of the loop of BalanceTree: x and its parent are red.     *)
BalanceStep ==
  /\ call.kind = "balance"
  /\ call.x # tree.root
  /\ LET x == call.x
         p == tree.parent[x]
         g == tree.parent[p]
         s == SideOf(tree, p)
         uncle == tree.child[Other(s)][g]
     IN /\ IsRed(tree, p)
        /\ IF IsRed(tree, uncle)
           THEN /\ tree' = Paint(Paint(Paint(tree, p, Black), uncle, Black), g, Red)
                /\ call' = [call EXCEPT !.x = g]
           ELSE LET bent  == x = tree.child[Other(s)][p]
                    low   == IF bent THEN p ELSE x
                    t1    == IF bent THEN Rotate(tree, p, s) ELSE tree
                    mid   == t1.parent[low]
                    top   == t1.parent[mid]
                IN /\ tree' = Rotate(Paint(Paint(t1, mid, Black), top, Red),
                                     top, Other(s))
                   /\ call' = [call EXCEPT !.x = low]
  /\ UNCHANGED <<value, size>>

(* The loop ends at the root or below a black node.                        *)
BalanceEnd ==
  /\ call.kind = "balance"
  /\ call.x = tree.root \/ ~IsRed(tree, tree.parent[call.x])
  /\ tree' = Paint(tree, tree.root, Black)
  /\ size' = size + 1
  /\ call' = Idle
  /\ UNCHANGED value

(* The first half of RebalanceForErase, for node z: y, the node that       *)
(* really leaves its place, is z or the successor of z, which takes z's    *)
(* place and colour; x takes the place of y. The result has the tree       *)
(* without z, x, the parent of x and the colour that was lost.             *)
Unlink(t, z) ==
  LET l == t.child["left"][z]
      r == t.child["right"][z]
      y == IF l # Null /\ r # Null THEN Extreme(t, "left", r) ELSE z
      x == IF y # z THEN t.child["right"][y]
           ELSE IF l = Null THEN r ELSE l
      freed(t1) == [t1 EXCEPT !.child["left"][z] = Null, !.child["right"][z] = Null,
                              !.parent[z] = Null, !.color[z] = Red]
      relinked == IF y = r THEN t
                  ELSE Hang(Lift(t, y, x), y, "right", r)
  IN IF y = z
     THEN [tree |-> freed(Lift(t, z, x)), x |-> x, parent |-> t.parent[z],
           lost |-> t.color[z]]
     ELSE [tree |-> freed(Paint(Lift(Hang(relinked, y, "left", l), z, y),
                                y, t.color[z])),
           x |-> x, parent |-> IF y = r THEN y ELSE t.parent[y],
           lost |-> t.color[y]]

(* Erase of what Find returned: nothing for end(). Without a lost black    *)
(* node the tree needs no rebalancing.                                     *)
Erase(k) ==
  /\ call = Idle
  /\ FindNode(tree, k) # Null
  /\ LET u == Unlink(tree, k)
     IN /\ tree' = u.tree
        /\ IF u.lost = Red
           THEN /\ size' = size - 1
                /\ call' = Idle
           ELSE /\ call' = [kind |-> "rebalance", x |-> u.x, parent |-> u.parent]
                /\ UNCHANGED size
  /\ value' = [value EXCEPT ![k] = Null]

(* One iteration of the loop of RebalanceForErase: the side of x lacks a   *)
(* black node. The colour moves up, or a rotation ends the loop.           *)
RebalanceStep ==
  /\ call.kind = "rebalance"
  /\ call.x # tree.root
  /\ ~IsRed(tree, call.x)
  /\ LET p  == call.parent
         s  == IF call.x = tree.child["left"][p] THEN "left" ELSE "right"
         o  == Other(s)
         w0 == tree.child[o][p]
         t1 == IF IsRed(tree, w0)
               THEN Rotate(Paint(Paint(tree, w0, Black), p, Red), p, s) ELSE tree
         w1 == t1.child[o][p]
         near == t1.child[s][w1]
         far  == t1.child[o][w1]
     IN IF ~IsRed(t1, near) /\ ~IsRed(t1, far)
        THEN /\ tree' = Paint(t1, w1, Red)
             /\ call' = [call EXCEPT !.x = p, !.parent = t1.parent[p]]
        ELSE LET t2 == IF IsRed(t1, far) THEN t1
                       ELSE Rotate(Paint(Paint(t1, near, Black), w1, Red), w1, o)
                 w2 == t2.child[o][p]
                 t3 == Paint(Paint(Paint(t2, w2, t2.color[p]), p, Black),
                             t2.child[o][w2], Black)
             IN /\ tree' = Rotate(t3, p, s)
                /\ call' = [call EXCEPT !.kind = "rebalanced"]
  /\ UNCHANGED <<value, size>>

(* Mutant: x keeps its colour after the loop.                               *)
RebalanceEndNoPaint ==
  /\ \/ call.kind = "rebalanced"
     \/ call.kind = "rebalance" /\ (call.x = tree.root \/ IsRed(tree, call.x))
  /\ size' = size - 1
  /\ call' = Idle
  /\ UNCHANGED <<tree, value>>

(* After the loop x becomes black; the node is freed and counted.          *)
RebalanceEnd ==
  /\ \/ call.kind = "rebalanced"
     \/ call.kind = "rebalance" /\ (call.x = tree.root \/ IsRed(tree, call.x))
  /\ tree' = Paint(tree, call.x, Black)
  /\ size' = size - 1
  /\ call' = Idle
  /\ UNCHANGED value

(* Clear: RemoveTree frees every node and counts each one down.            *)
Clear ==
  /\ call = Idle
  /\ tree.root # Null
  /\ tree' = Empty
  /\ value' = NoNode
  /\ size' = size - Cardinality(Nodes(tree))
  /\ UNCHANGED call

(* CopyTree: the shape, the colours and new parent links.                  *)
CopyTree(t) ==
  [t EXCEPT !.parent = [k \in Keys |->
     IF \E n \in Keys : k \in {t.child[s][n] : s \in Sides}
     THEN CHOOSE n \in Keys : k \in {t.child[s][n] : s \in Sides}
     ELSE Null]]

(* Assignment to another tree, which is used from then on.                 *)
AssignTree ==
  /\ call = Idle
  /\ tree' = CopyTree(tree)
  /\ UNCHANGED <<value, size, call>>

Next ==
  \/ \E k \in Keys, v \in Values : Insert(k, v) \/ InsertThere(k, v)
  \/ \E k \in Keys : Erase(k)
  \/ Clear
  \/ AssignTree
  \/ BalanceStep \/ BalanceEnd
  \/ RebalanceStep \/ RebalanceEnd

Spec == Init /\ [][Next]_vars

-----------------------------------------------------------------------------
NodesOrNull == Keys \cup {Null}

(* Every variable has its type.                                            *)
TypeOK ==
  /\ tree.root \in NodesOrNull
  /\ tree.child \in [Sides -> [Keys -> NodesOrNull]]
  /\ tree.parent \in [Keys -> NodesOrNull]
  /\ tree.color \in [Keys -> {Red, Black}]
  /\ value \in [Keys -> Values \cup {Null}]
  /\ size \in 0..Cardinality(Keys)
  /\ call.kind \in {"idle", "balance", "rebalance", "rebalanced"}
  /\ call.x \in NodesOrNull /\ call.parent \in NodesOrNull

(* Black nodes on each way down from n, or 0 where two ways differ.        *)
BlackHeight(t) ==
  LET height[n \in NodesOrNull] ==
        IF n = Null THEN 1
        ELSE LET l == height[t.child["left"][n]]
                 r == height[t.child["right"][n]]
             IN IF l # r \/ l = 0 THEN 0
                ELSE IF t.color[n] = Black THEN l + 1 ELSE l
  IN height[t.root]

(* Between calls the tree is a red-black tree: a black root, no red node   *)
(* under a red one, as many black nodes on every way down. It is what      *)
(* BalanceTree and RebalanceForErase restore (RbTree.h:351, 539).          *)
RedBlack ==
  call = Idle =>
    /\ ~IsRed(tree, tree.root)
    /\ \A n \in Nodes(tree) : IsRed(tree, n) => ~IsRed(tree, tree.parent[n])
    /\ BlackHeight(tree) > 0

(* Between calls the iterators walk the keys of the map in order, up with  *)
(* ++ and down with --, to the end; and size counts them. SectionAllocator *)
(* relies on the order of addresses (SectionAllocator.cpp:83).             *)
IteratorOrder ==
  call = Idle =>
    LET held == {k \in Keys : value[k] # Null}
        above(k) == {m \in held : m > k}
        below(k) == {m \in held : m < k}
    IN /\ size = Cardinality(held)
       /\ held # {} => \A k \in held : Extreme(tree, "left", tree.root) <= k
       /\ \A k \in held :
            /\ LET up == Advance(tree, "right", k)
               IN IF above(k) = {} THEN up = Null
                  ELSE up \in above(k) /\ \A m \in above(k) : up <= m
            /\ LET down == Advance(tree, "left", k)
               IN IF below(k) = {} THEN down = Null
                  ELSE down \in below(k) /\ \A m \in below(k) : down >= m

(* What Find answers, in every state, also while a tree is restructured.   *)
Found == [k \in Keys |-> IF FindNode(tree, k) = Null THEN Null ELSE value[k]]

Map == INSTANCE SortedMap WITH map <- Found

(* The tree is a map: each insert, erase and clear changes what Find       *)
(* answers for its own key only, at one point, and restructuring changes   *)
(* no answer.                                                              *)
IsSortedMap == Map!Spec
=============================================================================
