---------------------------- MODULE RCQueueProofs ----------------------------
(***************************************************************************)
(* Proofs about the lock-free queue, for every number of producers,        *)
(* consumers, iterators and nodes, if no two threads call one iterator.    *)
(*                                                                         *)
(* The remains of a node count references that are spread over links,      *)
(* iterators and the locals of threads, and a step moves a reference from  *)
(* one holder to another: Exact names the holder of each, also in the      *)
(* middle of a call.  While Clear unlinks nodes a link is there that is    *)
(* not counted, or counted where it is not (Hides).                        *)
(*                                                                         *)
(* That a node without references is out of reach of everybody needs the   *)
(* shape of the queue: Line says which nodes form it (Q), which chains of  *)
(* removed nodes are being unlinked and by whom (K), and that a link of a  *)
(* producer comes into it once (InLine, Chain).  From there a step is      *)
(* proved by what it changes: the lemmas named ...Frame say what it has to *)
(* keep, and the lemmas named ...Step or ...Quiet that it does.            *)
(*                                                                         *)
(* That the queue is a message pool needs the order of the nodes on top of *)
(* that: no message waits between a node and the one its link leads to, so *)
(* an iterator that follows links has nothing it wants behind it (Passing, *)
(* kept by the steps in the lemmas named ...Passes).                       *)
(*                                                                         *)
(* That no message is lost needs the links to lead on: they never go       *)
(* round, although Clear turns one back, and only few nodes end them       *)
(* (Ending, kept by the steps in the lemmas named ...Ends).                *)
(***************************************************************************)
EXTENDS RCQueue, FiniteSetTheorems, WellFoundedInduction, TLAPS

(* Where a consumer counts as a reader of its ptr.                         *)
ReadPCs == {"read", "enter", "unset", "fail"}

(* Between LockForClear and UnlockForClear.                                *)
LockPCs == {"clear", "unlock", "seek", "cut", "cutnext", "cutlink", "turn",
            "defer", "free"}

(* In Leave, and from there to the end of what it was called for.          *)
LeavePCs == LockPCs \cup {"leave", "delete", "advance", "close", "reset"}

(* In Clear, before and after the marked nodes are unlinked.               *)
SeekPCs == {"seek", "cut", "cutlink"}
CutPCs  == {"cutnext", "turn"}

(* The nodes that were enqueued, and what a pointer may hold.              *)
Existing == 0..Len(kind)
Known    == Existing \cup {Nil}

(* Types: the pointers lead to nodes that exist, and a node is fresh until *)
(* it is enqueued.                                                         *)
NodeSet == [next : Refs, removed : BOOLEAN, writing : BOOLEAN,
            readers : Nat, remains : Nat, freed : BOOLEAN]

PointersTyped ==
  /\ kind \in Seq(Values) /\ Len(kind) \in 0..MaxNodes
  /\ it \in [Iterators -> [ptr : Known, next : Known]]
  /\ pc \in [Producers \cup Consumers -> ProducerPCs \cup ConsumerPCs]
  /\ tail \in Existing
  /\ old \in [Producers -> Known] /\ mine \in [Producers -> Known]
  /\ at \in [Consumers -> Known]
  /\ nx \in [Consumers -> Known] /\ seek \in [Consumers -> Known]
  /\ back \in [Consumers -> {"out", "advance", "close", "reset"}]

NodesTyped ==
  /\ node \in [Nodes -> NodeSet]
  /\ \A n \in Existing : node[n].next \in Known
  /\ \A n \in Nodes \ Existing : node[n] = NewNode

Typed == PointersTyped /\ NodesTyped

(* What the place of a consumer says about its pointers.                   *)
ControlOf(c) ==
  /\ pc[c] \in ConsumerPCs
  /\ back[c] = "out" <=> pc[c] \notin LeavePCs
  /\ pc[c] \in {"advance", "close", "reset"} => back[c] = pc[c]
  /\ pc[c] = "header" => Ptr(c) = Nil
  /\ pc[c] \in {"loop", "check", "take", "taken"} \cup ReadPCs => Ptr(c) # Nil
  /\ pc[c] = "read" => Nxt(c) = Nil
  /\ pc[c] \in {"unset", "check", "take"} => Nxt(c) # Nil
  /\ pc[c] = "take" => Nxt(c) # Header
  /\ back[c] = "advance" => Nxt(c) # Nil
  /\ pc[c] \in LockPCs \cup {"delete"} => at[c] # Nil
  /\ pc[c] \in SeekPCs \cup CutPCs => nx[c] # Nil /\ seek[c] # Nil
  /\ pc[c] = "free" => nx[c] # Nil

Control ==
  /\ \A p \in Producers : pc[p] \in ProducerPCs
  /\ \A c \in Consumers : ControlOf(c)

(* What the references of a node are held by: ...                          *)
Hides(c, m) ==
  \/ pc[c] = "turn" /\ seek[c] = m
  \/ pc[c] = "cutnext" /\ at[c] = m /\ node[m].next = nx[c]

Link(m) == IF node[m].freed \/ \E c \in Consumers : Hides(c, m)
           THEN Nil ELSE node[m].next

Links == [m \in Nodes |-> Link(m)]
News  == [p \in Producers |-> IF pc[p] = "link" THEN mine[p] ELSE Nil]
Ptrs  == [i \in Iterators |->
            IF \E c \in Consumers : Uses[c] = i /\ back[c] # "out"
            THEN Nil ELSE it[i].ptr]
Nexts == [i \in Iterators |->
            IF \E c \in Consumers :
                 Uses[c] = i /\ (back[c] = "reset" \/ pc[c] = "enter")
            THEN Nil ELSE it[i].next]
Ats   == [c \in Consumers |-> IF pc[c] = "leave" THEN at[c] ELSE Nil]
Nxs   == [c \in Consumers |-> IF pc[c] \in CutPCs \cup {"defer"} THEN nx[c] ELSE Nil]
Reads == [c \in Consumers |-> IF pc[c] \in ReadPCs THEN Ptr(c) ELSE Nil]

(* How many entries of f lead to n, and all references to a node.          *)
Count(f, n) == Cardinality({x \in DOMAIN f : f[x] = n})

References(n) ==
  Count(Links, n) + Count(News, n) + Count(Ptrs, n) + Count(Nexts, n)
    + Count(Ats, n) + Count(Nxs, n) + (IF n = Header THEN 1 ELSE 0)

(* The remains of a node are the references to it, and its readers the     *)
(* consumers between SetReading and UnsetReading.                          *)
Exact == \A n \in Existing : node[n].remains = References(n)

ReadersExact == \A n \in Nodes : node[n].readers = Count(Reads, n)

(* A locked node is not consumed, has no readers and one thread has locked *)
(* it.                                                                     *)
Locks ==
  /\ \A n \in Existing : node[n].writing => ~node[n].removed /\ node[n].readers = 0
  /\ \A c \in Consumers : pc[c] \in LockPCs => node[at[c]].writing
  /\ \A c, d \in Consumers :
       pc[c] \in LockPCs /\ pc[d] \in LockPCs /\ at[c] = at[d] => c = d

(* The node a consumer is about to free has no references, is not freed    *)
(* yet, and is freed by nobody else.                                       *)
Doomed(c) == IF pc[c] = "delete" THEN at[c] ELSE IF pc[c] = "free" THEN nx[c] ELSE Nil

Doom ==
  /\ \A n \in Existing : node[n].freed => node[n].remains = 0 /\ node[n].removed
  /\ \A c \in Consumers : Doomed(c) # Nil =>
       node[Doomed(c)].remains = 0 /\ ~node[Doomed(c)].freed
  /\ \A c, d \in Consumers : Doomed(c) # Nil /\ Doomed(c) = Doomed(d) => c = d

(* Enter finds the next node where it was read: SetReading keeps the link. *)
Entering == \A c \in Consumers :
  pc[c] = "enter" /\ Nxt(c) # Nil => node[Ptr(c)].next = Nxt(c)

(* The queue: the nodes in Q, from the header to the tail, of which only a *)
(* producer that has not linked its node yet makes two pieces. Every node  *)
(* that is not consumed is in it, its links lead to later nodes and no two *)
(* to the same one, and nobody else has a node of a producer that is not   *)
(* linked.                                                                 *)
InLine(Q) ==
  /\ Q \subseteq Existing /\ Header \in Q /\ tail \in Q
  /\ ~node[Header].removed
  /\ \A n \in Q : ~node[n].freed
  /\ \A n \in Existing \ Q : node[n].removed
  /\ Link(tail) = Nil
  /\ \A p \in Producers : pc[p] = "link" =>
       /\ old[p] \in Q /\ mine[p] \in Q /\ mine[p] # Header
       /\ Link(old[p]) = Nil /\ old[p] # tail /\ old[p] < mine[p]
  /\ \A p, q \in Producers : pc[p] = "link" /\ pc[q] = "link" /\ p # q =>
       old[p] # old[q] /\ mine[p] # mine[q]
  /\ \A m \in Q : Link(m) \in Q \cup {Nil}
  /\ \A m \in Q : Link(m) # Nil => m < Link(m)
  /\ \A n \in Q \ {Header} : \/ \E m \in Q : Link(m) = n
                             \/ \E p \in Producers : pc[p] = "link" /\ mine[p] = n
  /\ \A m1, m2 \in Q : Link(m1) = Link(m2) /\ Link(m1) # Nil => m1 = m2
  /\ \A m \in Q, p \in Producers : pc[p] = "link" => Link(m) # mine[p]

(* The removed nodes S that consumer c is unlinking, from nx to seek, all  *)
(* later than the one it has locked: in the queue while it looks for the   *)
(* last one, out of it once that is done.                                  *)
Chain(c, Q, S) ==
  /\ S \subseteq Existing
  /\ \A m \in S : node[m].removed /\ ~node[m].freed
  /\ pc[c] \notin SeekPCs \cup CutPCs => S = {}
  /\ pc[c] \in SeekPCs \cup CutPCs =>
       /\ nx[c] \in S /\ seek[c] \in S
       /\ \A m \in S : at[c] < m
       /\ \A m \in S \ {seek[c]} : node[m].next \in S
       /\ \A n \in S \ {nx[c]} : \E m \in S \ {seek[c]} : node[m].next = n
  /\ pc[c] \in SeekPCs => S \subseteq Q /\ node[at[c]].next = nx[c]
  /\ pc[c] \in CutPCs => S \cap Q = {}
  /\ pc[c] = "cutnext" => node[seek[c]].next = Nil
  /\ pc[c] = "turn" => node[seek[c]].next \in {Nil, node[at[c]].next}

(* The queue and the chains, which have no node in common.                 *)
Line(Q, K) ==
  /\ InLine(Q)
  /\ \A c \in Consumers : Chain(c, Q, K[c])
  /\ \A c, d \in Consumers : c # d => K[c] \cap K[d] = {}

InOrder == \E Q \in SUBSET Existing, K \in [Consumers -> SUBSET Existing] : Line(Q, K)

(* The inductive invariant.                                                *)
IInv == /\ Typed /\ Control /\ Exact /\ ReadersExact /\ Locks /\ Doom
        /\ Entering /\ InOrder

(* No two threads call the same iterator. What the queue promises needs    *)
(* this: two threads in one iterator give back the same reference twice.   *)
OneEach == \A c, d \in Consumers : Uses[c] = Uses[d] => c = d

(* What a step of consumer c leaves alone, and what it may do to its own   *)
(* state.                                                                  *)
SameOthers(c) ==
  /\ \A t \in Producers \cup (Consumers \ {c}) : pc'[t] = pc[t]
  /\ \A d \in Consumers \ {c} : /\ at'[d] = at[d] /\ nx'[d] = nx[d]
                                /\ seek'[d] = seek[d] /\ back'[d] = back[d]
  /\ \A i \in Iterators : i # Uses[c] => it'[i] = it[i]
  /\ UNCHANGED <<kind, old, mine>>

Local(c) ==
  /\ UNCHANGED <<kind, old, mine>>
  /\ tail' \in Existing
  /\ UNCHANGED pc \/ \E s \in ConsumerPCs : pc' = [pc EXCEPT ![c] = s]
  /\ UNCHANGED it \/ \E r \in [ptr : Known, next : Known] : it' = [it EXCEPT ![Uses[c]] = r]
  /\ UNCHANGED at \/ \E a \in Known : at' = [at EXCEPT ![c] = a]
  /\ UNCHANGED nx \/ \E a \in Known : nx' = [nx EXCEPT ![c] = a]
  /\ UNCHANGED seek \/ \E a \in Known : seek' = [seek EXCEPT ![c] = a]
  /\ UNCHANGED back \/ \E b \in {"out", "advance", "close", "reset"} : back' = [back EXCEPT ![c] = b]

(* A step of a consumer keeps the types of the pointers and leaves the     *)
(* others alone.                                                           *)
LEMMA LocalOthers ==
  ASSUME PointersTyped, NEW c \in Consumers, Local(c)
  PROVE  SameOthers(c) /\ PointersTyped'
  <1>1. c \in Producers \cup Consumers /\ Uses[c] \in Iterators
    BY RCQueueAssumption
  <1>2. SameOthers(c)
    BY <1>1, RCQueueAssumption DEF Local, SameOthers, PointersTyped
  <1>3. PointersTyped'
    <2>1. Known' = Known /\ Existing' = Existing
      BY DEF Local, Known, Existing
    <2>2. pc' \in [Producers \cup Consumers -> ProducerPCs \cup ConsumerPCs]
      BY DEF Local, PointersTyped
    <2>3. it' \in [Iterators -> [ptr : Known, next : Known]]
      BY <1>1 DEF Local, PointersTyped
    <2>4. /\ at' \in [Consumers -> Known]
          /\ nx' \in [Consumers -> Known]
          /\ seek' \in [Consumers -> Known]
      <3>1. at' \in [Consumers -> Known]
        BY DEF Local, PointersTyped
      <3>2. nx' \in [Consumers -> Known]
        BY DEF Local, PointersTyped
      <3>3. seek' \in [Consumers -> Known]
        BY DEF Local, PointersTyped
      <3>4. QED
        BY <3>1, <3>2, <3>3
    <2>5. back' \in [Consumers -> {"out", "advance", "close", "reset"}]
      BY DEF Local, PointersTyped
    <2>6. QED
      BY <2>1, <2>2, <2>3, <2>4, <2>5 DEF Local, PointersTyped
  <1>4. QED
    BY <1>2, <1>3

(* The steps of Lookup and of the destructor are such steps, ...           *)
LEMMA LookupLocal ==
  ASSUME Typed, Control, NEW c \in Consumers,
         LookupBegin(c) \/ CloseBegin(c) \/ LookupStep(c)
  PROVE  Local(c)
  <1> USE DEF LookupUnchanged, producing, clearing, history, Go
  <1>1. /\ Uses[c] \in Iterators /\ tail \in Existing
        /\ \A i \in Iterators : it[i].ptr \in Known /\ it[i].next \in Known
        /\ at[c] \in Known /\ nx[c] \in Known /\ seek[c] \in Known
        /\ Header \in Known /\ Nil \in Known
        /\ back[c] \in {"out", "advance", "close", "reset"}
    BY RCQueueAssumption DEF Typed, PointersTyped, Known, Existing, Header
  <1>2. CASE LookupBegin(c) \/ LookupAgain(c) \/ LookupSetReading(c) \/ LookupEnter(c)
             \/ LookupEnd(c) \/ LookupUnsetReading(c) \/ LookupTry(c) \/ Take(c) \/ LookupTaken(c)
    BY <1>1, <1>2 DEF LookupBegin, LookupAgain, LookupSetReading, LookupEnter, LookupEnd,
        LookupUnsetReading, LookupTry, Take, LookupTaken, Local, ConsumerPCs
  <1>3. CASE LookupPass(c) \/ TakeFails(c) \/ CloseBegin(c) \/ CloseNext(c)
    BY <1>1, <1>3 DEF LookupPass, TakeFails, CloseBegin, CloseNext, LeaveFor, Local, ConsumerPCs, Ptr, Nxt
  <1>4. CASE LookupAdvance(c) \/ CloseEnd(c)
    <2>1. \E n \in Known : it' = [it EXCEPT ![Uses[c]] = [ptr |-> n, next |-> Nil]]
      BY <1>1, <1>4 DEF LookupAdvance, CloseEnd, Nxt
    <2>2. \A n \in Known : [ptr |-> n, next |-> Nil] \in [ptr : Known, next : Known]
      BY <1>1
    <2>3. \E r \in [ptr : Known, next : Known] : it' = [it EXCEPT ![Uses[c]] = r]
      BY <2>1, <2>2
    <2>4. /\ \E x \in Known : at' = [at EXCEPT ![c] = x]
          /\ \E b \in {"out", "advance", "close", "reset"} : back' = [back EXCEPT ![c] = b]
          /\ \E s \in ConsumerPCs : pc' = [pc EXCEPT ![c] = s]
      BY <1>1, <1>4 DEF LookupAdvance, CloseEnd, ConsumerPCs
    <2>5. UNCHANGED <<kind, old, mine, tail, nx, seek>>
      BY <1>4 DEF LookupAdvance, CloseEnd
    <2>6. QED
      BY <1>1, <2>3, <2>4, <2>5 DEF Local
  <1>5. CASE LookupHeader(c)
    <2>1. it' = [it EXCEPT ![Uses[c]] = [@ EXCEPT !.ptr = Header]]
      BY <1>5 DEF LookupHeader
    <2>2. it[Uses[c]] \in [ptr : Known, next : Known]
      BY <1>1 DEF Typed, PointersTyped
    <2>3. \E r \in [ptr : Known, next : Known] : it' = [it EXCEPT ![Uses[c]] = r]
      BY <1>1, <2>1, <2>2
    <2>4. QED
      BY <1>1, <1>5, <2>3 DEF LookupHeader, Local, ConsumerPCs
  <1>6. CASE LookupReadNext(c)
    <2>1. pc[c] = "read" /\ Ptr(c) \in Existing
      BY <1>1, <1>6 DEF LookupReadNext, Control, ControlOf, Known, Ptr, ReadPCs
    <2>2. node[Ptr(c)].next \in Known
      BY <2>1 DEF Typed, NodesTyped
    <2>3. it' = [it EXCEPT ![Uses[c]] = [@ EXCEPT !.next = node[Ptr(c)].next]]
      BY <1>6 DEF LookupReadNext
    <2>4. it[Uses[c]] \in [ptr : Known, next : Known]
      BY <1>1 DEF Typed, PointersTyped
    <2>5. \E r \in [ptr : Known, next : Known] : it' = [it EXCEPT ![Uses[c]] = r]
      BY <2>2, <2>3, <2>4
    <2>6. QED
      BY <1>1, <1>6, <2>5 DEF LookupReadNext, Local, ConsumerPCs
  <1>20. QED
    BY <1>2, <1>3, <1>4, <1>5, <1>6 DEF LookupStep

(* ... and so are those of Leave and Clear.                                *)
LEMMA LeaveLocal ==
  ASSUME Typed, Control, NEW c \in Consumers, LeaveStep(c)
  PROVE  Local(c)
  <1> USE DEF LeaveUnchanged, producing, clearing, history, Go
  <1>1. /\ tail \in Existing /\ Nil \in Known
        /\ at[c] \in Known /\ nx[c] \in Known /\ seek[c] \in Known
        /\ back[c] \in ConsumerPCs
        /\ \A n \in Existing : node[n].next \in Known
    BY DEF Typed, PointersTyped, NodesTyped, Known, ConsumerPCs
  <1>2. /\ pc[c] \in LockPCs \cup {"delete"} => at[c] \in Existing
        /\ pc[c] \in SeekPCs \cup CutPCs => nx[c] \in Existing /\ seek[c] \in Existing
        /\ pc[c] = "free" => nx[c] \in Existing
    BY <1>1 DEF Control, ControlOf, Known
  <1>3. CASE LeaveNothing(c)
    BY <1>1, <1>3 DEF LeaveNothing, Local
  <1>4. CASE LeaveLock(c) \/ ClearCut(c) \/ ClearLink(c) \/ ClearTurn(c) \/ ClearDefer(c)
    BY <1>1, <1>4 DEF LeaveLock, ClearCut, ClearLink, ClearTurn, ClearDefer, Local, ConsumerPCs
  <1>5. CASE LeavePlain(c)
    BY <1>1, <1>5 DEF LeavePlain, Local, ConsumerPCs
  <1>6. CASE LeaveDelete(c)
    BY <1>1, <1>2, <1>6 DEF LeaveDelete, Local, ConsumerPCs
  <1>7. CASE ClearBegin(c)
    BY <1>1, <1>2, <1>7 DEF ClearBegin, LockPCs, Local, ConsumerPCs
  <1>8. CASE ClearSeek(c)
    BY <1>1, <1>2, <1>8 DEF ClearSeek, SeekPCs, Local, ConsumerPCs
  <1>9. CASE ClearTail(c)
    BY <1>1, <1>2, <1>9 DEF ClearTail, LockPCs, Local, ConsumerPCs
  <1>10. CASE ClearFree(c)
    BY <1>1, <1>2, <1>10 DEF ClearFree, Local, ConsumerPCs
  <1>11. CASE ClearEnd(c)
    BY <1>1, <1>11 DEF ClearEnd, Local, ConsumerPCs
  <1>20. QED
    BY <1>3, <1>4, <1>5, <1>6, <1>7, <1>8, <1>9, <1>10, <1>11 DEF LeaveStep

-----------------------------------------------------------------------------
(* Fields of the nodes that a step leaves alone.                           *)
SameNext    == \A n \in Nodes : node'[n].next = node[n].next
SameRemoved == \A n \in Nodes : node'[n].removed = node[n].removed
SameWriting == \A n \in Nodes : node'[n].writing = node[n].writing
SameReaders == \A n \in Nodes : node'[n].readers = node[n].readers
SameRemains == \A n \in Nodes : node'[n].remains = node[n].remains
SameFreed   == \A n \in Nodes : node'[n].freed = node[n].freed

(* Nodes that exist are nodes, and pointers that are not null lead to      *)
(* them.                                                                   *)
LEMMA InNodes ==
  ASSUME Typed
  PROVE  /\ \A n \in Existing : n \in Nodes /\ n # Nil
         /\ \A n \in Known : n \in Refs
         /\ \A n \in Known : n # Nil => n \in Existing
  <1>1. Len(kind) \in 0..MaxNodes
    BY DEF Typed, PointersTyped
  <1>2. QED
    BY <1>1, RCQueueAssumption DEF Existing, Known, Nodes, Refs, Nil

(* The pointers of a consumer, and where they are not null.                *)
LEMMA Standing ==
  ASSUME Typed, Control, NEW c \in Consumers
  PROVE  /\ Uses[c] \in Iterators
         /\ Ptr(c) \in Known /\ Nxt(c) \in Known
         /\ at[c] \in Known /\ nx[c] \in Known /\ seek[c] \in Known
         /\ pc[c] \in {"loop", "check", "take", "taken"} \cup ReadPCs => Ptr(c) \in Existing
         /\ pc[c] \in {"unset", "check", "take"} => Nxt(c) \in Existing
         /\ pc[c] \in LockPCs \cup {"delete"} => at[c] \in Existing
         /\ pc[c] \in SeekPCs \cup CutPCs => nx[c] \in Existing /\ seek[c] \in Existing
         /\ pc[c] = "free" => nx[c] \in Existing
  <1>1. Uses[c] \in Iterators
    BY RCQueueAssumption
  <1>2. it[Uses[c]].ptr \in Known /\ it[Uses[c]].next \in Known
    BY <1>1 DEF Typed, PointersTyped
  <1>3. at[c] \in Known /\ nx[c] \in Known /\ seek[c] \in Known
    BY DEF Typed, PointersTyped
  <1>4. ControlOf(c)
    BY DEF Control
  <1>5. Ptr(c) \in Known /\ Nxt(c) \in Known
    BY <1>2 DEF Ptr, Nxt
  <1> HIDE DEF Ptr, Nxt
  <1>6. QED
    BY <1>1, <1>3, <1>4, <1>5, InNodes DEF ControlOf

(* The fields of a node.                                                   *)
LEMMA FieldTypes ==
  ASSUME NodesTyped, NEW n \in Nodes
  PROVE  /\ node[n] \in NodeSet
         /\ node[n].next \in Refs /\ node[n].removed \in BOOLEAN
         /\ node[n].writing \in BOOLEAN /\ node[n].readers \in Nat
         /\ node[n].remains \in Nat /\ node[n].freed \in BOOLEAN
  <1>1. node[n] \in NodeSet
    BY DEF NodesTyped
  <1>2. QED
    BY <1>1 DEF NodeSet

(* Changing two fields of one node.                                        *)
LEMMA TwoFields ==
  ASSUME NEW f \in [Nodes -> NodeSet], NEW x \in Nodes
  PROVE  /\ [f EXCEPT ![x].writing = TRUE, ![x].remains = @ - 1]
               = [f EXCEPT ![x] = [f[x] EXCEPT !.writing = TRUE, !.remains = f[x].remains - 1]]
         /\ \A v, k : [f EXCEPT ![x].next = v, ![x].freed = k]
                     = [f EXCEPT ![x] = [f[x] EXCEPT !.next = v, !.freed = k]]
  OBVIOUS

(* Replacing one node keeps the types and the other nodes; ...             *)
LEMMA OneNode ==
  ASSUME Typed, kind' = kind, NEW x \in Existing, NEW r \in NodeSet,
         r.next \in Known, node' = [node EXCEPT ![x] = r]
  PROVE  /\ NodesTyped' /\ node'[x] = r
         /\ \A n \in Nodes : n # x => node'[n] = node[n]
  <1>1. x \in Nodes /\ node \in [Nodes -> NodeSet]
    BY InNodes DEF Typed, NodesTyped
  <1>2. node' \in [Nodes -> NodeSet] /\ node'[x] = r
    BY <1>1
  <1>3. \A n \in Nodes : n # x => node'[n] = node[n]
    BY <1>1
  <1>4. Existing' = Existing /\ Known' = Known
    BY DEF Existing, Known
  <1>5. QED
    BY <1>2, <1>3, <1>4, InNodes DEF NodesTyped, Typed

(* ... so does setting its readers, ...                                    *)
LEMMA SetReaders ==
  ASSUME Typed, kind' = kind, NEW x \in Existing, NEW v \in Nat,
         node' = [node EXCEPT ![x].readers = v]
  PROVE  /\ NodesTyped'
         /\ \A n \in Nodes : node'[n].readers = IF n = x THEN v ELSE node[n].readers
         /\ SameNext /\ SameRemoved /\ SameWriting /\ SameRemains /\ SameFreed
  <1> DEFINE r == [node[x] EXCEPT !.readers = v]
  <1>0. node[x] \in NodeSet /\ node[x].next \in Known
    BY InNodes DEF Typed, NodesTyped
  <1>1. /\ r \in NodeSet /\ r.readers = v
        /\ r.next = node[x].next /\ r.removed = node[x].removed
        /\ r.writing = node[x].writing /\ r.remains = node[x].remains
        /\ r.freed = node[x].freed
    BY <1>0 DEF NodeSet
  <1>2. node' = [node EXCEPT ![x] = r]
    OBVIOUS
  <1> HIDE DEF r
  <1>3. /\ NodesTyped' /\ node'[x] = r
        /\ \A n \in Nodes : n # x => node'[n] = node[n]
    BY <1>0, <1>1, <1>2, OneNode
  <1>4. QED
    BY <1>1, <1>3 DEF SameNext, SameRemoved, SameWriting, SameRemains, SameFreed

(* ... its remains, ...                                                    *)
LEMMA SetRemains ==
  ASSUME Typed, kind' = kind, NEW x \in Existing, NEW v \in Nat,
         node' = [node EXCEPT ![x].remains = v]
  PROVE  /\ NodesTyped'
         /\ \A n \in Nodes : node'[n].remains = IF n = x THEN v ELSE node[n].remains
         /\ SameNext /\ SameRemoved /\ SameWriting /\ SameReaders /\ SameFreed
  <1> DEFINE r == [node[x] EXCEPT !.remains = v]
  <1>0. node[x] \in NodeSet /\ node[x].next \in Known
    BY InNodes DEF Typed, NodesTyped
  <1>1. /\ r \in NodeSet /\ r.remains = v
        /\ r.next = node[x].next /\ r.removed = node[x].removed
        /\ r.writing = node[x].writing /\ r.readers = node[x].readers
        /\ r.freed = node[x].freed
    BY <1>0 DEF NodeSet
  <1>2. node' = [node EXCEPT ![x] = r]
    OBVIOUS
  <1> HIDE DEF r
  <1>3. /\ NodesTyped' /\ node'[x] = r
        /\ \A n \in Nodes : n # x => node'[n] = node[n]
    BY <1>0, <1>1, <1>2, OneNode
  <1>4. QED
    BY <1>1, <1>3 DEF SameNext, SameRemoved, SameWriting, SameReaders, SameFreed

(* ... its link, ...                                                       *)
LEMMA SetNext ==
  ASSUME Typed, kind' = kind, NEW x \in Existing, NEW v \in Known,
         node' = [node EXCEPT ![x].next = v]
  PROVE  /\ NodesTyped'
         /\ \A n \in Nodes : node'[n].next = IF n = x THEN v ELSE node[n].next
         /\ SameRemains /\ SameRemoved /\ SameWriting /\ SameReaders /\ SameFreed
  <1> DEFINE r == [node[x] EXCEPT !.next = v]
  <1>0. node[x] \in NodeSet /\ v \in Refs
    BY InNodes DEF Typed, NodesTyped
  <1>1. /\ r \in NodeSet /\ r.next = v
        /\ r.remains = node[x].remains /\ r.removed = node[x].removed
        /\ r.writing = node[x].writing /\ r.readers = node[x].readers
        /\ r.freed = node[x].freed
    BY <1>0 DEF NodeSet
  <1>2. node' = [node EXCEPT ![x] = r]
    OBVIOUS
  <1> HIDE DEF r
  <1>3. /\ NodesTyped' /\ node'[x] = r
        /\ \A n \in Nodes : n # x => node'[n] = node[n]
    BY <1>0, <1>1, <1>2, OneNode
  <1>4. QED
    BY <1>1, <1>3 DEF SameRemains, SameRemoved, SameWriting, SameReaders, SameFreed

(* ... or its removed flag.                                                *)
LEMMA SetRemoved ==
  ASSUME Typed, kind' = kind, NEW x \in Existing,
         node' = [node EXCEPT ![x].removed = TRUE]
  PROVE  /\ NodesTyped'
         /\ \A n \in Nodes : node'[n].removed <=> n = x \/ node[n].removed
         /\ SameNext /\ SameRemains /\ SameWriting /\ SameReaders /\ SameFreed
  <1> DEFINE r == [node[x] EXCEPT !.removed = TRUE]
  <1>0. node[x] \in NodeSet /\ node[x].next \in Known
    BY InNodes DEF Typed, NodesTyped
  <1>1. /\ r \in NodeSet /\ r.removed = TRUE
        /\ r.next = node[x].next /\ r.remains = node[x].remains
        /\ r.writing = node[x].writing /\ r.readers = node[x].readers
        /\ r.freed = node[x].freed
    BY <1>0 DEF NodeSet
  <1>2. node' = [node EXCEPT ![x] = r]
    OBVIOUS
  <1> HIDE DEF r
  <1>3. /\ NodesTyped' /\ node'[x] = r
        /\ \A n \in Nodes : n # x => node'[n] = node[n]
    BY <1>0, <1>1, <1>2, OneNode
  <1>4. \A n \in Nodes : node[n].removed \in BOOLEAN
    BY FieldTypes DEF Typed
  <1>5. QED
    BY <1>1, <1>3, <1>4 DEF SameNext, SameRemains, SameWriting, SameReaders, SameFreed

(* LockForClear locks a node and counts itself out.                        *)
LEMMA LeaveLockNode ==
  ASSUME Typed, NEW c \in Consumers, LeaveLock(c)
  PROVE  /\ NodesTyped' /\ at[c] \in Existing
         /\ \A n \in Nodes : node'[n].writing <=> n = at[c] \/ node[n].writing
         /\ \A n \in Nodes : node'[n].remains =
                               IF n = at[c] THEN node[n].remains - 1 ELSE node[n].remains
         /\ SameNext /\ SameRemoved /\ SameReaders /\ SameFreed
  <1> DEFINE x == at[c]
             k == node[x].remains - 1
             r == [node[x] EXCEPT !.writing = TRUE, !.remains = k]
  <1>1. x \in Existing /\ kind' = kind /\ node[x].remains = 2
    BY InNodes DEF LeaveLock, LeaveUnchanged, LastToLeave, Typed, PointersTyped
  <1>2. /\ node \in [Nodes -> NodeSet] /\ x \in Nodes
        /\ node[x] \in NodeSet /\ node[x].next \in Known
    BY <1>1, InNodes DEF Typed, NodesTyped
  <1>0. k \in Nat
    BY <1>1
  <1> HIDE DEF k
  <1>3. /\ r \in NodeSet /\ r.writing = TRUE /\ r.remains = k
        /\ r.next = node[x].next /\ r.removed = node[x].removed
        /\ r.readers = node[x].readers /\ r.freed = node[x].freed
    BY <1>0, <1>2 DEF NodeSet
  <1>4. node' = [node EXCEPT ![x] = r]
    <2>1. node' = [node EXCEPT ![x].writing = TRUE, ![x].remains = @ - 1]
      BY DEF LeaveLock
    <2>2. QED
      BY <1>2, <2>1, TwoFields, Zenon DEF k
  <1> HIDE DEF r
  <1>5. /\ NodesTyped' /\ node'[x] = r
        /\ \A n \in Nodes : n # x => node'[n] = node[n]
    BY <1>1, <1>2, <1>3, <1>4, OneNode
  <1>6. QED
    BY <1>1, <1>2, <1>3, <1>5 DEF SameNext, SameRemoved, SameReaders, SameFreed, k

(* UnlockForClear unlocks it.                                              *)
LEMMA ClearEndNode ==
  ASSUME Typed, Control, NEW c \in Consumers, ClearEnd(c)
  PROVE  /\ NodesTyped' /\ at[c] \in Existing
         /\ \A n \in Nodes : node'[n].writing <=> n # at[c] /\ node[n].writing
         /\ SameNext /\ SameRemoved /\ SameReaders /\ SameRemains /\ SameFreed
  <1> DEFINE x == at[c]
             r == [node[x] EXCEPT !.writing = FALSE]
  <1>1. /\ pc[c] = "unlock" /\ kind' = kind
        /\ node' = [node EXCEPT ![x].writing = FALSE]
    BY DEF ClearEnd, LeaveUnchanged
  <1>2. x \in Existing
    BY <1>1, InNodes DEF Control, ControlOf, LockPCs, Typed, PointersTyped
  <1>3. /\ node \in [Nodes -> NodeSet] /\ x \in Nodes
        /\ node[x] \in NodeSet /\ node[x].next \in Known
    BY <1>2, InNodes DEF Typed, NodesTyped
  <1>4. /\ r \in NodeSet /\ r.writing = FALSE /\ r.remains = node[x].remains
        /\ r.next = node[x].next /\ r.removed = node[x].removed
        /\ r.readers = node[x].readers /\ r.freed = node[x].freed
    BY <1>3 DEF NodeSet
  <1>5. node' = [node EXCEPT ![x] = r]
    BY <1>1, <1>3 DEF NodeSet
  <1> HIDE DEF r
  <1>6. /\ NodesTyped' /\ node'[x] = r
        /\ \A n \in Nodes : n # x => node'[n] = node[n]
    BY <1>1, <1>2, <1>3, <1>4, <1>5, OneNode
  <1>7. QED
    BY <1>2, <1>4, <1>6 DEF SameNext, SameRemoved, SameReaders, SameRemains, SameFreed

(* Leave frees a node, ...                                                 *)
LEMMA LeaveDeleteNode ==
  ASSUME Typed, Control, NEW c \in Consumers, LeaveDelete(c)
  PROVE  /\ NodesTyped' /\ at[c] \in Existing
         /\ \A n \in Nodes : node'[n].freed <=> n = at[c] \/ node[n].freed
         /\ SameNext /\ SameRemoved /\ SameRemains /\ SameWriting /\ SameReaders
  <1> DEFINE x == at[c]
             r == [node[x] EXCEPT !.freed = TRUE]
  <1>1. /\ pc[c] = "delete" /\ kind' = kind
        /\ node' = [node EXCEPT ![x].freed = TRUE]
    BY DEF LeaveDelete, LeaveUnchanged
  <1>2. x \in Existing
    BY <1>1, InNodes DEF Control, ControlOf, LockPCs, Typed, PointersTyped
  <1>3. node \in [Nodes -> NodeSet] /\ x \in Nodes /\ node[x] \in NodeSet /\ node[x].next \in Known
    BY <1>2, InNodes, FieldTypes DEF Typed, NodesTyped
  <1>4. /\ r \in NodeSet /\ r.freed = TRUE /\ r.next = node[x].next
        /\ r.removed = node[x].removed /\ r.remains = node[x].remains
        /\ r.writing = node[x].writing /\ r.readers = node[x].readers
    BY <1>3 DEF NodeSet
  <1>5. node' = [node EXCEPT ![x] = r]
    BY <1>1, <1>3 DEF NodeSet
  <1> HIDE DEF r
  <1>6. /\ NodesTyped' /\ node'[x] = r
        /\ \A n \in Nodes : n # x => node'[n] = node[n]
    BY <1>1, <1>2, <1>3, <1>4, <1>5, OneNode
  <1>7. QED
    BY <1>2, <1>4, <1>6 DEF SameNext, SameRemoved, SameReaders, SameRemains, SameWriting

(* ... and so does Clear, which takes its link first.                      *)
LEMMA ClearFreeNode ==
  ASSUME Typed, Control, NEW c \in Consumers, ClearFree(c)
  PROVE  /\ NodesTyped' /\ nx[c] \in Existing
         /\ \A n \in Nodes : node'[n].freed <=> n = nx[c] \/ node[n].freed
         /\ \A n \in Nodes : node'[n].next = IF n = nx[c] THEN Nil ELSE node[n].next
         /\ SameRemoved /\ SameRemains /\ SameWriting /\ SameReaders
  <1> DEFINE x == nx[c]
             r == [node[x] EXCEPT !.next = Nil, !.freed = TRUE]
  <1>1. /\ pc[c] = "free" /\ kind' = kind
        /\ node' = [node EXCEPT ![x].next = Nil, ![x].freed = TRUE]
    BY DEF ClearFree, LeaveUnchanged
  <1>2. x \in Existing /\ Nil \in Known /\ Nil \in Refs
    BY <1>1, InNodes DEF Control, ControlOf, Typed, PointersTyped, Known, Refs
  <1>3. node \in [Nodes -> NodeSet] /\ x \in Nodes /\ node[x] \in NodeSet
    BY <1>2, InNodes, FieldTypes DEF Typed, NodesTyped
  <1>4. /\ r \in NodeSet /\ r.freed = TRUE /\ r.next = Nil
        /\ r.removed = node[x].removed /\ r.remains = node[x].remains
        /\ r.writing = node[x].writing /\ r.readers = node[x].readers
    BY <1>2, <1>3 DEF NodeSet
  <1>5. node' = [node EXCEPT ![x] = r]
    BY <1>1, <1>3, TwoFields
  <1> HIDE DEF r
  <1>6. /\ NodesTyped' /\ node'[x] = r
        /\ \A n \in Nodes : n # x => node'[n] = node[n]
    BY <1>1, <1>2, <1>3, <1>4, <1>5, OneNode
  <1>7. QED
    BY <1>2, <1>4, <1>6 DEF SameRemoved, SameReaders, SameRemains, SameWriting

(* Refer counts one reference, ...                                         *)
LEMMA ReferNode ==
  ASSUME Typed, kind' = kind, NEW x \in Existing, node' = Refer(node, x)
  PROVE  /\ NodesTyped'
         /\ \A n \in Nodes : node'[n].remains =
                               IF n = x THEN node[n].remains + 1 ELSE node[n].remains
         /\ SameNext /\ SameRemoved /\ SameWriting /\ SameReaders /\ SameFreed
  <1> DEFINE v == node[x].remains + 1
  <1>1. v \in Nat
    BY InNodes, FieldTypes DEF Typed
  <1>2. node' = [node EXCEPT ![x].remains = v]
    BY DEF Refer
  <1>3. v = node[x].remains + 1
    OBVIOUS
  <1> HIDE DEF v
  <1>4. /\ NodesTyped'
        /\ \A n \in Nodes : node'[n].remains = IF n = x THEN v ELSE node[n].remains
        /\ SameNext /\ SameRemoved /\ SameWriting /\ SameReaders /\ SameFreed
    BY <1>1, <1>2, SetRemains
  <1>5. QED
    BY <1>3, <1>4

(* ... and Defer gives one back, where there is one.                       *)
LEMMA DeferNode ==
  ASSUME Typed, kind' = kind, NEW x \in Existing, node[x].remains > 0,
         node' = Defer(node, x)
  PROVE  /\ NodesTyped'
         /\ \A n \in Nodes : node'[n].remains =
                               IF n = x THEN node[n].remains - 1 ELSE node[n].remains
         /\ SameNext /\ SameRemoved /\ SameWriting /\ SameReaders /\ SameFreed
  <1> DEFINE v == node[x].remains - 1
  <1>1. v \in Nat
    BY InNodes, FieldTypes DEF Typed
  <1>2. node' = [node EXCEPT ![x].remains = v]
    BY DEF Defer
  <1>3. v = node[x].remains - 1
    OBVIOUS
  <1> HIDE DEF v
  <1>4. /\ NodesTyped'
        /\ \A n \in Nodes : node'[n].remains = IF n = x THEN v ELSE node[n].remains
        /\ SameNext /\ SameRemoved /\ SameWriting /\ SameReaders /\ SameFreed
    BY <1>1, <1>2, SetRemains
  <1>5. QED
    BY <1>3, <1>4

(* SetReading counts one reader, ...                                       *)
LEMMA LookupSetReadingNode ==
  ASSUME Typed, Control, NEW c \in Consumers, LookupSetReading(c)
  PROVE  /\ NodesTyped' /\ Ptr(c) \in Existing
         /\ \A n \in Nodes : node'[n].readers =
                               IF n = Ptr(c) THEN node[n].readers + 1 ELSE node[n].readers
         /\ SameNext /\ SameRemoved /\ SameWriting /\ SameRemains /\ SameFreed
  <1> DEFINE x == Ptr(c)
             v == node[x].readers + 1
  <1>1. pc[c] = "loop" /\ kind' = kind /\ node' = [node EXCEPT ![x].readers = v]
    BY DEF LookupSetReading, LookupUnchanged
  <1>2. x \in Existing
    BY <1>1, Standing
  <1> HIDE DEF x
  <1>3. v \in Nat
    BY <1>2, InNodes, FieldTypes DEF Typed
  <1>5. v = node[x].readers + 1
    OBVIOUS
  <1> HIDE DEF v
  <1>6. /\ NodesTyped'
        /\ \A n \in Nodes : node'[n].readers = IF n = x THEN v ELSE node[n].readers
        /\ SameNext /\ SameRemoved /\ SameWriting /\ SameRemains /\ SameFreed
    BY <1>1, <1>2, <1>3, SetReaders
  <1>7. QED
    BY <1>2, <1>5, <1>6 DEF x

(* ... and UnsetReading one less, where there is one.                      *)
LEMMA LookupUnsetReadingNode ==
  ASSUME Typed, Control, NEW c \in Consumers, LookupUnsetReading(c),
         node[Ptr(c)].readers > 0
  PROVE  /\ NodesTyped' /\ Ptr(c) \in Existing
         /\ \A n \in Nodes : node'[n].readers =
                               IF n = Ptr(c) THEN node[n].readers - 1 ELSE node[n].readers
         /\ SameNext /\ SameRemoved /\ SameWriting /\ SameRemains /\ SameFreed
  <1> DEFINE x == Ptr(c)
             v == node[x].readers - 1
  <1>1. /\ pc[c] \in ReadPCs /\ kind' = kind
        /\ node' = [node EXCEPT ![x].readers = IF @ > 0 THEN @ - 1 ELSE @]
    BY DEF LookupUnsetReading, LookupUnchanged, ReadPCs
  <1>2. x \in Existing
    BY <1>1, Standing
  <1> HIDE DEF x
  <1>3. v \in Nat /\ v = IF node[x].readers > 0 THEN node[x].readers - 1 ELSE node[x].readers
    BY <1>2, InNodes, FieldTypes DEF Typed, x
  <1>5. v = node[x].readers - 1
    OBVIOUS
  <1> HIDE DEF v
  <1>4. node' = [node EXCEPT ![x].readers = v]
    BY <1>1, <1>3, Zenon
  <1>6. /\ NodesTyped'
        /\ \A n \in Nodes : node'[n].readers = IF n = x THEN v ELSE node[n].readers
        /\ SameNext /\ SameRemoved /\ SameWriting /\ SameRemains /\ SameFreed
    BY <1>1, <1>2, <1>3, <1>4, SetReaders
  <1>7. QED
    BY <1>2, <1>5, <1>6 DEF x

(* Turning the link back counts a reference to the node it leads to.       *)
LEMMA ClearTurnNode ==
  ASSUME Typed, Control, NEW c \in Consumers, ClearTurn(c)
  PROVE  /\ NodesTyped' /\ at[c] \in Existing /\ seek[c] \in Existing
         /\ \A n \in Nodes : node'[n].next = IF n = seek[c] THEN at[c] ELSE node[n].next
         /\ \A n \in Nodes : node'[n].remains =
                               IF n = at[c] THEN node[n].remains + 1 ELSE node[n].remains
         /\ SameRemoved /\ SameWriting /\ SameReaders /\ SameFreed
  <1> DEFINE x == seek[c]
             y == at[c]
             f == [node EXCEPT ![x].next = y]
             v == f[y].remains + 1
             g == [f EXCEPT ![y].remains = v]
  <1>1. pc[c] = "turn" /\ kind' = kind /\ node' = g
    BY DEF ClearTurn, LeaveUnchanged, Refer
  <1>2. x \in Existing /\ y \in Existing /\ y \in Known
    BY <1>1, Standing DEF Known, LockPCs, CutPCs
  <1>3. /\ node \in [Nodes -> NodeSet] /\ x \in Nodes /\ y \in Nodes /\ y \in Refs
        /\ \A n \in Existing : node[n].next \in Known
        /\ \A n \in Nodes \ Existing : node[n] = NewNode
    BY <1>2, InNodes DEF Typed, NodesTyped
  <1>4. /\ f \in [Nodes -> NodeSet]
        /\ \A n \in Nodes : n # x => f[n] = node[n]
        /\ f[x].next = y
        /\ f[x].removed = node[x].removed /\ f[x].remains = node[x].remains
        /\ f[x].writing = node[x].writing /\ f[x].readers = node[x].readers
        /\ f[x].freed = node[x].freed
    BY <1>3 DEF NodeSet
  <1> HIDE DEF f
  <1>5. f[y] \in NodeSet /\ f[y].remains \in Nat
    BY <1>3, <1>4 DEF NodeSet
  <1>6. v \in Nat
    BY <1>5
  <1>7. v = f[y].remains + 1
    OBVIOUS
  <1> HIDE DEF v
  <1>8. /\ g \in [Nodes -> NodeSet]
        /\ \A n \in Nodes : n # y => g[n] = f[n]
        /\ g[y].remains = v
        /\ g[y].removed = f[y].removed /\ g[y].next = f[y].next
        /\ g[y].writing = f[y].writing /\ g[y].readers = f[y].readers
        /\ g[y].freed = f[y].freed
    BY <1>3, <1>4, <1>6 DEF NodeSet
  <1> HIDE DEF g
  <1>9. \A n \in Nodes : node'[n].next = IF n = x THEN y ELSE node[n].next
    BY <1>1, <1>3, <1>4, <1>8
  <1>10. \A n \in Nodes : node'[n].remains = IF n = y THEN node[n].remains + 1 ELSE node[n].remains
    BY <1>1, <1>3, <1>4, <1>7, <1>8
  <1>11. SameRemoved /\ SameWriting /\ SameReaders /\ SameFreed
    BY <1>1, <1>3, <1>4, <1>8 DEF SameRemoved, SameWriting, SameReaders, SameFreed
  <1>12. NodesTyped'
    <2>1. Existing' = Existing /\ Known' = Known
      BY <1>1 DEF Existing, Known
    <2>2. \A n \in Existing : node'[n].next \in Known
      BY <1>2, <1>3, <1>9, InNodes
    <2>3. \A n \in Nodes \ Existing : node'[n] = NewNode
      BY <1>1, <1>2, <1>3, <1>4, <1>8
    <2>4. QED
      BY <1>1, <1>8, <2>1, <2>2, <2>3 DEF NodesTyped
  <1>13. QED
    BY <1>2, <1>9, <1>10, <1>11, <1>12

-----------------------------------------------------------------------------
(* Counting.                                                               *)

(* 1 if a is n.                                                            *)
One(a, n) == IF a = n THEN 1 ELSE 0

(* A count over a finite domain is a number, ...                           *)
LEMMA CountNat ==
  ASSUME NEW f, IsFiniteSet(DOMAIN f), NEW n
  PROVE  Count(f, n) \in Nat
  <1>1. {x \in DOMAIN f : f[x] = n} \in SUBSET DOMAIN f
    OBVIOUS
  <1>2. QED
    BY <1>1, FS_Subset, FS_CardinalityType DEF Count

(* ... positive where some entry leads to n, ...                           *)
LEMMA CountPositive ==
  ASSUME NEW f, IsFiniteSet(DOMAIN f), NEW n
  PROVE  Count(f, n) > 0 <=> \E x \in DOMAIN f : f[x] = n
  <1> DEFINE S == {x \in DOMAIN f : f[x] = n}
  <1>1. S \in SUBSET DOMAIN f
    OBVIOUS
  <1>2. IsFiniteSet(S) /\ Cardinality(S) \in Nat
    BY <1>1, FS_Subset, FS_CardinalityType
  <1>3. Cardinality(S) = 0 <=> S = {}
    BY <1>2, FS_EmptySet
  <1>4. QED
    BY <1>2, <1>3 DEF Count

(* ... and changes with the one entry that changes.                        *)
LEMMA CountMove ==
  ASSUME NEW D, IsFiniteSet(D), NEW f, DOMAIN f = D, NEW g, DOMAIN g = D,
         NEW x \in D, \A y \in D : y # x => g[y] = f[y], NEW n
  PROVE  Count(g, n) + One(f[x], n) = Count(f, n) + One(g[x], n)
  <1> DEFINE F == {y \in D : f[y] = n}
             G == {y \in D : g[y] = n}
             R == {y \in D : y # x /\ f[y] = n}
  <1>1. R \in SUBSET D /\ x \notin R
    OBVIOUS
  <1>2. IsFiniteSet(R) /\ Cardinality(R) \in Nat
    BY <1>1, FS_Subset, FS_CardinalityType
  <1>3. Cardinality(R \cup {x}) = Cardinality(R) + 1
    BY <1>1, <1>2, FS_AddElement
  <1>4. F = (IF f[x] = n THEN R \cup {x} ELSE R)
    OBVIOUS
  <1>5. G = (IF g[x] = n THEN R \cup {x} ELSE R)
    OBVIOUS
  <1>6. Count(f, n) = Cardinality(F) /\ Count(g, n) = Cardinality(G)
    BY DEF Count
  <1> HIDE DEF F, G, R
  <1>7. Cardinality(F) = Cardinality(R) + One(f[x], n)
    BY <1>2, <1>3, <1>4 DEF One
  <1>8. Cardinality(G) = Cardinality(R) + One(g[x], n)
    BY <1>2, <1>3, <1>5 DEF One
  <1>9. QED
    BY <1>2, <1>6, <1>7, <1>8 DEF One

(* No entry leads to n.                                                    *)
LEMMA CountZero ==
  ASSUME NEW f, IsFiniteSet(DOMAIN f), NEW n, \A x \in DOMAIN f : f[x] # n
  PROVE  Count(f, n) = 0
  BY CountNat, CountPositive

(* The references a consumer holds itself, and where it counts as a reader. *)
PtrSlot(c)  == IF back[c] # "out" THEN Nil ELSE Ptr(c)
NextSlot(c) == IF back[c] = "reset" \/ pc[c] = "enter" THEN Nil ELSE Nxt(c)
AtSlot(c)   == IF pc[c] = "leave" THEN at[c] ELSE Nil
NxSlot(c)   == IF pc[c] \in CutPCs \cup {"defer"} THEN nx[c] ELSE Nil
ReadSlot(c) == IF pc[c] \in ReadPCs THEN Ptr(c) ELSE Nil

Own(c, n) == One(PtrSlot(c), n) + One(NextSlot(c), n)
               + One(AtSlot(c), n) + One(NxSlot(c), n)

(* The domains of what holds references are finite.                        *)
LEMMA Finite ==
  /\ IsFiniteSet(DOMAIN Links) /\ IsFiniteSet(DOMAIN News)
  /\ IsFiniteSet(DOMAIN Ptrs) /\ IsFiniteSet(DOMAIN Nexts)
  /\ IsFiniteSet(DOMAIN Ats) /\ IsFiniteSet(DOMAIN Nxs)
  /\ IsFiniteSet(DOMAIN Reads)
  <1>1. IsFiniteSet(Nodes)
    BY RCQueueAssumption, FS_Interval DEF Nodes
  <1>2. QED
    BY <1>1, RCQueueAssumption DEF Links, News, Ptrs, Nexts, Ats, Nxs, Reads

(* So every count is a number.                                             *)
LEMMA Counts ==
  ASSUME NEW n
  PROVE  /\ Count(Links, n) \in Nat /\ Count(News, n) \in Nat
         /\ Count(Ptrs, n) \in Nat /\ Count(Nexts, n) \in Nat
         /\ Count(Ats, n) \in Nat /\ Count(Nxs, n) \in Nat
         /\ Count(Reads, n) \in Nat
  BY Finite, CountNat

(* With an iterator of its own, what a consumer holds are its entries, ... *)
LEMMA OwnSlots ==
  ASSUME OneEach, NEW c \in Consumers
  PROVE  /\ Ptrs[Uses[c]] = PtrSlot(c) /\ Nexts[Uses[c]] = NextSlot(c)
         /\ Ats[c] = AtSlot(c) /\ Nxs[c] = NxSlot(c) /\ Reads[c] = ReadSlot(c)
  <1>1. Uses[c] \in Iterators
    BY RCQueueAssumption
  <1>2. Ptrs[Uses[c]] = PtrSlot(c)
    BY <1>1 DEF Ptrs, PtrSlot, Ptr, OneEach
  <1>3. Nexts[Uses[c]] = NextSlot(c)
    BY <1>1 DEF Nexts, NextSlot, Nxt, OneEach
  <1>4. QED
    BY <1>2, <1>3 DEF Ats, AtSlot, Nxs, NxSlot, Reads, ReadSlot

(* ... and its steps leave the entries of the others alone.                *)
LEMMA OtherSlots ==
  ASSUME OneEach, NEW c \in Consumers, SameOthers(c)
  PROVE  /\ News' = News
         /\ \A i \in Iterators : i # Uses[c] => Ptrs'[i] = Ptrs[i] /\ Nexts'[i] = Nexts[i]
         /\ \A d \in Consumers : d # c => /\ Ats'[d] = Ats[d] /\ Nxs'[d] = Nxs[d]
                                         /\ Reads'[d] = Reads[d]
  <1>1. News' = News
    BY DEF News, SameOthers
  <1>2. ASSUME NEW i \in Iterators, i # Uses[c]
        PROVE  Ptrs'[i] = Ptrs[i] /\ Nexts'[i] = Nexts[i]
    BY <1>2 DEF Ptrs, Nexts, SameOthers
  <1>3. ASSUME NEW d \in Consumers, d # c
        PROVE  Ats'[d] = Ats[d] /\ Nxs'[d] = Nxs[d] /\ Reads'[d] = Reads[d]
    <2>1. Uses[d] \in Iterators /\ Uses[d] # Uses[c]
      BY <1>3, RCQueueAssumption DEF OneEach
    <2>2. it'[Uses[d]] = it[Uses[d]]
      BY <2>1 DEF SameOthers
    <2>3. QED
      BY <1>3, <2>2 DEF Ats, Nxs, Reads, Ptr, SameOthers
  <1>4. QED
    BY <1>1, <1>2, <1>3

(* Four sums that change each by one entry, added up.                      *)
LEMMA Sums ==
  ASSUME NEW l \in Nat, NEW ll \in Nat, NEW w \in Nat, NEW h \in Nat,
         NEW p \in Nat, NEW pp \in Nat, NEW p1 \in Nat, NEW p2 \in Nat,
         NEW q \in Nat, NEW qq \in Nat, NEW q1 \in Nat, NEW q2 \in Nat,
         NEW a \in Nat, NEW aa \in Nat, NEW a1 \in Nat, NEW a2 \in Nat,
         NEW x \in Nat, NEW xx \in Nat, NEW x1 \in Nat, NEW x2 \in Nat,
         pp + p1 = p + p2, qq + q1 = q + q2, aa + a1 = a + a2, xx + x1 = x + x2
  PROVE  (ll + w + pp + qq + aa + xx + h) + (p1 + q1 + a1 + x1) + l
           = (l + w + p + q + a + x + h) + (p2 + q2 + a2 + x2) + ll
  OBVIOUS

(* A step of c changes the references to n by what c itself holds and by   *)
(* the links.                                                              *)
LEMMA Balance ==
  ASSUME OneEach, NEW c \in Consumers, SameOthers(c), NEW n
  PROVE  /\ References(n)' + Own(c, n) + Count(Links, n)
               = References(n) + Own(c, n)' + Count(Links, n)'
         /\ Count(Reads, n)' + One(ReadSlot(c), n) = Count(Reads, n) + One(ReadSlot(c)', n)
  <1>1. Uses[c] \in Iterators
    BY RCQueueAssumption
  <1>2. /\ Ptrs[Uses[c]] = PtrSlot(c) /\ Nexts[Uses[c]] = NextSlot(c)
        /\ Ats[c] = AtSlot(c) /\ Nxs[c] = NxSlot(c) /\ Reads[c] = ReadSlot(c)
    BY OwnSlots
  <1>3. /\ Ptrs'[Uses[c]] = PtrSlot(c)' /\ Nexts'[Uses[c]] = NextSlot(c)'
        /\ Ats'[c] = AtSlot(c)' /\ Nxs'[c] = NxSlot(c)' /\ Reads'[c] = ReadSlot(c)'
    <2>1. Ptrs'[Uses[c]] = PtrSlot(c)'
      BY <1>1 DEF Ptrs, PtrSlot, Ptr, OneEach
    <2>2. Nexts'[Uses[c]] = NextSlot(c)'
      BY <1>1 DEF Nexts, NextSlot, Nxt, OneEach
    <2>3. QED
      BY <2>1, <2>2 DEF Ats, AtSlot, Nxs, NxSlot, Reads, ReadSlot
  <1>4. /\ DOMAIN Ptrs = Iterators /\ DOMAIN Ptrs' = Iterators
        /\ DOMAIN Nexts = Iterators /\ DOMAIN Nexts' = Iterators
        /\ DOMAIN Ats = Consumers /\ DOMAIN Ats' = Consumers
        /\ DOMAIN Nxs = Consumers /\ DOMAIN Nxs' = Consumers
        /\ DOMAIN Reads = Consumers /\ DOMAIN Reads' = Consumers
    BY DEF Ptrs, Nexts, Ats, Nxs, Reads
  <1>5. Count(Ptrs', n) + One(PtrSlot(c), n) = Count(Ptrs, n) + One(PtrSlot(c)', n)
    BY <1>1, <1>2, <1>3, <1>4, Finite, OtherSlots, CountMove
  <1>6. Count(Nexts', n) + One(NextSlot(c), n) = Count(Nexts, n) + One(NextSlot(c)', n)
    BY <1>1, <1>2, <1>3, <1>4, Finite, OtherSlots, CountMove
  <1>7. Count(Ats', n) + One(AtSlot(c), n) = Count(Ats, n) + One(AtSlot(c)', n)
    BY <1>2, <1>3, <1>4, Finite, OtherSlots, CountMove
  <1>8. Count(Nxs', n) + One(NxSlot(c), n) = Count(Nxs, n) + One(NxSlot(c)', n)
    BY <1>2, <1>3, <1>4, Finite, OtherSlots, CountMove
  <1>9. Count(Reads', n) + One(ReadSlot(c), n) = Count(Reads, n) + One(ReadSlot(c)', n)
    BY <1>2, <1>3, <1>4, Finite, OtherSlots, CountMove
  <1>10. Count(News', n) = Count(News, n)
    BY OtherSlots
  <1>11. /\ Count(Ptrs', n) \in Nat /\ Count(Nexts', n) \in Nat
         /\ Count(Ats', n) \in Nat /\ Count(Nxs', n) \in Nat
         /\ Count(Links', n) \in Nat
    <2>1. DOMAIN Links' = DOMAIN Links
      BY DEF Links
    <2>2. QED
      BY <2>1, <1>4, Finite, CountNat
  <1>12. \A a : One(a, n) \in Nat
    BY DEF One
  <1>13. References(n)' = Count(Links', n) + Count(News', n) + Count(Ptrs', n) + Count(Nexts', n)
                           + Count(Ats', n) + Count(Nxs', n) + (IF n = Header THEN 1 ELSE 0)
    BY DEF References
  <1>14. Own(c, n)' = One(PtrSlot(c)', n) + One(NextSlot(c)', n)
                       + One(AtSlot(c)', n) + One(NxSlot(c)', n)
    BY DEF Own
  <1>15. (IF n = Header THEN 1 ELSE 0) \in Nat
    OBVIOUS
  <1>16. References(n)' + Own(c, n) + Count(Links, n)
           = References(n) + Own(c, n)' + Count(Links', n)
    BY <1>5, <1>6, <1>7, <1>8, <1>10, <1>11, <1>12, <1>13, <1>14, <1>15, Counts, Sums
    DEF References, Own
  <1>17. QED
    BY <1>9, <1>16

-----------------------------------------------------------------------------
(* What is held.                                                           *)

(* A node that is referred to has remains: the header, where a link or a   *)
(* producer leads, or what a consumer holds.                               *)
LEMMA Held ==
  ASSUME Typed, Exact, NEW n \in Existing,
         \/ n = Header
         \/ \E m \in Nodes : Link(m) = n
         \/ \E p \in Producers : pc[p] = "link" /\ mine[p] = n
         \/ OneEach /\ \E c \in Consumers : Own(c, n) > 0
  PROVE  node[n].remains > 0
  <1>1. node[n].remains = References(n)
    BY DEF Exact
  <1>2. CASE n = Header
    BY <1>1, <1>2, Counts DEF References
  <1>3. CASE \E m \in Nodes : Link(m) = n
    <2>1. DOMAIN Links = Nodes /\ \E m \in Nodes : Links[m] = n
      BY <1>3 DEF Links
    <2>2. Count(Links, n) > 0
      BY <2>1, Finite, CountPositive
    <2>3. QED
      BY <1>1, <2>2, Counts DEF References
  <1>4. CASE \E p \in Producers : pc[p] = "link" /\ mine[p] = n
    <2>1. DOMAIN News = Producers /\ \E p \in Producers : News[p] = n
      BY <1>4 DEF News
    <2>2. Count(News, n) > 0
      BY <2>1, Finite, CountPositive
    <2>3. QED
      BY <1>1, <2>2, Counts DEF References
  <1>5. CASE OneEach /\ \E c \in Consumers : Own(c, n) > 0
    <2>1. PICK c \in Consumers : Own(c, n) > 0
      BY <1>5
    <2>2. Uses[c] \in Iterators
      BY RCQueueAssumption
    <2>3. /\ DOMAIN Ptrs = Iterators /\ DOMAIN Nexts = Iterators
          /\ DOMAIN Ats = Consumers /\ DOMAIN Nxs = Consumers
      BY DEF Ptrs, Nexts, Ats, Nxs
    <2>4. \/ Ptrs[Uses[c]] = n \/ Nexts[Uses[c]] = n \/ Ats[c] = n \/ Nxs[c] = n
      BY <1>5, <2>1, OwnSlots DEF Own, One
    <2>5. \/ Count(Ptrs, n) > 0 \/ Count(Nexts, n) > 0 \/ Count(Ats, n) > 0 \/ Count(Nxs, n) > 0
      BY <2>2, <2>3, <2>4, Finite, CountPositive
    <2>6. QED
      BY <1>1, <2>5, Counts DEF References
  <1>6. QED
    BY <1>2, <1>3, <1>4, <1>5

(* The same for the entries of a consumer.                                 *)
LEMMA OwnHeld ==
  ASSUME Typed, Exact, OneEach, NEW c \in Consumers, NEW n \in Existing,
         n \in {PtrSlot(c), NextSlot(c), AtSlot(c), NxSlot(c)}
  PROVE  node[n].remains > 0
  <1>1. Own(c, n) > 0
    BY DEF Own, One
  <1>2. QED
    BY <1>1, Held

(* A node with readers is held, by the iterator that stands on it.         *)
LEMMA ReaderHeld ==
  ASSUME Typed, Control, Exact, ReadersExact, OneEach,
         NEW n \in Existing, node[n].readers > 0
  PROVE  node[n].remains > 0
  <1>1. Count(Reads, n) > 0
    BY InNodes DEF ReadersExact
  <1>2. PICK c \in DOMAIN Reads : Reads[c] = n
    BY <1>1, Finite, CountPositive
  <1>3. c \in Consumers /\ pc[c] \in ReadPCs /\ Ptr(c) = n
    BY <1>2, InNodes DEF Reads
  <1>4. back[c] = "out"
    BY <1>3 DEF Control, ControlOf, ReadPCs, LeavePCs, LockPCs
  <1>5. QED
    BY <1>3, <1>4, OwnHeld DEF PtrSlot

(* A link stays if its node does and nobody begins or ends to hide it.     *)
LEMMA LinkStays ==
  ASSUME NEW c \in Consumers, SameOthers(c), NEW m \in Nodes,
         node'[m].next = node[m].next, node'[m].freed <=> node[m].freed,
         Hides(c, m)' <=> Hides(c, m)
  PROVE  Link(m)' = Link(m)
  <1>1. \A d \in Consumers : Hides(d, m)' <=> Hides(d, m)
    BY DEF SameOthers, Hides
  <1>2. QED
    BY <1>1 DEF Link

(* Links lead to nodes that exist.                                         *)
LEMMA LinkIn ==
  ASSUME Typed
  PROVE  /\ \A m \in Existing : Link(m) \in Known
         /\ \A m \in Nodes \ Existing : Link(m) = Nil
  BY DEF Typed, NodesTyped, Link, NewNode, Known

(* The line and the locked nodes.                                          *)

(* A locked node is in the queue, not removed, not freed, without readers, *)
(* and in no chain.                                                        *)
LEMMA Locked ==
  ASSUME Typed, Control, Locks, NEW Q, NEW K, Line(Q, K),
         NEW c \in Consumers, pc[c] \in LockPCs
  PROVE  /\ at[c] \in Q /\ at[c] \in Existing
         /\ node[at[c]].writing /\ ~node[at[c]].removed /\ ~node[at[c]].freed
         /\ node[at[c]].readers = 0
         /\ \A d \in Consumers : at[c] \notin K[d]
         /\ pc[c] # "cutnext" \/ node[at[c]].next # nx[c]
              => Link(at[c]) = node[at[c]].next
  <1>1. at[c] \in Existing /\ node[at[c]].writing
    BY Standing DEF Locks
  <1>2. ~node[at[c]].removed /\ node[at[c]].readers = 0
    BY <1>1 DEF Locks
  <1>3. at[c] \in Q
    BY <1>1, <1>2 DEF Line, InLine
  <1>4. ~node[at[c]].freed
    BY <1>3 DEF Line, InLine
  <1>5. \A d \in Consumers : at[c] \notin K[d]
    BY <1>2 DEF Line, Chain
  <1>6. \A d \in Consumers : pc[d] = "turn" => seek[d] # at[c]
    BY <1>5 DEF Line, Chain, CutPCs
  <1>7. \A d \in Consumers : pc[d] = "cutnext" /\ at[d] = at[c] => c = d
    BY DEF Locks, LockPCs
  <1>8. pc[c] # "cutnext" \/ node[at[c]].next # nx[c] => Link(at[c]) = node[at[c]].next
    BY <1>4, <1>6, <1>7 DEF Link, Hides
  <1>9. QED
    BY <1>1, <1>2, <1>3, <1>4, <1>5, <1>8

(* Where the link of a node that is not freed leads is held.               *)
LEMMA HeldLink ==
  ASSUME Typed, Control, Exact, Locks, OneEach, NEW Q, NEW K, Line(Q, K),
         NEW m \in Existing, ~node[m].freed, node[m].next # Nil
  PROVE  node[m].next \in Existing /\ node[node[m].next].remains > 0
  <1>1. node[m].next \in Existing
    BY InNodes DEF Typed, NodesTyped
  <1>2. CASE Link(m) = node[m].next
    BY <1>1, <1>2, InNodes, Held
  <1>3. CASE \E c \in Consumers : pc[c] = "turn" /\ seek[c] = m
    <2>1. PICK c \in Consumers : pc[c] = "turn" /\ seek[c] = m
      BY <1>3
    <2>2. node[m].next = node[at[c]].next
      BY <2>1 DEF Line, Chain
    <2>3. at[c] \in Existing /\ Link(at[c]) = node[at[c]].next
      BY <2>1, Locked DEF LockPCs
    <2>4. QED
      BY <1>1, <2>2, <2>3, InNodes, Held
  <1>4. CASE \E c \in Consumers : pc[c] = "cutnext" /\ at[c] = m /\ node[m].next = nx[c]
    <2>1. PICK c \in Consumers : pc[c] = "cutnext" /\ node[m].next = nx[c]
      BY <1>4
    <2>2. NxSlot(c) = node[m].next
      BY <2>1 DEF NxSlot, CutPCs
    <2>3. QED
      BY <1>1, <2>2, OwnHeld
  <1>5. QED
    BY <1>2, <1>3, <1>4 DEF Link, Hides

-----------------------------------------------------------------------------
(* What a step has to keep for each part of the invariant.                 *)

(* Two sums with the same addends have the same first one.                 *)
LEMMA Cancel ==
  ASSUME NEW a \in Nat, NEW b \in Nat, NEW r \in Nat, NEW o \in Nat, NEW oo \in Nat,
         NEW l \in Nat, NEW ll \in Nat, b + o + l = a + oo + ll, r + o + l = a + oo + ll
  PROVE  b = r
  OBVIOUS

(* The remains stay exact if every node is counted as its references       *)
(* change, ...                                                             *)
LEMMA ExactFrame ==
  ASSUME Exact, OneEach, NEW c \in Consumers, SameOthers(c), NodesTyped, NodesTyped',
         \A n \in Existing : n \in Nodes /\
            node'[n].remains + Own(c, n) + Count(Links, n)
              = node[n].remains + Own(c, n)' + Count(Links', n)
  PROVE  Exact'
  <1> SUFFICES ASSUME NEW n \in Existing
               PROVE  node'[n].remains = References(n)'
    BY DEF Exact, Existing, SameOthers
  <1>1. node[n].remains = References(n)
    BY DEF Exact
  <1>2. node[n].remains \in Nat /\ node'[n].remains \in Nat
    BY DEF NodesTyped, NodeSet
  <1>3. Own(c, n) \in Nat /\ Own(c, n)' \in Nat
    BY DEF Own, One
  <1>4. Count(Links', n) \in Nat /\ Count(Links, n) \in Nat
    <2>1. DOMAIN Links' = DOMAIN Links
      BY DEF Links
    <2>2. QED
      BY <2>1, Finite, CountNat
  <1>5. References(n)' \in Nat
    <2>1. /\ DOMAIN Links' = DOMAIN Links /\ DOMAIN News' = DOMAIN News
          /\ DOMAIN Ptrs' = DOMAIN Ptrs /\ DOMAIN Nexts' = DOMAIN Nexts
          /\ DOMAIN Ats' = DOMAIN Ats /\ DOMAIN Nxs' = DOMAIN Nxs
      BY DEF Links, News, Ptrs, Nexts, Ats, Nxs
    <2>2. /\ Count(Links', n) \in Nat /\ Count(News', n) \in Nat
          /\ Count(Ptrs', n) \in Nat /\ Count(Nexts', n) \in Nat
          /\ Count(Ats', n) \in Nat /\ Count(Nxs', n) \in Nat
      BY <2>1, Finite, CountNat
    <2>3. QED
      BY <2>2 DEF References
  <1>6. References(n)' + Own(c, n) + Count(Links, n)
          = References(n) + Own(c, n)' + Count(Links', n)
    BY Balance
  <1>7. node'[n].remains + Own(c, n) + Count(Links, n)
          = node[n].remains + Own(c, n)' + Count(Links', n)
    OBVIOUS
  <1>8. QED
    BY <1>1, <1>2, <1>3, <1>4, <1>5, <1>6, <1>7, Cancel

(* ... the readers if they change with the reader c, ...                   *)
LEMMA ReadersFrame ==
  ASSUME ReadersExact, OneEach, NEW c \in Consumers, SameOthers(c), NodesTyped, NodesTyped',
         \A n \in Nodes : node'[n].readers + One(ReadSlot(c), n)
                           = node[n].readers + One(ReadSlot(c)', n)
  PROVE  ReadersExact'
  <1> SUFFICES ASSUME NEW n \in Nodes
               PROVE  node'[n].readers = Count(Reads, n)'
    BY DEF ReadersExact
  <1>1. node[n].readers = Count(Reads, n)
    BY DEF ReadersExact
  <1>2. node[n].readers \in Nat /\ node'[n].readers \in Nat
    BY DEF NodesTyped, NodeSet
  <1>3. One(ReadSlot(c), n) \in Nat /\ One(ReadSlot(c)', n) \in Nat
    BY DEF One
  <1>4. Count(Reads', n) \in Nat
    <2>1. DOMAIN Reads' = DOMAIN Reads
      BY DEF Reads
    <2>2. QED
      BY <2>1, Finite, CountNat
  <1>5. Count(Reads, n)' + One(ReadSlot(c), n) = Count(Reads, n) + One(ReadSlot(c)', n)
    BY Balance
  <1>6. QED
    BY <1>1, <1>2, <1>3, <1>4, <1>5

(* ... the locks if no flag changes and c locks nothing, ...               *)
LEMMA LocksFrame ==
  ASSUME Typed, Control, Locks, NEW c \in Consumers, SameOthers(c),
         SameRemoved, SameWriting,
         \A n \in Existing : node[n].writing => node'[n].readers = node[n].readers,
         pc'[c] \in LockPCs => pc[c] \in LockPCs /\ at'[c] = at[c]
  PROVE  Locks'
  <1>0. Existing' = Existing /\ \A n \in Existing : n \in Nodes
    BY InNodes DEF SameOthers, Existing
  <1>1. \A d \in Consumers : pc'[d] \in LockPCs => pc[d] \in LockPCs /\ at'[d] = at[d]
    BY DEF SameOthers
  <1>3. \A d \in Consumers : pc'[d] \in LockPCs => node'[at'[d]].writing
    <2> SUFFICES ASSUME NEW d \in Consumers, pc'[d] \in LockPCs
                 PROVE  node'[at'[d]].writing
      OBVIOUS
    <2>1. node[at[d]].writing /\ at'[d] = at[d]
      BY <1>1 DEF Locks
    <2>2. at[d] \in Nodes
      BY <1>1, InNodes, Standing
    <2>3. QED
      BY <2>1, <2>2 DEF SameWriting
  <1>4. QED
    BY <1>0, <1>1, <1>3 DEF Locks, SameRemoved, SameWriting

(* What a step of c has to keep for the nodes about to be freed.           *)
DoomKept(c) ==
  /\ \A n \in Existing :
       /\ node[n].removed => node'[n].removed
       /\ node[n].remains = 0 => node'[n].remains = 0
       /\ node[n].freed => node'[n].freed
       /\ node'[n].freed => node[n].freed \/ (n = Doomed(c) /\ node[n].removed)
  /\ Doomed(c)' # Nil =>
       /\ Doomed(c)' \in Existing
       /\ node'[Doomed(c)'].remains = 0 /\ ~node'[Doomed(c)'].freed
       /\ Doomed(c)' = Doomed(c) \/ node[Doomed(c)'].remains # 0

(* ... what is about to be freed if it has no references, ...              *)
LEMMA DoomFrame ==
  ASSUME Typed, Doom, NEW c \in Consumers, SameOthers(c), DoomKept(c)
  PROVE  Doom'
  <1>1. Existing' = Existing
    BY DEF SameOthers, Existing
  <1>2. \A d \in Consumers : Doomed(d) \in Existing \cup {Nil}
    BY DEF Typed, PointersTyped, Doomed, Known
  <1>3. \A d \in Consumers : d # c => Doomed(d)' = Doomed(d)
    BY DEF SameOthers, Doomed
  <1> HIDE DEF Doomed
  <1>4. \A n \in Existing : node'[n].freed => node'[n].remains = 0 /\ node'[n].removed
    BY <1>2, InNodes DEF Doom, DoomKept
  <1>5. \A d \in Consumers : Doomed(d)' # Nil =>
          node'[Doomed(d)'].remains = 0 /\ ~node'[Doomed(d)'].freed
    BY <1>2, <1>3 DEF Doom, DoomKept
  <1>6. \A d, e \in Consumers : Doomed(d)' # Nil /\ Doomed(d)' = Doomed(e)' => d = e
    BY <1>2, <1>3 DEF Doom, DoomKept
  <1>7. QED
    BY <1>1, <1>4, <1>5, <1>6 DEF Doom

(* ... the link Enter uses if nobody sets the link of a node with readers, *)
(* ...                                                                     *)
LEMMA EnteringFrame ==
  ASSUME Typed, Control, ReadersExact, Entering, NEW c \in Consumers, SameOthers(c), OneEach,
         \A n \in Existing : node[n].readers > 0 /\ node[n].next # Nil
                                => node'[n].next = node[n].next,
         (pc[c] = "enter" /\ Nxt(c) # Nil => node[Ptr(c)].next = Nxt(c))'
  PROVE  Entering'
  <1> SUFFICES ASSUME NEW d \in Consumers, d # c, pc'[d] = "enter", Nxt(d)' # Nil
               PROVE  (node[Ptr(d)].next = Nxt(d))'
    BY DEF Entering
  <1>1. pc[d] = "enter" /\ it'[Uses[d]] = it[Uses[d]]
    BY RCQueueAssumption DEF SameOthers, OneEach
  <1>2. Ptr(d)' = Ptr(d) /\ Nxt(d)' = Nxt(d)
    BY <1>1 DEF Ptr, Nxt
  <1>3. node[Ptr(d)].next = Nxt(d) /\ Ptr(d) \in Existing
    BY <1>1, <1>2, Standing DEF Entering, ReadPCs
  <1>4. node[Ptr(d)].readers > 0
    <2>1. Reads[d] = Ptr(d) /\ d \in DOMAIN Reads
      BY <1>1 DEF Reads, ReadPCs
    <2>2. Count(Reads, Ptr(d)) > 0
      BY <2>1, Finite, CountPositive
    <2>3. QED
      BY <1>3, <2>2, InNodes DEF ReadersExact
  <1>5. QED
    BY <1>2, <1>3, <1>4

(* ... and the place of c is all that has to be looked at.                 *)
LEMMA ControlFrame ==
  ASSUME Control, NEW c \in Consumers, SameOthers(c), OneEach, ControlOf(c)'
  PROVE  Control'
  <1>1. ASSUME NEW d \in Consumers, d # c
        PROVE  ControlOf(d)'
    <2>1. it'[Uses[d]] = it[Uses[d]]
      BY <1>1, RCQueueAssumption DEF SameOthers, OneEach
    <2>2. Ptr(d)' = Ptr(d) /\ Nxt(d)' = Nxt(d)
      BY <2>1 DEF Ptr, Nxt
    <2>3. ControlOf(d)
      BY DEF Control
    <2>4. pc'[d] = pc[d] /\ at'[d] = at[d] /\ nx'[d] = nx[d] /\ seek'[d] = seek[d] /\ back'[d] = back[d]
      BY <1>1 DEF SameOthers
    <2>5. QED
      BY <2>2, <2>3, <2>4 DEF ControlOf
  <1>2. \A p \in Producers : pc'[p] \in ProducerPCs
    BY DEF Control, SameOthers
  <1>3. QED
    BY <1>1, <1>2 DEF Control

(* The queue stays if its links do and none of its nodes is freed, ...     *)
LEMMA InLineFrame ==
  ASSUME Typed, NEW c \in Consumers, SameOthers(c), NEW Q, InLine(Q), tail' = tail,
         \A m \in Q : Link(m)' = Link(m),
         \A n \in Q : ~node'[n].freed,
         \A n \in Existing : node[n].removed => node'[n].removed,
         ~node'[Header].removed
  PROVE  InLine(Q)'
  <1>1. Existing' = Existing
    BY DEF SameOthers, Existing
  <1>2. \A p \in Producers : pc'[p] = pc[p] /\ old'[p] = old[p] /\ mine'[p] = mine[p]
    BY DEF SameOthers
  <1> HIDE DEF Link
  <1>4. QED
    BY <1>1, <1>2 DEF InLine

(* ... and a chain if its nodes and the link that leads to it do.          *)
LEMMA ChainFrame ==
  ASSUME NEW d \in Consumers, NEW Q, NEW R, NEW S, Chain(d, Q, S), kind' = kind,
         pc'[d] = pc[d], at'[d] = at[d], nx'[d] = nx[d], seek'[d] = seek[d],
         \A m \in S : /\ node'[m].removed /\ ~node'[m].freed
                     /\ node'[m].next = node[m].next,
         pc[d] \in SeekPCs \cup {"turn"} => node'[at[d]].next = node[at[d]].next,
         pc[d] \in SeekPCs => S \subseteq R,
         pc[d] \in CutPCs => S \cap R = {}
  PROVE  Chain(d, R, S)'
  <1>1. Existing' = Existing
    BY DEF Existing
  <1>2. QED
    BY <1>1 DEF Chain, CutPCs

(* A step that changes no link and no freed flag, outside of the           *)
(* unlinking, keeps queue and chains.                                      *)
LEMMA OutsideLine ==
  ASSUME Typed, Control, NEW c \in Consumers, SameOthers(c), tail' = tail, SameNext, SameFreed,
         \A n \in Existing : node[n].removed => node'[n].removed,
         ~node'[Header].removed,
         pc[c] \notin SeekPCs \cup CutPCs, pc'[c] \notin SeekPCs \cup CutPCs,
         NEW Q, NEW K, Line(Q, K)
  PROVE  Links' = Links /\ Line(Q, K)'
  <1>1. \A m \in Nodes : Hides(c, m) = FALSE /\ Hides(c, m)' = FALSE
    BY DEF Hides, CutPCs
  <1>2. \A m \in Nodes : node'[m].next = node[m].next /\ node'[m].freed = node[m].freed
    BY DEF SameNext, SameFreed
  <1>3. \A m \in Nodes : Link(m)' = Link(m)
    BY <1>1, <1>2, LinkStays
  <1>4. Links' = Links
    BY <1>3 DEF Links
  <1>5. InLine(Q) /\ \A n \in Q : n \in Nodes
    BY InNodes DEF Line, InLine
  <1>6. \A n \in Q : ~node'[n].freed
    BY <1>2, <1>5 DEF InLine
  <1>7. InLine(Q)'
    <2>1. \A m \in Q : Link(m)' = Link(m)
      BY <1>3, <1>5
    <2>2. QED
      BY <1>5, <1>6, <2>1, InLineFrame
  <1>8. ASSUME NEW d \in Consumers, d # c
        PROVE  Chain(d, Q, K[d])'
    <2>1. Chain(d, Q, K[d])
      BY DEF Line
    <2>2. /\ pc'[d] = pc[d] /\ at'[d] = at[d] /\ nx'[d] = nx[d] /\ seek'[d] = seek[d]
          /\ kind' = kind
      BY <1>8 DEF SameOthers
    <2>3. \A m \in K[d] : m \in Existing /\ m \in Nodes
      BY <2>1, InNodes DEF Chain
    <2>4. \A m \in K[d] : /\ node'[m].removed /\ ~node'[m].freed
                         /\ node'[m].next = node[m].next
      BY <1>2, <2>1, <2>3 DEF Chain
    <2>5. at[d] \in Nodes => node'[at[d]].next = node[at[d]].next
      BY <1>2
    <2>6. pc[d] \in SeekPCs \cup {"turn"} => at[d] \in Nodes
      BY InNodes, Standing DEF SeekPCs, LockPCs
    <2>7. pc[d] \in SeekPCs => K[d] \subseteq Q
      BY <2>1 DEF Chain
    <2>8. pc[d] \in CutPCs => K[d] \cap Q = {}
      BY <2>1 DEF Chain
    <2>9. QED
      BY <2>1, <2>2, <2>4, <2>5, <2>6, <2>7, <2>8, ChainFrame
  <1>9. Chain(c, Q, K[c])'
    <2>1. K[c] = {}
      BY DEF Chain, Line
    <2>2. QED
      BY <2>1 DEF Chain, SeekPCs, CutPCs
  <1>10. QED
    BY <1>4, <1>7, <1>8, <1>9 DEF Line

(* A step that changes no node.                                            *)
LEMMA SameNode ==
  ASSUME Typed, kind' = kind, node' = node
  PROVE  /\ NodesTyped' /\ SameNext /\ SameFreed /\ SameRemoved /\ SameWriting
         /\ SameReaders /\ SameRemains
  <1>1. Existing' = Existing /\ Known' = Known
    BY DEF Existing, Known
  <1>2. QED
    BY <1>1 DEF Typed, NodesTyped, SameNext, SameFreed, SameRemoved, SameWriting,
               SameReaders, SameRemains

(* A step outside of the unlinking that moves counts only keeps the        *)
(* invariant; ...                                                          *)
LEMMA OutsideStep ==
  ASSUME IInv, OneEach, NEW c \in Consumers, Local(c), NodesTyped', tail' = tail,
         SameNext, SameFreed,
         \A n \in Existing : node[n].removed => node'[n].removed,
         ~node'[Header].removed,
         pc[c] \notin SeekPCs \cup CutPCs, pc'[c] \notin SeekPCs \cup CutPCs,
         ControlOf(c)', Locks',
         \A n \in Nodes : node'[n].readers + One(ReadSlot(c), n)
                           = node[n].readers + One(ReadSlot(c)', n),
         \A n \in Existing : node'[n].remains + Own(c, n) = node[n].remains + Own(c, n)',
         DoomKept(c),
         (pc[c] = "enter" /\ Nxt(c) # Nil => node[Ptr(c)].next = Nxt(c))'
  PROVE  IInv'
  <1>1. /\ Typed /\ Control /\ Exact /\ ReadersExact /\ Locks /\ Doom /\ Entering /\ InOrder
        /\ PointersTyped /\ NodesTyped
    BY DEF IInv, Typed
  <1>2. SameOthers(c) /\ PointersTyped'
    BY <1>1, LocalOthers
  <1>3. Typed'
    BY <1>2 DEF Typed
  <1>4. Control'
    BY <1>1, <1>2, ControlFrame
  <1>5. PICK Q \in SUBSET Existing, K \in [Consumers -> SUBSET Existing] : Line(Q, K)
    BY <1>1 DEF InOrder
  <1>6. Links' = Links /\ Line(Q, K)'
    BY <1>1, <1>2, <1>5, OutsideLine
  <1>7. InOrder'
    <2>1. Existing' = Existing
      BY DEF Local, Existing
    <2>2. QED
      BY <1>6, <2>1 DEF InOrder
  <1>8. Exact'
    <2>1. \A n \in Existing : /\ Own(c, n) \in Nat /\ Own(c, n)' \in Nat
                              /\ node[n].remains \in Nat /\ node'[n].remains \in Nat
                              /\ Count(Links, n) \in Nat /\ Count(Links', n) = Count(Links, n)
                              /\ n \in Nodes
      BY <1>1, <1>6, InNodes, Counts DEF Own, One, NodesTyped, NodeSet
    <2>2. QED
      BY <1>1, <1>2, <2>1, ExactFrame
  <1>9. ReadersExact'
    BY <1>1, <1>2, ReadersFrame
  <1>10. \A n \in Existing : n \in Nodes
    BY <1>1, InNodes
  <1>11. Doom'
    BY <1>1, <1>2, DoomFrame
  <1>12. Entering'
    <2>1. \A n \in Existing : node'[n].next = node[n].next
      BY <1>10 DEF SameNext
    <2>2. QED
      BY <1>1, <1>2, <2>1, EnteringFrame
  <1>13. QED
    BY <1>3, <1>4, <1>7, <1>8, <1>9, <1>11, <1>12 DEF IInv

(* ... so does one that changes no node and holds what it held.            *)
LEMMA QuietStep ==
  ASSUME IInv, OneEach, NEW c \in Consumers, Local(c), node' = node, tail' = tail,
         pc[c] \notin SeekPCs \cup CutPCs, pc'[c] \notin SeekPCs \cup CutPCs,
         pc'[c] \in LockPCs => pc[c] \in LockPCs /\ at'[c] = at[c],
         ControlOf(c)', ReadSlot(c)' = ReadSlot(c), Doomed(c)' = Nil,
         \A n \in Existing : Own(c, n)' = Own(c, n),
         (pc[c] = "enter" /\ Nxt(c) # Nil => node[Ptr(c)].next = Nxt(c))'
  PROVE  IInv'
  <1>1. Typed /\ Control /\ Locks /\ InOrder /\ PointersTyped
    BY DEF IInv, Typed
  <1>2. SameOthers(c) /\ kind' = kind
    BY <1>1, LocalOthers DEF Local
  <1>3. /\ NodesTyped' /\ SameNext /\ SameFreed /\ SameRemoved /\ SameWriting
        /\ SameReaders /\ SameRemains
    BY <1>1, <1>2, SameNode
  <1>4. Locks'
    BY <1>1, <1>2, <1>3, LocksFrame
  <1>5. ~node'[Header].removed
    BY <1>1 DEF InOrder, Line, InLine
  <1>6. \A n \in Existing : n \in Nodes /\ node[n].remains \in Nat /\ Own(c, n) \in Nat
    BY <1>1, InNodes, FieldTypes DEF Typed, Own, One
  <1>7. DoomKept(c)
    <2>1. \A n \in Existing : node'[n] = node[n]
      OBVIOUS
    <2>2. Doomed(c)' = Nil
      OBVIOUS
    <2>3. \A n \in Existing :
            /\ node[n].removed => node'[n].removed
            /\ node[n].remains = 0 => node'[n].remains = 0
            /\ node[n].freed => node'[n].freed
            /\ node'[n].freed => node[n].freed
      BY <2>1
    <2>4. QED
      BY <2>2, <2>3 DEF DoomKept
  <1>8. \A n \in Existing : node'[n].remains + Own(c, n) = node[n].remains + Own(c, n)'
    BY <1>6
  <1>9. \A n \in Nodes : node'[n].readers + One(ReadSlot(c), n)
                          = node[n].readers + One(ReadSlot(c)', n)
    OBVIOUS
  <1>10. QED
    BY <1>3, <1>4, <1>5, <1>7, <1>8, <1>9, OutsideStep

-----------------------------------------------------------------------------
(* The steps that move references from one holder to another, or nothing.  *)

(* Lookup: beginning, looking at what is next and returning change         *)
(* nothing.                                                                *)
LEMMA WalkQuiet ==
  ASSUME IInv, OneEach, NEW c \in Consumers,
         LookupBegin(c) \/ LookupAgain(c) \/ LookupEnd(c) \/ LookupTry(c) \/ LookupTaken(c)
  PROVE  IInv'
  <1>1. Typed /\ Control /\ ControlOf(c)
    BY DEF IInv, Control
  <1>2. Local(c)
    BY <1>1, LookupLocal DEF LookupStep
  <1>3. /\ UNCHANGED <<node, tail, it, at, nx, seek, back>>
        /\ \/ pc[c] = "out" /\ pc'[c] = "header" /\ Ptr(c) = Nil
           \/ pc[c] = "out" /\ pc'[c] = "loop" /\ Ptr(c) # Nil
           \/ pc[c] = "loop" /\ pc'[c] = "check" /\ Nxt(c) # Nil
           \/ pc[c] = "enter" /\ pc'[c] = "fail" /\ Nxt(c) = Nil
           \/ pc[c] = "check" /\ pc'[c] = "take" /\ Nxt(c) # Header
           \/ pc[c] = "taken" /\ pc'[c] = "out"
    <2>1. c \in DOMAIN pc
      BY <1>1 DEF Typed, PointersTyped
    <2> USE DEF Go, LookupUnchanged, clearing
    <2>2. CASE LookupBegin(c)
      BY <2>1, <2>2 DEF LookupBegin
    <2>3. CASE LookupAgain(c)
      BY <2>1, <2>3 DEF LookupAgain
    <2>4. CASE LookupEnd(c)
      BY <2>1, <2>4 DEF LookupEnd
    <2>5. CASE LookupTry(c)
      BY <2>1, <2>5 DEF LookupTry, Wanted
    <2>6. CASE LookupTaken(c)
      BY <2>1, <2>6 DEF LookupTaken
    <2>7. QED
      BY <2>2, <2>3, <2>4, <2>5, <2>6
  <1>4. Ptr(c)' = Ptr(c) /\ Nxt(c)' = Nxt(c)
    BY <1>3 DEF Ptr, Nxt
  <1> HIDE DEF Ptr, Nxt
  <1>5. ControlOf(c)'
    BY <1>1, <1>3, <1>4 DEF ControlOf, ConsumerPCs, LeavePCs, LockPCs, SeekPCs, CutPCs, ReadPCs
  <1>6. ReadSlot(c)' = ReadSlot(c) /\ Doomed(c)' = Nil
    BY <1>3, <1>4 DEF ReadSlot, ReadPCs, Doomed
  <1>7. /\ PtrSlot(c)' = PtrSlot(c) /\ NextSlot(c)' = NextSlot(c)
        /\ AtSlot(c)' = AtSlot(c) /\ NxSlot(c)' = NxSlot(c)
    BY <1>3, <1>4 DEF PtrSlot, NextSlot, AtSlot, NxSlot, CutPCs
  <1>8. \A n \in Existing : Own(c, n)' = Own(c, n)
    BY <1>7 DEF Own
  <1>9. /\ pc[c] \notin SeekPCs \cup CutPCs /\ pc'[c] \notin SeekPCs \cup CutPCs
        /\ pc'[c] \notin LockPCs /\ pc'[c] # "enter"
    BY <1>3 DEF SeekPCs, CutPCs, LockPCs
  <1>10. QED
    BY <1>2, <1>3, <1>5, <1>6, <1>8, <1>9, QuietStep

(* Nobody refers to a null pointer.                                        *)
LEMMA OneNil ==
  ASSUME Typed, NEW n \in Existing
  PROVE  One(Nil, n) = 0
  BY InNodes DEF One

(* Reading the next node is not counted before Enter.                      *)
LEMMA ReadNextQuiet ==
  ASSUME IInv, OneEach, NEW c \in Consumers, LookupReadNext(c)
  PROVE  IInv'
  <1>1. Typed /\ Control /\ ControlOf(c)
    BY DEF IInv, Control
  <1>2. Local(c) /\ Uses[c] \in Iterators
    BY <1>1, LookupLocal, RCQueueAssumption DEF LookupStep
  <1>3. /\ UNCHANGED <<node, tail, at, nx, seek, back>>
        /\ pc[c] = "read" /\ pc'[c] = "enter"
        /\ it' = [it EXCEPT ![Uses[c]].next = node[Ptr(c)].next]
    BY <1>1 DEF LookupReadNext, Go, LookupUnchanged, clearing, Typed, PointersTyped
  <1>4. Ptr(c)' = Ptr(c) /\ Nxt(c)' = node[Ptr(c)].next /\ Nxt(c) = Nil
    <2>1. it \in [Iterators -> [ptr : Known, next : Known]]
      BY <1>1 DEF Typed, PointersTyped
    <2>2. QED
      BY <1>1, <1>2, <1>3, <2>1 DEF Ptr, Nxt, ControlOf
  <1> HIDE DEF Ptr, Nxt
  <1>5. ControlOf(c)'
    BY <1>1, <1>3, <1>4 DEF ControlOf, ConsumerPCs, LeavePCs, LockPCs, SeekPCs, CutPCs, ReadPCs
  <1>6. ReadSlot(c)' = ReadSlot(c) /\ Doomed(c)' = Nil
    BY <1>3, <1>4 DEF ReadSlot, ReadPCs, Doomed
  <1>7. /\ PtrSlot(c)' = PtrSlot(c) /\ NextSlot(c)' = Nil /\ NextSlot(c) = Nil
        /\ AtSlot(c)' = AtSlot(c) /\ NxSlot(c)' = NxSlot(c)
    BY <1>1, <1>3, <1>4 DEF PtrSlot, NextSlot, AtSlot, NxSlot, CutPCs
  <1>8. \A n \in Existing : Own(c, n)' = Own(c, n)
    BY <1>7 DEF Own
  <1>9. /\ pc[c] \notin SeekPCs \cup CutPCs /\ pc'[c] \notin SeekPCs \cup CutPCs
        /\ pc'[c] \notin LockPCs
    BY <1>3 DEF SeekPCs, CutPCs, LockPCs
  <1>10. QED
    BY <1>2, <1>3, <1>4, <1>5, <1>6, <1>8, <1>9, QuietStep

(* Going to Leave moves the reference from the iterator to Leave.          *)
LEMMA LeaveForQuiet ==
  ASSUME IInv, OneEach, NEW c \in Consumers,
         LookupPass(c) \/ TakeFails(c) \/ CloseBegin(c) \/ CloseNext(c)
  PROVE  IInv'
  <1>1. Typed /\ Control /\ ControlOf(c)
    BY DEF IInv, Control
  <1>2. Local(c)
    BY <1>1, LookupLocal DEF LookupStep
  <1>3. /\ UNCHANGED <<node, tail, it, nx, seek>> /\ pc'[c] = "leave"
        /\ \/ /\ pc[c] \in {"check", "take"}
              /\ at'[c] = Ptr(c) /\ back'[c] = "advance"
           \/ /\ pc[c] = "out" /\ Ptr(c) # Nil
              /\ at'[c] = Ptr(c) /\ back'[c] = "close"
           \/ /\ pc[c] = "close"
              /\ at'[c] = Nxt(c) /\ back'[c] = "reset"
    <2>1. c \in DOMAIN pc /\ c \in DOMAIN at /\ c \in DOMAIN back
      BY <1>1 DEF Typed, PointersTyped
    <2> USE DEF Go, LookupUnchanged, clearing, LeaveFor
    <2>2. CASE LookupPass(c)
      BY <2>1, <2>2 DEF LookupPass
    <2>3. CASE TakeFails(c)
      BY <2>1, <2>3 DEF TakeFails
    <2>4. CASE CloseBegin(c)
      BY <2>1, <2>4 DEF CloseBegin
    <2>5. CASE CloseNext(c)
      BY <2>1, <2>5 DEF CloseNext
    <2>6. QED
      BY <2>2, <2>3, <2>4, <2>5
  <1>4. Ptr(c)' = Ptr(c) /\ Nxt(c)' = Nxt(c)
    BY <1>3 DEF Ptr, Nxt
  <1> HIDE DEF Ptr, Nxt
  <1>5. ControlOf(c)'
    BY <1>1, <1>3, <1>4 DEF ControlOf, ConsumerPCs, LeavePCs, LockPCs, SeekPCs, CutPCs, ReadPCs
  <1>6. ReadSlot(c)' = ReadSlot(c) /\ Doomed(c)' = Nil
    BY <1>3 DEF ReadSlot, ReadPCs, Doomed
  <1>7. ASSUME NEW n \in Existing
        PROVE  Own(c, n)' = Own(c, n)
    <2>1. One(Nil, n) = 0
      BY <1>1, OneNil
    <2>2. /\ PtrSlot(c)' = Nil /\ AtSlot(c) = Nil /\ AtSlot(c)' = at'[c]
          /\ NxSlot(c) = Nil /\ NxSlot(c)' = Nil
      BY <1>3 DEF PtrSlot, AtSlot, NxSlot, CutPCs
    <2>3. \/ PtrSlot(c) = at'[c] /\ NextSlot(c)' = NextSlot(c)
          \/ PtrSlot(c) = Nil /\ NextSlot(c) = at'[c] /\ NextSlot(c)' = Nil
      BY <1>1, <1>3, <1>4 DEF PtrSlot, NextSlot, ControlOf, LeavePCs, LockPCs
    <2>4. /\ One(at'[c], n) \in Nat /\ One(NextSlot(c), n) \in Nat
      BY DEF One
    <2>5. /\ Own(c, n) = One(PtrSlot(c), n) + One(NextSlot(c), n)
                           + One(AtSlot(c), n) + One(NxSlot(c), n)
          /\ Own(c, n)' = One(PtrSlot(c)', n) + One(NextSlot(c)', n)
                            + One(AtSlot(c)', n) + One(NxSlot(c)', n)
      BY DEF Own
    <2>6. QED
      BY <2>1, <2>2, <2>3, <2>4, <2>5
  <1>8. /\ pc[c] \notin SeekPCs \cup CutPCs /\ pc'[c] \notin SeekPCs \cup CutPCs
        /\ pc'[c] \notin LockPCs
    BY <1>3 DEF SeekPCs, CutPCs, LockPCs
  <1>9. QED
    BY <1>2, <1>3, <1>5, <1>6, <1>7, <1>8, QuietStep

(* Advancing moves the reference from next to ptr, and closing has none    *)
(* left.                                                                   *)
LEMMA AdvanceQuiet ==
  ASSUME IInv, OneEach, NEW c \in Consumers, LookupAdvance(c) \/ CloseEnd(c)
  PROVE  IInv'
  <1>1. Typed /\ Control /\ ControlOf(c) /\ Uses[c] \in Iterators
    BY RCQueueAssumption DEF IInv, Control
  <1>2. Local(c)
    BY <1>1, LookupLocal DEF LookupStep
  <1>3. /\ UNCHANGED <<node, tail, nx, seek>>
        /\ at'[c] = Nil /\ back'[c] = "out"
        /\ \/ pc[c] = "advance" /\ pc'[c] = "loop" /\ Ptr(c)' = Nxt(c) /\ Nxt(c)' = Nil
           \/ pc[c] = "reset" /\ pc'[c] = "out" /\ Ptr(c)' = Nil /\ Nxt(c)' = Nil
    <2>1. /\ c \in DOMAIN pc /\ c \in DOMAIN at /\ c \in DOMAIN back
          /\ Uses[c] \in DOMAIN it
      BY <1>1 DEF Typed, PointersTyped
    <2> USE DEF Go, LookupUnchanged, clearing
    <2>2. CASE LookupAdvance(c)
      BY <2>1, <2>2 DEF LookupAdvance, Ptr, Nxt
    <2>3. CASE CloseEnd(c)
      BY <2>1, <2>3 DEF CloseEnd, Ptr, Nxt
    <2>4. QED
      BY <2>2, <2>3
  <1>4. ControlOf(c)'
    BY <1>1, <1>3 DEF ControlOf, ConsumerPCs, LeavePCs, LockPCs, SeekPCs, CutPCs, ReadPCs
  <1>5. ReadSlot(c)' = ReadSlot(c) /\ Doomed(c)' = Nil
    BY <1>3 DEF ReadSlot, ReadPCs, Doomed
  <1>6. ASSUME NEW n \in Existing
        PROVE  Own(c, n)' = Own(c, n)
    <2>1. /\ PtrSlot(c) = Nil /\ NextSlot(c)' = Nil
          /\ AtSlot(c) = Nil /\ AtSlot(c)' = Nil /\ NxSlot(c) = Nil /\ NxSlot(c)' = Nil
      BY <1>1, <1>3 DEF ControlOf, PtrSlot, NextSlot, AtSlot, NxSlot, CutPCs
    <2>2. PtrSlot(c)' = NextSlot(c)
      BY <1>1, <1>3 DEF ControlOf, PtrSlot, NextSlot
    <2>3. One(Nil, n) = 0 /\ One(NextSlot(c), n) \in Nat
      BY <1>1, OneNil DEF One
    <2>4. /\ Own(c, n) = One(PtrSlot(c), n) + One(NextSlot(c), n)
                           + One(AtSlot(c), n) + One(NxSlot(c), n)
          /\ Own(c, n)' = One(PtrSlot(c)', n) + One(NextSlot(c)', n)
                            + One(AtSlot(c)', n) + One(NxSlot(c)', n)
      BY DEF Own
    <2>5. QED
      BY <2>1, <2>2, <2>3, <2>4
  <1>7. /\ pc[c] \notin SeekPCs \cup CutPCs /\ pc'[c] \notin SeekPCs \cup CutPCs
        /\ pc'[c] \notin LockPCs /\ pc'[c] # "enter"
    BY <1>3 DEF SeekPCs, CutPCs, LockPCs
  <1>8. QED
    BY <1>2, <1>3, <1>4, <1>5, <1>6, <1>7, QuietStep

(* Leave returns without a node: one it holds a reference to has remains.  *)
LEMMA LeaveNothingQuiet ==
  ASSUME IInv, OneEach, NEW c \in Consumers, LeaveNothing(c)
  PROVE  IInv'
  <1>1. Typed /\ Control /\ ControlOf(c) /\ Exact
    BY DEF IInv, Control
  <1>2. Local(c)
    BY <1>1, LeaveLocal DEF LeaveStep
  <1>3. /\ UNCHANGED <<node, tail, it, at, nx, seek, back>>
        /\ pc[c] = "leave" /\ pc'[c] = back[c]
        /\ at[c] # Nil => node[at[c]].remains = 0
    BY <1>1 DEF LeaveNothing, Go, LeaveUnchanged, clearing, Typed, PointersTyped
  <1>4. at[c] = Nil
    <2> SUFFICES ASSUME at[c] # Nil
                 PROVE  FALSE
      OBVIOUS
    <2>1. at[c] \in Existing
      BY <1>1, InNodes, Standing
    <2>2. AtSlot(c) = at[c]
      BY <1>3 DEF AtSlot
    <2>3. node[at[c]].remains > 0
      BY <1>1, <2>1, <2>2, OwnHeld
    <2>4. QED
      BY <1>3, <2>3
  <1>5. Ptr(c)' = Ptr(c) /\ Nxt(c)' = Nxt(c)
    BY <1>3 DEF Ptr, Nxt
  <1>6. back[c] \in {"advance", "close", "reset"}
    BY <1>1, <1>3 DEF Typed, PointersTyped, ControlOf, LeavePCs
  <1> HIDE DEF Ptr, Nxt
  <1>7. ControlOf(c)'
    BY <1>1, <1>3, <1>5, <1>6 DEF ControlOf, ConsumerPCs, LeavePCs, LockPCs, SeekPCs, CutPCs, ReadPCs
  <1>8. ReadSlot(c)' = ReadSlot(c) /\ Doomed(c)' = Nil
    BY <1>3, <1>6 DEF ReadSlot, ReadPCs, Doomed
  <1>9. /\ PtrSlot(c)' = PtrSlot(c) /\ NextSlot(c)' = NextSlot(c)
        /\ AtSlot(c)' = AtSlot(c) /\ NxSlot(c)' = NxSlot(c)
    BY <1>3, <1>4, <1>5, <1>6 DEF PtrSlot, NextSlot, AtSlot, NxSlot, CutPCs
  <1>10. \A n \in Existing : Own(c, n)' = Own(c, n)
    BY <1>9 DEF Own
  <1>11. /\ pc[c] \notin SeekPCs \cup CutPCs /\ pc'[c] \notin SeekPCs \cup CutPCs
        /\ pc'[c] \notin LockPCs /\ pc'[c] # "enter"
    BY <1>3, <1>6 DEF SeekPCs, CutPCs, LockPCs
  <1>12. QED
    BY <1>2, <1>3, <1>7, <1>8, <1>10, <1>11, QuietStep

(* Clear ends when the next node is not removed, or when there is none.    *)
LEMMA ClearQuiet ==
  ASSUME IInv, OneEach, NEW c \in Consumers,
         \/ ClearBegin(c) /\ ~IsRemoved(node[at[c]].next)
         \/ ClearDefer(c) /\ nx[c] = Nil
  PROVE  IInv'
  <1>1. Typed /\ Control /\ ControlOf(c) /\ Exact
    BY DEF IInv, Control
  <1>2. Local(c)
    BY <1>1, LeaveLocal DEF LeaveStep
  <1>3. /\ UNCHANGED <<node, tail, it, at, nx, seek, back>>
        /\ \/ pc[c] = "clear" /\ pc'[c] = "unlock"
           \/ pc[c] = "defer" /\ pc'[c] = "clear" /\ nx[c] = Nil
    <2>1. c \in DOMAIN pc
      BY <1>1 DEF Typed, PointersTyped
    <2> USE DEF Go, LeaveUnchanged, clearing
    <2>2. CASE ClearBegin(c) /\ ~IsRemoved(node[at[c]].next)
      BY <2>1, <2>2 DEF ClearBegin
    <2>3. CASE ClearDefer(c) /\ nx[c] = Nil
      BY <2>1, <2>3 DEF ClearDefer
    <2>4. QED
      BY <2>2, <2>3
  <1>4. Ptr(c)' = Ptr(c) /\ Nxt(c)' = Nxt(c)
    BY <1>3 DEF Ptr, Nxt
  <1> HIDE DEF Ptr, Nxt
  <1>5. ControlOf(c)'
    BY <1>1, <1>3, <1>4 DEF ControlOf, ConsumerPCs, LeavePCs, LockPCs, SeekPCs, CutPCs, ReadPCs
  <1>6. ReadSlot(c)' = ReadSlot(c) /\ Doomed(c)' = Nil
    BY <1>3 DEF ReadSlot, ReadPCs, Doomed
  <1>7. /\ PtrSlot(c)' = PtrSlot(c) /\ NextSlot(c)' = NextSlot(c)
        /\ AtSlot(c)' = AtSlot(c) /\ NxSlot(c)' = NxSlot(c)
    BY <1>3, <1>4 DEF PtrSlot, NextSlot, AtSlot, NxSlot, CutPCs
  <1>8. \A n \in Existing : Own(c, n)' = Own(c, n)
    BY <1>7 DEF Own
  <1>9. /\ pc[c] \notin SeekPCs \cup CutPCs /\ pc'[c] \notin SeekPCs \cup CutPCs
        /\ pc[c] \in LockPCs /\ at'[c] = at[c] /\ pc'[c] # "enter"
    BY <1>3 DEF SeekPCs, CutPCs, LockPCs
  <1>10. QED
    BY <1>2, <1>3, <1>5, <1>6, <1>8, <1>9, QuietStep
-----------------------------------------------------------------------------
(* The steps that count readers.                                           *)

(* SetReading counts a reader of a node that is held.                      *)
LEMMA SetReadingStep ==
  ASSUME IInv, OneEach, NEW c \in Consumers, LookupSetReading(c)
  PROVE  IInv'
  <1>1. Typed /\ Control /\ ControlOf(c) /\ Locks /\ InOrder
    BY DEF IInv, Control
  <1>2. Local(c)
    BY <1>1, LookupLocal DEF LookupStep
  <1>3. /\ UNCHANGED <<tail, it, at, nx, seek, back>>
        /\ pc[c] = "loop" /\ pc'[c] = "read" /\ Nxt(c) = Nil /\ ~node[Ptr(c)].writing
    BY <1>1 DEF LookupSetReading, Unlocked, Go, LookupUnchanged, clearing, Typed, PointersTyped
  <1>4. Ptr(c)' = Ptr(c) /\ Nxt(c)' = Nxt(c)
    BY <1>3 DEF Ptr, Nxt
  <1> HIDE DEF Ptr, Nxt
  <1>5. /\ NodesTyped' /\ Ptr(c) \in Existing
        /\ \A n \in Nodes : node'[n].readers =
                              IF n = Ptr(c) THEN node[n].readers + 1 ELSE node[n].readers
        /\ SameNext /\ SameRemoved /\ SameWriting /\ SameRemains /\ SameFreed
    BY <1>1, LookupSetReadingNode
  <1>6. ControlOf(c)'
    BY <1>1, <1>3, <1>4 DEF ControlOf, ConsumerPCs, LeavePCs, LockPCs, SeekPCs, CutPCs, ReadPCs
  <1>7. /\ PtrSlot(c)' = PtrSlot(c) /\ NextSlot(c)' = NextSlot(c)
        /\ AtSlot(c)' = AtSlot(c) /\ NxSlot(c)' = NxSlot(c)
    BY <1>3, <1>4 DEF PtrSlot, NextSlot, AtSlot, NxSlot, CutPCs
  <1>8. \A n \in Existing : n \in Nodes
    BY <1>1, InNodes
  <1>9. \A n \in Existing : node'[n].remains + Own(c, n) = node[n].remains + Own(c, n)'
    BY <1>5, <1>7, <1>8 DEF Own, SameRemains
  <1>10. /\ pc[c] \notin SeekPCs \cup CutPCs /\ pc'[c] \notin SeekPCs \cup CutPCs
         /\ pc'[c] \notin LockPCs /\ pc'[c] # "enter"
    BY <1>3 DEF SeekPCs, CutPCs, LockPCs
  <1>11. Locks'
    <2>1. \A n \in Existing : node[n].writing => node'[n].readers = node[n].readers
      BY <1>3, <1>5, <1>8
    <2>2. QED
      BY <1>1, <1>2, <1>5, <1>10, <2>1, LocalOthers, LocksFrame DEF Typed
  <1>12. DoomKept(c)
    <2>1. Doomed(c)' = Nil
      BY <1>3 DEF Doomed
    <2>2. QED
      BY <1>5, <1>8, <2>1 DEF DoomKept, SameRemains, SameFreed, SameRemoved
  <1>13. \A n \in Nodes : node'[n].readers + One(ReadSlot(c), n)
                           = node[n].readers + One(ReadSlot(c)', n)
    <2>1. ReadSlot(c) = Nil /\ ReadSlot(c)' = Ptr(c)
      BY <1>3, <1>4 DEF ReadSlot, ReadPCs
    <2>2. \A n \in Nodes : One(Nil, n) = 0 /\ node[n].readers \in Nat
      BY <1>1, FieldTypes DEF One, Typed, Nodes, Nil
    <2>3. QED
      BY <1>5, <2>1, <2>2 DEF One
  <1>14. /\ ~node'[Header].removed
         /\ \A n \in Existing : node[n].removed => node'[n].removed
    BY <1>1, <1>5, <1>8 DEF InOrder, Line, InLine, SameRemoved
  <1>15. QED
    BY <1>2, <1>3, <1>5, <1>6, <1>9, <1>10, <1>11, <1>12, <1>13, <1>14, OutsideStep

(* UnsetReading finds itself counted.                                      *)
LEMMA UnsetReadingStep ==
  ASSUME IInv, OneEach, NEW c \in Consumers, LookupUnsetReading(c)
  PROVE  IInv'
  <1>1. Typed /\ Control /\ ControlOf(c) /\ Locks /\ InOrder /\ ReadersExact
    BY DEF IInv, Control
  <1>2. Local(c)
    BY <1>1, LookupLocal DEF LookupStep
  <1>3. /\ UNCHANGED <<tail, it, at, nx, seek, back>>
        /\ \/ pc[c] = "unset" /\ pc'[c] = "check"
           \/ pc[c] = "fail" /\ pc'[c] = "out"
    BY <1>1 DEF LookupUnsetReading, Go, LookupUnchanged, clearing, Typed, PointersTyped
  <1>4. Ptr(c)' = Ptr(c) /\ Nxt(c)' = Nxt(c)
    BY <1>3 DEF Ptr, Nxt
  <1> HIDE DEF Ptr, Nxt
  <1>5. ReadSlot(c) = Ptr(c) /\ ReadSlot(c)' = Nil /\ Ptr(c) \in Existing /\ Ptr(c) \in Nodes
    BY <1>1, <1>3, <1>4, InNodes, Standing DEF ReadSlot, ReadPCs
  <1>6. node[Ptr(c)].readers > 0
    <2>1. Reads[c] = Ptr(c) /\ c \in DOMAIN Reads
      BY <1>5, OwnSlots DEF Reads
    <2>2. Count(Reads, Ptr(c)) > 0
      BY <2>1, Finite, CountPositive
    <2>3. QED
      BY <1>1, <1>5, <2>2 DEF ReadersExact
  <1>7. /\ NodesTyped'
        /\ \A n \in Nodes : node'[n].readers =
                              IF n = Ptr(c) THEN node[n].readers - 1 ELSE node[n].readers
        /\ SameNext /\ SameRemoved /\ SameWriting /\ SameRemains /\ SameFreed
    BY <1>1, <1>6, LookupUnsetReadingNode
  <1>8. ControlOf(c)'
    BY <1>1, <1>3, <1>4 DEF ControlOf, ConsumerPCs, LeavePCs, LockPCs, SeekPCs, CutPCs, ReadPCs
  <1>9. /\ PtrSlot(c)' = PtrSlot(c) /\ NextSlot(c)' = NextSlot(c)
        /\ AtSlot(c)' = AtSlot(c) /\ NxSlot(c)' = NxSlot(c)
    BY <1>3, <1>4 DEF PtrSlot, NextSlot, AtSlot, NxSlot, CutPCs
  <1>10. \A n \in Existing : n \in Nodes
    BY <1>1, InNodes
  <1>11. \A n \in Existing : node'[n].remains + Own(c, n) = node[n].remains + Own(c, n)'
    BY <1>7, <1>9, <1>10 DEF Own, SameRemains
  <1>12. /\ pc[c] \notin SeekPCs \cup CutPCs /\ pc'[c] \notin SeekPCs \cup CutPCs
         /\ pc'[c] \notin LockPCs /\ pc'[c] # "enter"
    BY <1>3 DEF SeekPCs, CutPCs, LockPCs
  <1>13. Locks'
    <2>1. ~node[Ptr(c)].writing
      BY <1>1, <1>5, <1>6 DEF Locks
    <2>2. \A n \in Existing : node[n].writing => node'[n].readers = node[n].readers
      BY <1>7, <1>10, <2>1
    <2>3. QED
      BY <1>1, <1>2, <1>7, <1>12, <2>2, LocalOthers, LocksFrame DEF Typed
  <1>14. DoomKept(c)
    <2>1. Doomed(c)' = Nil
      BY <1>3 DEF Doomed
    <2>2. QED
      BY <1>7, <1>10, <2>1 DEF DoomKept, SameRemains, SameFreed, SameRemoved
  <1>15. \A n \in Nodes : node'[n].readers + One(ReadSlot(c), n)
                           = node[n].readers + One(ReadSlot(c)', n)
    <2>1. \A n \in Nodes : One(Nil, n) = 0 /\ node[n].readers \in Nat
      BY <1>1, FieldTypes DEF One, Typed, Nodes, Nil
    <2>2. QED
      BY <1>5, <1>7, <2>1 DEF One
  <1>16. /\ ~node'[Header].removed
         /\ \A n \in Existing : node[n].removed => node'[n].removed
    BY <1>1, <1>7, <1>10 DEF InOrder, Line, InLine, SameRemoved
  <1>17. QED
    BY <1>2, <1>3, <1>7, <1>8, <1>11, <1>12, <1>13, <1>14, <1>15, <1>16, OutsideStep
-----------------------------------------------------------------------------
(* The steps that count references.                                        *)

(* Enter(header) counts the new reference.                                 *)
LEMMA HeaderStep ==
  ASSUME IInv, OneEach, NEW c \in Consumers, LookupHeader(c)
  PROVE  IInv'
  <1>1. Typed /\ Control /\ ControlOf(c) /\ Locks /\ InOrder /\ Exact /\ Uses[c] \in Iterators
    BY RCQueueAssumption DEF IInv, Control
  <1>2. Local(c) /\ kind' = kind
    BY <1>1, LookupLocal DEF LookupStep, Local
  <1>3. Header \in Existing
    BY <1>1 DEF Existing, Header, Typed, PointersTyped
  <1>4. /\ UNCHANGED <<tail, at, nx, seek, back>>
        /\ pc[c] = "header" /\ pc'[c] = "loop" /\ Ptr(c) = Nil
        /\ Ptr(c)' = Header /\ Nxt(c)' = Nxt(c) /\ node' = Refer(node, Header)
    <2>1. it \in [Iterators -> [ptr : Known, next : Known]] /\ c \in DOMAIN pc
      BY <1>1 DEF Typed, PointersTyped
    <2>2. /\ UNCHANGED <<tail, at, nx, seek, back>>
          /\ pc[c] = "header" /\ pc'[c] = "loop" /\ Ptr(c) = Nil
          /\ node' = Refer(node, Header)
      BY <1>1, <2>1 DEF LookupHeader, LookupUnchanged, clearing, Go, ControlOf
    <2>3. it' = [it EXCEPT ![Uses[c]].ptr = Header]
      BY DEF LookupHeader
    <2>4. QED
      BY <1>1, <2>1, <2>2, <2>3 DEF Ptr, Nxt
  <1> HIDE DEF Ptr, Nxt, Refer
  <1>5. /\ NodesTyped'
        /\ \A n \in Nodes : node'[n].remains =
                              IF n = Header THEN node[n].remains + 1 ELSE node[n].remains
        /\ SameNext /\ SameRemoved /\ SameWriting /\ SameReaders /\ SameFreed
    BY <1>1, <1>2, <1>3, <1>4, ReferNode
  <1>6. ControlOf(c)'
    BY <1>1, <1>4, InNodes, <1>3 DEF ControlOf, ConsumerPCs, LeavePCs, LockPCs, SeekPCs, CutPCs, ReadPCs
  <1>7. /\ PtrSlot(c) = Nil /\ PtrSlot(c)' = Header /\ NextSlot(c)' = NextSlot(c)
        /\ AtSlot(c)' = AtSlot(c) /\ NxSlot(c)' = NxSlot(c)
    BY <1>1, <1>4 DEF PtrSlot, NextSlot, AtSlot, NxSlot, CutPCs, ControlOf, LeavePCs, LockPCs
  <1>8. \A n \in Existing : n \in Nodes /\ node[n].remains \in Nat
    BY <1>1, InNodes, FieldTypes DEF Typed
  <1>9. ASSUME NEW n \in Existing
        PROVE  node'[n].remains + Own(c, n) = node[n].remains + Own(c, n)'
    <2>1. One(Nil, n) = 0 /\ One(Header, n) = IF n = Header THEN 1 ELSE 0
      BY <1>1, OneNil DEF One
    <2>2. Own(c, n) \in Nat /\ Own(c, n)' = Own(c, n) + One(Header, n)
      <3>1. /\ One(NextSlot(c), n) \in Nat /\ One(AtSlot(c), n) \in Nat
            /\ One(NxSlot(c), n) \in Nat /\ One(Header, n) \in Nat
        BY DEF One
      <3>2. QED
        BY <1>7, <2>1, <3>1 DEF Own
    <2>3. QED
      BY <1>5, <1>8, <2>1, <2>2
  <1>10. /\ pc[c] \notin SeekPCs \cup CutPCs /\ pc'[c] \notin SeekPCs \cup CutPCs
         /\ pc'[c] \notin LockPCs /\ pc'[c] # "enter"
    BY <1>4 DEF SeekPCs, CutPCs, LockPCs
  <1>11. Locks'
    <2>1. \A n \in Existing : node[n].writing => node'[n].readers = node[n].readers
      BY <1>5, <1>8 DEF SameReaders
    <2>2. QED
      BY <1>1, <1>2, <1>5, <1>10, <2>1, LocalOthers, LocksFrame DEF Typed
  <1>12. DoomKept(c)
    <2>1. Doomed(c)' = Nil
      BY <1>4 DEF Doomed
    <2>2. node[Header].remains > 0
      BY <1>1, <1>3, Held
    <2>3. QED
      BY <1>5, <1>8, <2>1, <2>2 DEF DoomKept, SameFreed, SameRemoved
  <1>13. \A n \in Nodes : node'[n].readers + One(ReadSlot(c), n)
                           = node[n].readers + One(ReadSlot(c)', n)
    BY <1>4, <1>5 DEF ReadSlot, ReadPCs, SameReaders
  <1>14. /\ ~node'[Header].removed
         /\ \A n \in Existing : node[n].removed => node'[n].removed
    BY <1>1, <1>5, <1>8 DEF InOrder, Line, InLine, SameRemoved
  <1>15. QED
    BY <1>2, <1>4, <1>5, <1>6, <1>9, <1>10, <1>11, <1>12, <1>13, <1>14, OutsideStep

(* Enter(next) counts a reference to a node that the link it was read from *)
(* still holds: nobody sets the link of a node with readers.               *)
LEMMA EnterStep ==
  ASSUME IInv, OneEach, NEW c \in Consumers, LookupEnter(c)
  PROVE  IInv'
  <1>1. /\ Typed /\ Control /\ ControlOf(c) /\ Locks /\ InOrder /\ Exact /\ Doom /\ Entering
    BY DEF IInv, Control
  <1>2. Local(c) /\ kind' = kind
    BY <1>1, LookupLocal DEF LookupStep, Local
  <1>3. /\ UNCHANGED <<tail, it, at, nx, seek, back>>
        /\ pc[c] = "enter" /\ pc'[c] = "unset" /\ Nxt(c) # Nil
        /\ node' = Refer(node, Nxt(c))
    BY <1>1 DEF LookupEnter, LookupUnchanged, clearing, Go, Typed, PointersTyped
  <1>4. Ptr(c)' = Ptr(c) /\ Nxt(c)' = Nxt(c)
    BY <1>3 DEF Ptr, Nxt
  <1> HIDE DEF Ptr, Nxt, Refer
  <1>5. Nxt(c) \in Existing /\ node[Nxt(c)].remains > 0
    <2>1. Ptr(c) \in Existing /\ back[c] = "out"
      BY <1>1, <1>3, Standing DEF ReadPCs, ControlOf, LeavePCs, LockPCs
    <2>2. node[Ptr(c)].remains > 0
      BY <1>1, <2>1, OwnHeld DEF PtrSlot
    <2>3. ~node[Ptr(c)].freed
      BY <1>1, <2>1, <2>2 DEF Doom
    <2>4. node[Ptr(c)].next = Nxt(c)
      BY <1>1, <1>3 DEF Entering
    <2>5. QED
      BY <1>1, <1>3, <2>1, <2>3, <2>4, HeldLink DEF InOrder
  <1>6. /\ NodesTyped'
        /\ \A n \in Nodes : node'[n].remains =
                              IF n = Nxt(c) THEN node[n].remains + 1 ELSE node[n].remains
        /\ SameNext /\ SameRemoved /\ SameWriting /\ SameReaders /\ SameFreed
    BY <1>1, <1>2, <1>3, <1>5, ReferNode
  <1>7. ControlOf(c)'
    BY <1>1, <1>3, <1>4 DEF ControlOf, ConsumerPCs, LeavePCs, LockPCs, SeekPCs, CutPCs, ReadPCs
  <1>8. /\ PtrSlot(c)' = PtrSlot(c) /\ NextSlot(c) = Nil /\ NextSlot(c)' = Nxt(c)
        /\ AtSlot(c)' = AtSlot(c) /\ NxSlot(c)' = NxSlot(c)
    BY <1>1, <1>3, <1>4 DEF PtrSlot, NextSlot, AtSlot, NxSlot, CutPCs, ControlOf, LeavePCs, LockPCs
  <1>9. \A n \in Existing : n \in Nodes /\ node[n].remains \in Nat
    BY <1>1, InNodes, FieldTypes DEF Typed
  <1>10. ASSUME NEW n \in Existing
         PROVE  node'[n].remains + Own(c, n) = node[n].remains + Own(c, n)'
    <2>1. One(Nil, n) = 0 /\ One(Nxt(c), n) = IF n = Nxt(c) THEN 1 ELSE 0
      BY <1>1, OneNil DEF One
    <2>2. Own(c, n) \in Nat /\ Own(c, n)' = Own(c, n) + One(Nxt(c), n)
      <3>1. /\ One(PtrSlot(c), n) \in Nat /\ One(AtSlot(c), n) \in Nat
            /\ One(NxSlot(c), n) \in Nat /\ One(Nxt(c), n) \in Nat
        BY DEF One
      <3>2. QED
        BY <1>8, <2>1, <3>1 DEF Own
    <2>3. QED
      BY <1>6, <1>9, <2>1, <2>2
  <1>11. /\ pc[c] \notin SeekPCs \cup CutPCs /\ pc'[c] \notin SeekPCs \cup CutPCs
         /\ pc'[c] \notin LockPCs /\ pc'[c] # "enter"
    BY <1>3 DEF SeekPCs, CutPCs, LockPCs
  <1>12. Locks'
    <2>1. \A n \in Existing : node[n].writing => node'[n].readers = node[n].readers
      BY <1>6, <1>9 DEF SameReaders
    <2>2. QED
      BY <1>1, <1>2, <1>6, <1>11, <2>1, LocalOthers, LocksFrame DEF Typed
  <1>13. DoomKept(c)
    <2>1. Doomed(c)' = Nil
      BY <1>3 DEF Doomed
    <2>2. QED
      BY <1>5, <1>6, <1>9, <2>1 DEF DoomKept, SameFreed, SameRemoved
  <1>14. \A n \in Nodes : node'[n].readers + One(ReadSlot(c), n)
                           = node[n].readers + One(ReadSlot(c)', n)
    BY <1>3, <1>4, <1>6 DEF ReadSlot, ReadPCs, SameReaders
  <1>15. /\ ~node'[Header].removed
         /\ \A n \in Existing : node[n].removed => node'[n].removed
    BY <1>1, <1>6, <1>9 DEF InOrder, Line, InLine, SameRemoved
  <1>16. QED
    BY <1>2, <1>3, <1>6, <1>7, <1>10, <1>11, <1>12, <1>13, <1>14, <1>15, OutsideStep

(* Leave gives back its own reference, and dooms the node if it was the    *)
(* last.                                                                   *)
LEMMA LeavePlainStep ==
  ASSUME IInv, OneEach, NEW c \in Consumers, LeavePlain(c)
  PROVE  IInv'
  <1>1. Typed /\ Control /\ ControlOf(c) /\ Locks /\ InOrder /\ Exact /\ Doom
    BY DEF IInv, Control
  <1>2. Local(c) /\ kind' = kind
    BY <1>1, LeaveLocal DEF LeaveStep, Local
  <1>3. /\ UNCHANGED <<tail, it, at, nx, seek, back>>
        /\ pc[c] = "leave" /\ at[c] # Nil /\ node[at[c]].remains > 0
        /\ pc'[c] = (IF node[at[c]].remains = 1 THEN "delete" ELSE back[c])
        /\ node' = Defer(node, at[c])
    BY <1>1 DEF LeavePlain, LeaveUnchanged, clearing, Go, Typed, PointersTyped
  <1>4. Ptr(c)' = Ptr(c) /\ Nxt(c)' = Nxt(c)
    BY <1>3 DEF Ptr, Nxt
  <1> HIDE DEF Ptr, Nxt, Defer
  <1>5. at[c] \in Existing /\ back[c] \in {"advance", "close", "reset"}
    BY <1>1, <1>3, InNodes, Standing DEF Typed, PointersTyped, ControlOf, LeavePCs
  <1>6. /\ NodesTyped'
        /\ \A n \in Nodes : node'[n].remains =
                              IF n = at[c] THEN node[n].remains - 1 ELSE node[n].remains
        /\ SameNext /\ SameRemoved /\ SameWriting /\ SameReaders /\ SameFreed
    BY <1>1, <1>2, <1>3, <1>5, DeferNode
  <1>7. pc'[c] \in {"delete", "advance", "close", "reset"}
    BY <1>3, <1>5
  <1>8. ControlOf(c)'
    BY <1>1, <1>3, <1>4, <1>5 DEF ControlOf, ConsumerPCs, LeavePCs, LockPCs, SeekPCs, CutPCs, ReadPCs
  <1>9. /\ PtrSlot(c)' = PtrSlot(c) /\ NextSlot(c)' = NextSlot(c)
        /\ AtSlot(c) = at[c] /\ AtSlot(c)' = Nil /\ NxSlot(c)' = NxSlot(c)
    BY <1>3, <1>4, <1>7 DEF PtrSlot, NextSlot, AtSlot, NxSlot, CutPCs
  <1>10. \A n \in Existing : n \in Nodes /\ node[n].remains \in Nat
    BY <1>1, InNodes, FieldTypes DEF Typed
  <1>11. ASSUME NEW n \in Existing
         PROVE  node'[n].remains + Own(c, n) = node[n].remains + Own(c, n)'
    <2>1. One(Nil, n) = 0 /\ One(at[c], n) = IF n = at[c] THEN 1 ELSE 0
      BY <1>1, OneNil DEF One
    <2>2. Own(c, n)' \in Nat /\ Own(c, n) = Own(c, n)' + One(at[c], n)
      <3>1. /\ One(PtrSlot(c), n) \in Nat /\ One(NextSlot(c), n) \in Nat
            /\ One(NxSlot(c), n) \in Nat /\ One(at[c], n) \in Nat
        BY DEF One
      <3>2. QED
        BY <1>9, <2>1, <3>1 DEF Own
    <2>3. QED
      BY <1>3, <1>6, <1>10, <2>1, <2>2
  <1>12. /\ pc[c] \notin SeekPCs \cup CutPCs /\ pc'[c] \notin SeekPCs \cup CutPCs
         /\ pc'[c] \notin LockPCs /\ pc'[c] # "enter"
    BY <1>3, <1>7 DEF SeekPCs, CutPCs, LockPCs
  <1>13. Locks'
    <2>1. \A n \in Existing : node[n].writing => node'[n].readers = node[n].readers
      BY <1>6, <1>10 DEF SameReaders
    <2>2. QED
      BY <1>1, <1>2, <1>6, <1>12, <2>1, LocalOthers, LocksFrame DEF Typed
  <1>14. DoomKept(c)
    <2>1. \A n \in Existing :
            /\ node[n].removed => node'[n].removed
            /\ node[n].remains = 0 => node'[n].remains = 0
            /\ node[n].freed <=> node'[n].freed
      BY <1>3, <1>6, <1>10 DEF SameFreed, SameRemoved
    <2>2. Doomed(c)' # Nil => Doomed(c)' = at[c] /\ node[at[c]].remains = 1
      BY <1>3, <1>5 DEF Doomed
    <2>3. ~node'[at[c]].freed
      BY <1>1, <1>3, <1>5, <2>1 DEF Doom
    <2>4. node[at[c]].remains = 1 => node'[at[c]].remains = 0
      BY <1>5, <1>6, <1>10
    <2>5. QED
      BY <1>5, <2>1, <2>2, <2>3, <2>4 DEF DoomKept
  <1>15. \A n \in Nodes : node'[n].readers + One(ReadSlot(c), n)
                           = node[n].readers + One(ReadSlot(c)', n)
    BY <1>3, <1>6, <1>7 DEF ReadSlot, ReadPCs, SameReaders
  <1>16. /\ ~node'[Header].removed
         /\ \A n \in Existing : node[n].removed => node'[n].removed
    BY <1>1, <1>6, <1>10 DEF InOrder, Line, InLine, SameRemoved
  <1>17. QED
    BY <1>2, <1>3, <1>6, <1>8, <1>11, <1>12, <1>13, <1>14, <1>15, <1>16, OutsideStep

(* Clear gives back the reference of the link that is gone.                *)
LEMMA ClearDeferStep ==
  ASSUME IInv, OneEach, NEW c \in Consumers, ClearDefer(c), nx[c] # Nil
  PROVE  IInv'
  <1>1. Typed /\ Control /\ ControlOf(c) /\ Locks /\ InOrder /\ Exact /\ Doom
    BY DEF IInv, Control
  <1>2. Local(c) /\ kind' = kind
    BY <1>1, LeaveLocal DEF LeaveStep, Local
  <1>3. /\ UNCHANGED <<tail, it, at, nx, seek, back>>
        /\ pc[c] = "defer"
        /\ pc'[c] = (IF node[nx[c]].remains = 1 THEN "free" ELSE "clear")
        /\ node' = Defer(node, nx[c])
    BY <1>1 DEF ClearDefer, LeaveUnchanged, clearing, Go, Typed, PointersTyped
  <1>4. Ptr(c)' = Ptr(c) /\ Nxt(c)' = Nxt(c)
    BY <1>3 DEF Ptr, Nxt
  <1> HIDE DEF Ptr, Nxt, Defer
  <1>5. nx[c] \in Existing /\ node[nx[c]].remains > 0
    <2>1. nx[c] \in Existing
      BY <1>1, InNodes, Standing
    <2>2. NxSlot(c) = nx[c]
      BY <1>3 DEF NxSlot
    <2>3. QED
      BY <1>1, <2>1, <2>2, OwnHeld
  <1>6. /\ NodesTyped'
        /\ \A n \in Nodes : node'[n].remains =
                              IF n = nx[c] THEN node[n].remains - 1 ELSE node[n].remains
        /\ SameNext /\ SameRemoved /\ SameWriting /\ SameReaders /\ SameFreed
    BY <1>1, <1>2, <1>3, <1>5, DeferNode
  <1>7. pc'[c] \in {"free", "clear"}
    BY <1>3
  <1>8. ControlOf(c)'
    BY <1>1, <1>3, <1>4, <1>5 DEF ControlOf, ConsumerPCs, LeavePCs, LockPCs, SeekPCs, CutPCs, ReadPCs
  <1>9. /\ PtrSlot(c)' = PtrSlot(c) /\ NextSlot(c)' = NextSlot(c)
        /\ AtSlot(c)' = AtSlot(c) /\ NxSlot(c) = nx[c] /\ NxSlot(c)' = Nil
    BY <1>3, <1>4, <1>7 DEF PtrSlot, NextSlot, AtSlot, NxSlot, CutPCs
  <1>10. \A n \in Existing : n \in Nodes /\ node[n].remains \in Nat
    BY <1>1, InNodes, FieldTypes DEF Typed
  <1>11. ASSUME NEW n \in Existing
         PROVE  node'[n].remains + Own(c, n) = node[n].remains + Own(c, n)'
    <2>1. One(Nil, n) = 0 /\ One(nx[c], n) = IF n = nx[c] THEN 1 ELSE 0
      BY <1>1, OneNil DEF One
    <2>2. Own(c, n)' \in Nat /\ Own(c, n) = Own(c, n)' + One(nx[c], n)
      <3>1. /\ One(PtrSlot(c), n) \in Nat /\ One(NextSlot(c), n) \in Nat
            /\ One(AtSlot(c), n) \in Nat /\ One(nx[c], n) \in Nat
        BY DEF One
      <3>2. QED
        BY <1>9, <2>1, <3>1 DEF Own
    <2>3. QED
      BY <1>5, <1>6, <1>10, <2>1, <2>2
  <1>12. /\ pc[c] \notin SeekPCs \cup CutPCs /\ pc'[c] \notin SeekPCs \cup CutPCs
         /\ pc[c] \in LockPCs /\ pc'[c] # "enter"
    BY <1>3, <1>7 DEF SeekPCs, CutPCs, LockPCs
  <1>13. Locks'
    <2>1. \A n \in Existing : node[n].writing => node'[n].readers = node[n].readers
      BY <1>6, <1>10 DEF SameReaders
    <2>2. QED
      BY <1>1, <1>2, <1>3, <1>6, <1>12, <2>1, LocalOthers, LocksFrame DEF Typed
  <1>14. DoomKept(c)
    <2>1. \A n \in Existing :
            /\ node[n].removed => node'[n].removed
            /\ node[n].remains = 0 => node'[n].remains = 0
            /\ node[n].freed <=> node'[n].freed
      BY <1>5, <1>6, <1>10 DEF SameFreed, SameRemoved
    <2>2. Doomed(c)' # Nil => Doomed(c)' = nx[c] /\ node[nx[c]].remains = 1
      BY <1>3, <1>7 DEF Doomed
    <2>3. ~node'[nx[c]].freed
      BY <1>1, <1>5, <2>1 DEF Doom
    <2>4. node[nx[c]].remains = 1 => node'[nx[c]].remains = 0
      BY <1>5, <1>6, <1>10
    <2>5. QED
      BY <1>5, <2>1, <2>2, <2>3, <2>4 DEF DoomKept
  <1>15. \A n \in Nodes : node'[n].readers + One(ReadSlot(c), n)
                           = node[n].readers + One(ReadSlot(c)', n)
    BY <1>3, <1>6, <1>7 DEF ReadSlot, ReadPCs, SameReaders
  <1>16. /\ ~node'[Header].removed
         /\ \A n \in Existing : node[n].removed => node'[n].removed
    BY <1>1, <1>6, <1>10 DEF InOrder, Line, InLine, SameRemoved
  <1>17. QED
    BY <1>2, <1>3, <1>6, <1>8, <1>11, <1>12, <1>13, <1>14, <1>15, <1>16, OutsideStep
-----------------------------------------------------------------------------
(* The steps that set a flag.                                              *)

(* Take removes a node that nobody has locked.                             *)
LEMMA TakeStep ==
  ASSUME IInv, OneEach, NEW c \in Consumers, Take(c)
  PROVE  IInv'
  <1>1. Typed /\ Control /\ ControlOf(c) /\ Locks /\ InOrder /\ NodesTyped
    BY DEF IInv, Control, Typed
  <1>2. Local(c) /\ kind' = kind
    BY <1>1, LookupLocal DEF LookupStep, Local
  <1>3. /\ UNCHANGED <<tail, it, at, nx, seek, back>>
        /\ pc[c] = "take" /\ pc'[c] = "taken" /\ ~node[Nxt(c)].writing
        /\ node' = [node EXCEPT ![Nxt(c)].removed = TRUE]
    BY <1>1 DEF Take, Unlocked, LookupUnchanged, clearing, Go, Typed, PointersTyped
  <1>4. Ptr(c)' = Ptr(c) /\ Nxt(c)' = Nxt(c)
    BY <1>3 DEF Ptr, Nxt
  <1> HIDE DEF Ptr, Nxt
  <1>5. Nxt(c) \in Existing /\ Nxt(c) # Header
    BY <1>1, <1>3, Standing DEF ControlOf
  <1>6. /\ NodesTyped'
        /\ \A n \in Nodes : node'[n].removed <=> n = Nxt(c) \/ node[n].removed
        /\ SameNext /\ SameRemains /\ SameWriting /\ SameReaders /\ SameFreed
    BY <1>1, <1>2, <1>3, <1>5, SetRemoved
  <1>7. ControlOf(c)'
    BY <1>1, <1>3, <1>4 DEF ControlOf, ConsumerPCs, LeavePCs, LockPCs, SeekPCs, CutPCs, ReadPCs
  <1>8. /\ PtrSlot(c)' = PtrSlot(c) /\ NextSlot(c)' = NextSlot(c)
        /\ AtSlot(c)' = AtSlot(c) /\ NxSlot(c)' = NxSlot(c)
    BY <1>3, <1>4 DEF PtrSlot, NextSlot, AtSlot, NxSlot, CutPCs
  <1>9. \A n \in Existing : n \in Nodes
    BY <1>1, InNodes
  <1>10. \A n \in Existing : node'[n].remains + Own(c, n) = node[n].remains + Own(c, n)'
    BY <1>6, <1>8, <1>9 DEF Own, SameRemains
  <1>11. /\ pc[c] \notin SeekPCs \cup CutPCs /\ pc'[c] \notin SeekPCs \cup CutPCs
         /\ pc'[c] \notin LockPCs /\ pc'[c] # "enter"
    BY <1>3 DEF SeekPCs, CutPCs, LockPCs
  <1>12. Locks'
    <2>1. Existing' = Existing
      BY <1>2 DEF Existing
    <2>2. SameOthers(c)
      BY <1>1, <1>2, LocalOthers DEF Typed
    <2>3. \A d \in Consumers : pc'[d] \in LockPCs
            => d # c /\ pc[d] \in LockPCs /\ at'[d] = at[d] /\ at[d] \in Nodes
      BY <1>1, <1>9, <1>11, <2>2, Standing DEF SameOthers
    <2>4. \A n \in Existing : node'[n].writing => ~node'[n].removed /\ node'[n].readers = 0
      BY <1>1, <1>3, <1>6, <1>9 DEF Locks, SameWriting, SameReaders
    <2>5. QED
      BY <1>1, <1>6, <2>1, <2>3, <2>4 DEF Locks, SameWriting
  <1>13. DoomKept(c)
    <2>1. Doomed(c)' = Nil
      BY <1>3 DEF Doomed
    <2>2. QED
      BY <1>6, <1>9, <2>1 DEF DoomKept, SameRemains, SameFreed
  <1>14. \A n \in Nodes : node'[n].readers + One(ReadSlot(c), n)
                           = node[n].readers + One(ReadSlot(c)', n)
    BY <1>3, <1>6 DEF ReadSlot, ReadPCs, SameReaders
  <1>15. /\ ~node'[Header].removed
         /\ \A n \in Existing : node[n].removed => node'[n].removed
    BY <1>1, <1>5, <1>6, <1>9 DEF InOrder, Line, InLine
  <1>16. QED
    BY <1>2, <1>3, <1>6, <1>7, <1>10, <1>11, <1>12, <1>13, <1>14, <1>15, OutsideStep

(* LockForClear: with two remains and no readers the node is locked by     *)
(* this thread alone.                                                      *)
LEMMA LeaveLockStep ==
  ASSUME IInv, OneEach, NEW c \in Consumers, LeaveLock(c)
  PROVE  IInv'
  <1>1. Typed /\ Control /\ ControlOf(c) /\ Locks /\ InOrder /\ NodesTyped
    BY DEF IInv, Control, Typed
  <1>2. Local(c) /\ kind' = kind
    BY <1>1, LeaveLocal DEF LeaveStep, Local
  <1>3. /\ UNCHANGED <<tail, it, at, nx, seek, back>>
        /\ pc[c] = "leave" /\ at[c] # Nil /\ pc'[c] = "clear"
        /\ ~node[at[c]].removed /\ ~node[at[c]].writing
        /\ node[at[c]].readers = 0 /\ node[at[c]].remains = 2
    BY <1>1 DEF LeaveLock, LastToLeave, LeaveUnchanged, clearing, Go, Typed, PointersTyped
  <1>4. Ptr(c)' = Ptr(c) /\ Nxt(c)' = Nxt(c)
    BY <1>3 DEF Ptr, Nxt
  <1> HIDE DEF Ptr, Nxt
  <1>5. /\ NodesTyped' /\ at[c] \in Existing
        /\ \A n \in Nodes : node'[n].writing <=> n = at[c] \/ node[n].writing
        /\ \A n \in Nodes : node'[n].remains =
                              IF n = at[c] THEN node[n].remains - 1 ELSE node[n].remains
        /\ SameNext /\ SameRemoved /\ SameReaders /\ SameFreed
    BY <1>1, LeaveLockNode
  <1>6. ControlOf(c)'
    BY <1>1, <1>3, <1>4 DEF ControlOf, ConsumerPCs, LeavePCs, LockPCs, SeekPCs, CutPCs, ReadPCs
  <1>7. /\ PtrSlot(c)' = PtrSlot(c) /\ NextSlot(c)' = NextSlot(c)
        /\ AtSlot(c) = at[c] /\ AtSlot(c)' = Nil /\ NxSlot(c)' = NxSlot(c)
    BY <1>3, <1>4 DEF PtrSlot, NextSlot, AtSlot, NxSlot, CutPCs
  <1>8. \A n \in Existing : n \in Nodes /\ node[n].remains \in Nat
    BY <1>1, InNodes, FieldTypes DEF Typed
  <1>9. ASSUME NEW n \in Existing
        PROVE  node'[n].remains + Own(c, n) = node[n].remains + Own(c, n)'
    <2>1. One(Nil, n) = 0 /\ One(at[c], n) = IF n = at[c] THEN 1 ELSE 0
      BY <1>1, OneNil DEF One
    <2>2. Own(c, n)' \in Nat /\ Own(c, n) = Own(c, n)' + One(at[c], n)
      <3>1. /\ One(PtrSlot(c), n) \in Nat /\ One(NextSlot(c), n) \in Nat
            /\ One(NxSlot(c), n) \in Nat /\ One(at[c], n) \in Nat
        BY DEF One
      <3>2. QED
        BY <1>7, <2>1, <3>1 DEF Own
    <2>3. QED
      BY <1>5, <1>8, <2>1, <2>2
  <1>10. /\ pc[c] \notin SeekPCs \cup CutPCs /\ pc'[c] \notin SeekPCs \cup CutPCs
         /\ pc'[c] # "enter"
    BY <1>3 DEF SeekPCs, CutPCs
  <1>11. Locks'
    <2>1. Existing' = Existing
      BY <1>2 DEF Existing
    <2>2. SameOthers(c)
      BY <1>1, <1>2, LocalOthers DEF Typed
    <2>3. \A d \in Consumers : d # c /\ pc'[d] \in LockPCs
            => /\ pc[d] \in LockPCs /\ at'[d] = at[d] /\ at[d] \in Nodes
               /\ node[at[d]].writing
      BY <1>1, <1>8, <2>2, Standing DEF SameOthers, Locks
    <2>4. \A n \in Existing : node'[n].writing => ~node'[n].removed /\ node'[n].readers = 0
      BY <1>1, <1>3, <1>5, <1>8 DEF Locks, SameRemoved, SameReaders
    <2>5. \A d \in Consumers : pc'[d] \in LockPCs => node'[at'[d]].writing
      BY <1>3, <1>5, <1>8, <2>3
    <2>6. \A d \in Consumers : d # c /\ pc'[d] \in LockPCs => at'[d] # at'[c]
      BY <1>3, <2>3
    <2>7. QED
      BY <1>1, <2>1, <2>3, <2>4, <2>5, <2>6 DEF Locks
  <1>12. DoomKept(c)
    <2>1. Doomed(c)' = Nil
      BY <1>3 DEF Doomed
    <2>2. QED
      BY <1>3, <1>5, <1>8, <2>1 DEF DoomKept, SameRemoved, SameFreed
  <1>13. \A n \in Nodes : node'[n].readers + One(ReadSlot(c), n)
                           = node[n].readers + One(ReadSlot(c)', n)
    BY <1>3, <1>5 DEF ReadSlot, ReadPCs, SameReaders
  <1>14. /\ ~node'[Header].removed
         /\ \A n \in Existing : node[n].removed => node'[n].removed
    BY <1>1, <1>5, <1>8 DEF InOrder, Line, InLine, SameRemoved
  <1>15. QED
    BY <1>2, <1>3, <1>5, <1>6, <1>9, <1>10, <1>11, <1>12, <1>13, <1>14, OutsideStep

(* UnlockForClear: nobody else has the lock.                               *)
LEMMA ClearEndStep ==
  ASSUME IInv, OneEach, NEW c \in Consumers, ClearEnd(c)
  PROVE  IInv'
  <1>1. Typed /\ Control /\ ControlOf(c) /\ Locks /\ InOrder /\ NodesTyped
    BY DEF IInv, Control, Typed
  <1>2. Local(c) /\ kind' = kind
    BY <1>1, LeaveLocal DEF LeaveStep, Local
  <1>3. /\ UNCHANGED <<tail, it, at, back>>
        /\ pc[c] = "unlock" /\ pc'[c] = back[c]
    BY <1>1 DEF ClearEnd, LeaveUnchanged, Go, Typed, PointersTyped
  <1>4. Ptr(c)' = Ptr(c) /\ Nxt(c)' = Nxt(c)
    BY <1>3 DEF Ptr, Nxt
  <1> HIDE DEF Ptr, Nxt
  <1>5. /\ NodesTyped' /\ at[c] \in Existing
        /\ \A n \in Nodes : node'[n].writing <=> n # at[c] /\ node[n].writing
        /\ SameNext /\ SameRemoved /\ SameReaders /\ SameRemains /\ SameFreed
    BY <1>1, ClearEndNode
  <1>6. back[c] \in {"advance", "close", "reset"}
    BY <1>1, <1>3 DEF Typed, PointersTyped, ControlOf, LeavePCs, LockPCs
  <1>7. ControlOf(c)'
    BY <1>1, <1>3, <1>4, <1>6 DEF ControlOf, ConsumerPCs, LeavePCs, LockPCs, SeekPCs, CutPCs, ReadPCs
  <1>8. /\ PtrSlot(c)' = PtrSlot(c) /\ NextSlot(c)' = NextSlot(c)
        /\ AtSlot(c)' = AtSlot(c) /\ NxSlot(c)' = NxSlot(c)
    BY <1>3, <1>4, <1>6 DEF PtrSlot, NextSlot, AtSlot, NxSlot, CutPCs
  <1>9. \A n \in Existing : n \in Nodes
    BY <1>1, InNodes
  <1>10. \A n \in Existing : node'[n].remains + Own(c, n) = node[n].remains + Own(c, n)'
    BY <1>5, <1>8, <1>9 DEF Own, SameRemains
  <1>11. /\ pc[c] \notin SeekPCs \cup CutPCs /\ pc'[c] \notin SeekPCs \cup CutPCs
         /\ pc[c] \in LockPCs /\ pc'[c] \notin LockPCs /\ pc'[c] # "enter"
    BY <1>3, <1>6 DEF SeekPCs, CutPCs, LockPCs
  <1>12. Locks'
    <2>1. Existing' = Existing
      BY <1>2 DEF Existing
    <2>2. SameOthers(c)
      BY <1>1, <1>2, LocalOthers DEF Typed
    <2>3. \A d \in Consumers : pc'[d] \in LockPCs
            => /\ pc[d] \in LockPCs /\ at'[d] = at[d] /\ at[d] \in Nodes
               /\ node[at[d]].writing /\ at[d] # at[c]
      BY <1>1, <1>9, <1>11, <2>2, Standing DEF SameOthers, Locks
    <2>4. \A n \in Existing : node'[n].writing => ~node'[n].removed /\ node'[n].readers = 0
      BY <1>1, <1>5, <1>9 DEF Locks, SameRemoved, SameReaders
    <2>5. QED
      BY <1>1, <1>5, <2>1, <2>3, <2>4 DEF Locks
  <1>13. DoomKept(c)
    <2>1. Doomed(c)' = Nil
      BY <1>3, <1>6 DEF Doomed
    <2>2. QED
      BY <1>5, <1>9, <2>1 DEF DoomKept, SameRemoved, SameRemains, SameFreed
  <1>14. \A n \in Nodes : node'[n].readers + One(ReadSlot(c), n)
                           = node[n].readers + One(ReadSlot(c)', n)
    BY <1>3, <1>5, <1>6 DEF ReadSlot, ReadPCs, SameReaders
  <1>15. /\ ~node'[Header].removed
         /\ \A n \in Existing : node[n].removed => node'[n].removed
    BY <1>1, <1>5, <1>9 DEF InOrder, Line, InLine, SameRemoved
  <1>16. QED
    BY <1>2, <1>3, <1>5, <1>7, <1>10, <1>11, <1>12, <1>13, <1>14, <1>15, OutsideStep
-----------------------------------------------------------------------------
(* The chains of removed nodes that are being unlinked.                    *)

(* A node of the queue has references.                                     *)
LEMMA InQueueHeld ==
  ASSUME Typed, Exact, NEW Q, InLine(Q), NEW n \in Q
  PROVE  n \in Existing /\ n \in Nodes /\ node[n].remains > 0
  <1>1. n \in Existing /\ \A m \in Q : m \in Nodes
    BY InNodes DEF InLine
  <1>2. QED
    BY <1>1, Held DEF InLine

(* The links inside of a chain count.                                      *)
LEMMA ChainLink ==
  ASSUME Typed, Control, Locks, NEW Q, NEW K, Line(Q, K),
         NEW d \in Consumers, NEW m \in K[d],
         m # seek[d] \/ pc[d] \in SeekPCs
  PROVE  Link(m) = node[m].next
  <1>1. node[m].removed /\ ~node[m].freed
    BY DEF Line, Chain
  <1>2. ASSUME NEW e \in Consumers, pc[e] = "turn", seek[e] = m
        PROVE  FALSE
    <2>1. m \in K[e] /\ pc[e] \notin SeekPCs
      BY <1>2 DEF Line, Chain, CutPCs, SeekPCs
    <2>2. e = d
      BY <2>1 DEF Line
    <2>3. QED
      BY <1>2, <2>1, <2>2
  <1>3. \A e \in Consumers : pc[e] = "cutnext" => at[e] # m
    BY <1>1, Locked DEF LockPCs
  <1>4. QED
    BY <1>1, <1>2, <1>3 DEF Link, Hides

(* A node of a chain has references: the link of the one before, or the    *)
(* thread that has cut it off.                                             *)
LEMMA ChainHeld ==
  ASSUME Typed, Control, Exact, Locks, OneEach, NEW Q, NEW K, Line(Q, K),
         NEW d \in Consumers, NEW m \in K[d]
  PROVE  m \in Existing /\ node[m].remains > 0
  <1>1. m \in Existing /\ InLine(Q)
    BY DEF Line, Chain
  <1>2. CASE pc[d] \in SeekPCs
    BY <1>1, <1>2, InQueueHeld DEF Line, Chain
  <1>3. CASE pc[d] \in CutPCs /\ m = nx[d]
    <2>1. NxSlot(d) = m
      BY <1>3 DEF NxSlot
    <2>2. QED
      BY <1>1, <2>1, OwnHeld
  <1>4. CASE pc[d] \in CutPCs /\ m # nx[d]
    <2>1. PICK k \in K[d] \ {seek[d]} : node[k].next = m
      BY <1>4 DEF Line, Chain
    <2>2. Link(k) = m /\ k \in Nodes
      BY <2>1, ChainLink, InNodes DEF Line, Chain
    <2>3. QED
      BY <1>1, <2>2, Held
  <1>5. pc[d] \in SeekPCs \cup CutPCs
    BY DEF Line, Chain
  <1>6. QED
    BY <1>2, <1>3, <1>4, <1>5

(* Only the thread that has a chain in the queue, and the chain itself,    *)
(* lead to its nodes.                                                      *)
LEMMA Unclaimed ==
  ASSUME Typed, Control, Locks, NEW Q, NEW K, Line(Q, K),
         NEW d \in Consumers, NEW m \in Q, NEW n \in Q, Link(m) = n, n \in K[d]
  PROVE  pc[d] \in SeekPCs /\ (m = at[d] \/ (m \in K[d] /\ m # seek[d]))
  <1>1. pc[d] \in SeekPCs /\ K[d] \subseteq Q
    BY DEF Line, Chain
  <1>2. n # Nil
    BY InNodes DEF Line, InLine
  <1>3. CASE n = nx[d]
    <2>1. at[d] \in Q /\ Link(at[d]) = node[at[d]].next
      BY <1>1, Locked DEF SeekPCs, LockPCs
    <2>2. node[at[d]].next = n
      BY <1>1, <1>3 DEF Line, Chain
    <2>3. QED
      BY <1>1, <1>2, <2>1, <2>2 DEF Line, InLine
  <1>4. CASE n # nx[d]
    <2>1. PICK k \in K[d] \ {seek[d]} : node[k].next = n
      BY <1>1, <1>4 DEF Line, Chain
    <2>2. Link(k) = n /\ k \in Q
      BY <1>1, <2>1, ChainLink
    <2>3. QED
      BY <1>1, <1>2, <2>1, <2>2 DEF Line, InLine
  <1>5. QED
    BY <1>3, <1>4

(* A node without references is not in the queue or a chain, and has no    *)
(* readers.                                                                *)
LEMMA DoomedNode ==
  ASSUME IInv, OneEach, NEW Q, NEW K, Line(Q, K), NEW c \in Consumers, Doomed(c) # Nil
  PROVE  /\ Doomed(c) \in Existing /\ Doomed(c) \notin Q
         /\ node[Doomed(c)].removed /\ ~node[Doomed(c)].freed
         /\ node[Doomed(c)].remains = 0 /\ node[Doomed(c)].readers = 0
         /\ \A d \in Consumers : /\ Doomed(c) \notin K[d]
                                 /\ pc[d] \in LockPCs => at[d] # Doomed(c)
         /\ Link(Doomed(c)) = node[Doomed(c)].next
  <1> DEFINE n == Doomed(c)
  <1>1. Typed /\ Control /\ Exact /\ ReadersExact /\ Locks /\ Doom
    BY DEF IInv
  <1>2. n \in Existing
    BY <1>1, InNodes DEF Typed, PointersTyped, Doomed
  <1>3. node[n].remains = 0 /\ ~node[n].freed
    BY <1>1 DEF Doom
  <1> HIDE DEF n
  <1>4. n \notin Q
    BY <1>1, <1>3, InQueueHeld DEF Line
  <1>5. node[n].removed
    BY <1>2, <1>4 DEF Line, InLine
  <1>6. node[n].readers = 0
    <2>1. node[n].readers \in Nat
      BY <1>1, <1>2, InNodes, FieldTypes DEF Typed
    <2>2. QED
      BY <1>1, <1>2, <1>3, <2>1, ReaderHeld
  <1>7. \A d \in Consumers : n \notin K[d]
    BY <1>1, <1>3, ChainHeld
  <1>8. \A d \in Consumers : pc[d] \in LockPCs => at[d] # n
    BY <1>1, <1>5, Locked
  <1>9. \A d \in Consumers : pc[d] = "turn" => seek[d] # n
    BY <1>7 DEF Line, Chain, CutPCs
  <1>10. Link(n) = node[n].next
    BY <1>3, <1>8, <1>9 DEF Link, Hides, LockPCs
  <1>11. QED
    BY <1>2, <1>3, <1>4, <1>5, <1>6, <1>7, <1>8, <1>10 DEF n

(* A step of Leave or Clear keeps the invariant if it keeps the counts,    *)
(* the locks and the order of the queue.                                   *)
LEMMA ClearingStep ==
  ASSUME IInv, OneEach, NEW c \in Consumers, Local(c), NodesTyped', ControlOf(c)', Locks',
         InOrder', DoomKept(c), SameReaders, pc[c] \notin ReadPCs, pc'[c] \notin ReadPCs,
         \A n \in Existing :
           /\ node'[n].remains + Own(c, n) + Count(Links, n)
                = node[n].remains + Own(c, n)' + Count(Links', n)
           /\ node[n].readers > 0 /\ node[n].next # Nil => node'[n].next = node[n].next
  PROVE  IInv'
  <1>1. /\ Typed /\ Control /\ Exact /\ ReadersExact /\ Locks /\ Doom /\ Entering
        /\ PointersTyped /\ NodesTyped
    BY DEF IInv, Typed
  <1>2. SameOthers(c) /\ PointersTyped'
    BY <1>1, LocalOthers
  <1>3. Typed'
    BY <1>2 DEF Typed
  <1>4. Control'
    BY <1>1, <1>2, ControlFrame
  <1>5. \A n \in Existing : n \in Nodes
    BY <1>1, InNodes
  <1>6. Exact'
    BY <1>1, <1>2, <1>5, ExactFrame
  <1>7. ReadersExact'
    <2>1. ReadSlot(c) = Nil /\ ReadSlot(c)' = Nil
      BY DEF ReadSlot
    <2>2. \A n \in Nodes : node'[n].readers + One(ReadSlot(c), n)
                           = node[n].readers + One(ReadSlot(c)', n)
      BY <2>1 DEF SameReaders
    <2>3. QED
      BY <1>1, <1>2, <2>2, ReadersFrame
  <1>8. Doom'
    BY <1>1, <1>2, DoomFrame
  <1>9. Entering'
    <2>1. pc'[c] # "enter"
      BY DEF ReadPCs
    <2>2. (pc[c] = "enter" /\ Nxt(c) # Nil => node[Ptr(c)].next = Nxt(c))'
      BY <2>1
    <2>3. QED
      BY <1>1, <1>2, <2>2, EnteringFrame
  <1>10. QED
    BY <1>3, <1>4, <1>6, <1>7, <1>8, <1>9 DEF IInv

(* The queue and the chains after a step of c: R and S in place of Q and   *)
(* K[c].                                                                   *)
NextLine(c, K, R, S) ==
  /\ InLine(R)' /\ Chain(c, R, S)'
  /\ \A d \in Consumers : d # c => Chain(d, R, K[d])' /\ K[d] \cap S = {}

(* A new queue and a new chain of c are a new order.                       *)
LEMMA LineFrom ==
  ASSUME NEW c \in Consumers, kind' = kind, NEW Q, NEW K \in [Consumers -> SUBSET Existing],
         Line(Q, K), NEW R \in SUBSET Existing, NEW S \in SUBSET Existing,
         NextLine(c, K, R, S)
  PROVE  InOrder'
  <1> DEFINE L == [K EXCEPT ![c] = S]
  <1>1. Existing' = Existing
    BY DEF Existing
  <1>2. L \in [Consumers -> SUBSET Existing] /\ L[c] = S
        /\ \A d \in Consumers : d # c => L[d] = K[d]
    OBVIOUS
  <1> HIDE DEF L
  <1>3. \A d \in Consumers : Chain(d, R, L[d])'
    BY <1>2 DEF NextLine
  <1>4. \A d, e \in Consumers : d # e => L[d] \cap L[e] = {}
    BY <1>2 DEF Line, NextLine
  <1>5. Line(R, L)'
    BY <1>3, <1>4 DEF Line, NextLine
  <1>6. QED
    BY <1>1, <1>2, <1>5 DEF InOrder

(* The references by links when one link changes.                          *)
LEMMA LinkMoved ==
  ASSUME NEW x \in Nodes, \A m \in Nodes : m # x => Link(m)' = Link(m), NEW n
  PROVE  Count(Links', n) + One(Link(x), n) = Count(Links, n) + One(Link(x)', n)
  <1>1. /\ DOMAIN Links = Nodes /\ DOMAIN Links' = Nodes
        /\ Links[x] = Link(x) /\ Links'[x] = Link(x)'
        /\ \A m \in Nodes : m # x => Links'[m] = Links[m]
    BY DEF Links
  <1>2. QED
    BY <1>1, Finite, CountMove

(* Clear starts a chain with the first removed node, which is in no other. *)
LEMMA ClearBeginStep ==
  ASSUME IInv, OneEach, NEW c \in Consumers, ClearBegin(c), IsRemoved(node[at[c]].next)
  PROVE  IInv'
  <1>0. PICK n : n = node[at[c]].next
    OBVIOUS
  <1>1. Typed /\ Control /\ ControlOf(c) /\ Locks /\ InOrder /\ Exact
    BY DEF IInv, Control
  <1>2. Local(c) /\ SameOthers(c) /\ kind' = kind
    BY <1>1, LeaveLocal, LocalOthers DEF LeaveStep, Local, Typed
  <1>3. /\ UNCHANGED <<node, tail, it, at, back>>
        /\ pc[c] = "clear" /\ pc'[c] = "seek" /\ nx'[c] = n /\ seek'[c] = n
        /\ n # Nil /\ node[n].removed
    BY <1>0, <1>1 DEF ClearBegin, IsRemoved, LeaveUnchanged, clearing, Go, Typed, PointersTyped
  <1>4. /\ NodesTyped' /\ SameNext /\ SameFreed /\ SameRemoved /\ SameWriting
        /\ SameReaders /\ SameRemains
    BY <1>1, <1>2, <1>3, SameNode
  <1>5. Ptr(c)' = Ptr(c) /\ Nxt(c)' = Nxt(c)
    BY <1>3 DEF Ptr, Nxt
  <1> HIDE DEF Ptr, Nxt
  <1>6. ControlOf(c)'
    BY <1>1, <1>3, <1>5 DEF ControlOf, ConsumerPCs, LeavePCs, LockPCs, SeekPCs, CutPCs, ReadPCs
  <1>7. pc[c] \in LockPCs /\ pc[c] \notin ReadPCs /\ pc'[c] \notin ReadPCs
    BY <1>3 DEF LockPCs, ReadPCs
  <1>8. Locks'
    BY <1>1, <1>2, <1>3, <1>4, <1>7, LocksFrame
  <1>9. \A m \in Nodes : Link(m)' = Link(m)
    <2>1. \A m \in Nodes : Hides(c, m) = FALSE /\ Hides(c, m)' = FALSE
      BY <1>3 DEF Hides
    <2>2. QED
      BY <1>2, <1>4, <2>1, LinkStays DEF SameNext, SameFreed
  <1>10. InOrder'
    <2>1. PICK Q \in SUBSET Existing, K \in [Consumers -> SUBSET Existing] : Line(Q, K)
      BY <1>1 DEF InOrder
    <2>2. at[c] \in Q /\ Link(at[c]) = n /\ ~node[at[c]].removed
          /\ \A d \in Consumers : at[c] \notin K[d]
      BY <1>0, <1>1, <1>3, <1>7, <2>1, Locked
    <2>3. n \in Q /\ n \in Existing /\ ~node[n].freed /\ at[c] < n
      BY <1>3, <2>1, <2>2 DEF Line, InLine
    <2>4. InLine(Q)'
      <3>1. \A m \in Q : Link(m)' = Link(m)
        BY <1>1, <1>9, InNodes
      <3>2. QED
        BY <1>1, <1>2, <1>3, <2>1, <3>1, InLineFrame DEF Line, InLine
    <2>5. Chain(c, Q, {n})'
      <3>1. Existing' = Existing
        BY <1>2 DEF Existing
      <3>2. QED
        BY <1>0, <1>3, <2>3, <3>1 DEF Chain, SeekPCs, CutPCs
    <2>6. ASSUME NEW d \in Consumers, d # c
          PROVE  Chain(d, Q, K[d])' /\ K[d] \cap {n} = {}
      <3>1. n \notin K[d]
        <4> SUFFICES ASSUME n \in K[d]
                     PROVE  FALSE
          OBVIOUS
        <4>1. pc[d] \in LockPCs /\ at[c] = at[d]
          BY <1>1, <2>1, <2>2, <2>3, Unclaimed DEF SeekPCs, LockPCs
        <4>2. QED
          BY <1>1, <1>7, <2>6, <4>1 DEF Locks
      <3>2. Chain(d, Q, K[d])
        BY <2>1 DEF Line
      <3>3. /\ pc'[d] = pc[d] /\ at'[d] = at[d] /\ nx'[d] = nx[d] /\ seek'[d] = seek[d]
        BY <1>2, <2>6 DEF SameOthers
      <3>4. \A m \in K[d] : /\ node'[m].removed /\ ~node'[m].freed
                           /\ node'[m].next = node[m].next
        BY <1>3, <3>2 DEF Chain
      <3>5. node'[at[d]].next = node[at[d]].next
        BY <1>3
      <3>6. /\ pc[d] \in SeekPCs => K[d] \subseteq Q
            /\ pc[d] \in CutPCs => K[d] \cap Q = {}
        BY <3>2 DEF Chain
      <3>7. QED
        BY <1>2, <3>1, <3>2, <3>3, <3>4, <3>5, <3>6, ChainFrame
    <2>7. {n} \in SUBSET Existing /\ NextLine(c, K, Q, {n})
      BY <2>3, <2>4, <2>5, <2>6 DEF NextLine
    <2>8. QED
      BY <1>2, <2>1, <2>7, LineFrom
  <1>11. DoomKept(c)
    <2>1. Doomed(c)' = Nil
      BY <1>3 DEF Doomed
    <2>2. \A m \in Existing : node'[m] = node[m]
      BY <1>3
    <2>3. QED
      BY <2>1, <2>2 DEF DoomKept
  <1>12. \A m \in Existing : Own(c, m)' = Own(c, m)
    BY <1>3, <1>5 DEF Own, PtrSlot, NextSlot, AtSlot, NxSlot, CutPCs
  <1>13. Links' = Links
    BY <1>9 DEF Links
  <1>14. \A m \in Existing : node'[m].remains + Own(c, m) + Count(Links, m)
                              = node[m].remains + Own(c, m)' + Count(Links', m)
    BY <1>3, <1>12, <1>13
  <1>15. \A m \in Existing : node[m].readers > 0 /\ node[m].next # Nil
                              => node'[m].next = node[m].next
    BY <1>3
  <1>16. QED
    BY <1>2, <1>4, <1>6, <1>7, <1>8, <1>10, <1>11, <1>14, <1>15, ClearingStep

(* A step changes at most node x, apart from its counts.                   *)
ElsewhereKept(x) ==
  \A n \in Nodes : n # x => /\ node'[n].next = node[n].next
                            /\ node[n].removed => node'[n].removed
                            /\ node'[n].freed => node[n].freed

(* The chains of the others stay when a node outside of them changes.      *)
LEMMA OtherChain ==
  ASSUME Typed, Control, NEW Q, NEW K, Line(Q, K), NEW c \in Consumers,
         NEW d \in Consumers, d # c, SameOthers(c), NEW R, R = Q \/ R = Q \ K[c],
         NEW x, x \notin K[d], pc[d] \in LockPCs => at[d] # x,
         ElsewhereKept(x)
  PROVE  Chain(d, R, K[d])'
  <1>1. Chain(d, Q, K[d])
    BY DEF Line
  <1>2. /\ pc'[d] = pc[d] /\ at'[d] = at[d] /\ nx'[d] = nx[d] /\ seek'[d] = seek[d]
        /\ kind' = kind
    BY DEF SameOthers
  <1>3. \A m \in K[d] : m \in Nodes /\ m # x
    BY <1>1, InNodes DEF Chain
  <1>4. \A m \in K[d] : /\ node'[m].removed /\ ~node'[m].freed
                       /\ node'[m].next = node[m].next
    BY <1>1, <1>3 DEF Chain, ElsewhereKept
  <1>5. pc[d] \in SeekPCs \cup {"turn"} => node'[at[d]].next = node[at[d]].next
    <2>1. pc[d] \in SeekPCs \cup {"turn"} => at[d] \in Nodes /\ at[d] # x
      BY InNodes, Standing DEF SeekPCs, LockPCs
    <2>2. QED
      BY <2>1 DEF ElsewhereKept
  <1>6. /\ pc[d] \in SeekPCs => K[d] \subseteq R
        /\ pc[d] \in CutPCs => K[d] \cap R = {}
    BY <1>1 DEF Chain, Line
  <1>7. QED
    BY <1>1, <1>2, <1>4, <1>5, <1>6, ChainFrame

(* The last of the removed nodes is found, or it is not the tail.          *)
LEMMA SeekOnStep ==
  ASSUME IInv, OneEach, NEW c \in Consumers,
         \/ ClearSeek(c) /\ ~IsRemoved(node[seek[c]].next)
         \/ ClearTail(c) /\ tail # seek[c]
  PROVE  IInv'
  <1>1. Typed /\ Control /\ ControlOf(c) /\ Locks /\ InOrder /\ Exact
    BY DEF IInv, Control
  <1>2. Local(c) /\ SameOthers(c) /\ kind' = kind
    BY <1>1, LeaveLocal, LocalOthers DEF LeaveStep, Local, Typed
  <1>3. /\ UNCHANGED <<node, tail, it, at, nx, seek, back>>
        /\ \/ pc[c] = "seek" /\ pc'[c] = "cut"
           \/ pc[c] = "cut" /\ pc'[c] = "cutlink"
    <2>1. c \in DOMAIN pc
      BY <1>1 DEF Typed, PointersTyped
    <2> USE DEF Go, LeaveUnchanged, clearing
    <2>2. CASE ClearSeek(c) /\ ~IsRemoved(node[seek[c]].next)
      BY <2>1, <2>2 DEF ClearSeek
    <2>3. CASE ClearTail(c) /\ tail # seek[c]
      BY <2>1, <2>3 DEF ClearTail
    <2>4. QED
      BY <2>2, <2>3
  <1>4. /\ NodesTyped' /\ SameNext /\ SameFreed /\ SameRemoved /\ SameWriting
        /\ SameReaders /\ SameRemains
    BY <1>1, <1>2, <1>3, SameNode
  <1>5. Ptr(c)' = Ptr(c) /\ Nxt(c)' = Nxt(c)
    BY <1>3 DEF Ptr, Nxt
  <1> HIDE DEF Ptr, Nxt
  <1>6. ControlOf(c)'
    BY <1>1, <1>3, <1>5
    DEF ControlOf, ConsumerPCs, LeavePCs, LockPCs, SeekPCs, CutPCs, ReadPCs
  <1>7. pc[c] \in LockPCs /\ pc[c] \notin ReadPCs /\ pc'[c] \notin ReadPCs
    BY <1>3 DEF LockPCs, ReadPCs
  <1>8. Locks'
    BY <1>1, <1>2, <1>3, <1>4, <1>7, LocksFrame
  <1>9. \A m \in Nodes : Link(m)' = Link(m)
    <2>1. \A m \in Nodes : Hides(c, m) = FALSE /\ Hides(c, m)' = FALSE
      BY <1>3 DEF Hides
    <2>2. QED
      BY <1>2, <1>4, <2>1, LinkStays DEF SameNext, SameFreed
  <1>10. InOrder'
    <2>1. PICK Q \in SUBSET Existing, K \in [Consumers -> SUBSET Existing] : Line(Q, K)
      BY <1>1 DEF InOrder
    <2>2. Chain(c, Q, K[c]) /\ pc[c] \in SeekPCs /\ pc[c] \notin CutPCs
      BY <1>3, <2>1 DEF Line, SeekPCs, CutPCs
    <2>3. InLine(Q)'
      <3>1. \A m \in Q : Link(m)' = Link(m)
        BY <1>1, <1>9, InNodes
      <3>2. QED
        BY <1>1, <1>2, <1>3, <2>1, <3>1, InLineFrame DEF Line, InLine
    <2>4. Existing' = Existing
      BY <1>2 DEF Existing
    <2>5. Chain(c, Q, K[c])'
      BY <1>3, <2>2, <2>4 DEF Chain, SeekPCs, CutPCs
    <2>6. \A d \in Consumers : d # c => Chain(d, Q, K[d])' /\ K[d] \cap K[c] = {}
      <3> SUFFICES ASSUME NEW d \in Consumers, d # c
                   PROVE  Chain(d, Q, K[d])' /\ K[d] \cap K[c] = {}
        OBVIOUS
      <3>1. K[d] \cap K[c] = {}
        BY <2>1 DEF Line
      <3>2. Nil \notin K[d] /\ (pc[d] \in LockPCs => at[d] # Nil) /\ ElsewhereKept(Nil)
        BY <1>1, <1>3, InNodes, Standing DEF ElsewhereKept
      <3>3. Chain(d, Q, K[d])'
        BY <1>1, <1>2, <1>3, <2>1, <3>2, OtherChain
      <3>4. QED
        BY <3>1, <3>3
    <2>7. NextLine(c, K, Q, K[c]) /\ K[c] \in SUBSET Existing
      BY <2>1, <2>3, <2>5, <2>6 DEF NextLine
    <2>8. QED
      BY <1>2, <2>1, <2>7, LineFrom
  <1>11. DoomKept(c)
    <2>1. Doomed(c)' = Nil
      BY <1>3 DEF Doomed
    <2>2. \A m \in Existing : node'[m] = node[m]
      BY <1>3
    <2>3. QED
      BY <2>1, <2>2 DEF DoomKept
  <1>12. \A m \in Existing : Own(c, m)' = Own(c, m)
    BY <1>3, <1>5 DEF Own, PtrSlot, NextSlot, AtSlot, NxSlot, CutPCs
  <1>13. Links' = Links
    BY <1>9 DEF Links
  <1>14. \A m \in Existing : node'[m].remains + Own(c, m) + Count(Links, m)
                              = node[m].remains + Own(c, m)' + Count(Links', m)
    BY <1>3, <1>12, <1>13
  <1>15. \A m \in Existing : node[m].readers > 0 /\ node[m].next # Nil
                              => node'[m].next = node[m].next
    BY <1>3
  <1>16. QED
    BY <1>2, <1>4, <1>6, <1>7, <1>8, <1>10, <1>11, <1>14, <1>15, ClearingStep

(* Clear adds the next removed node to its chain, which is in no other.    *)
LEMMA ClearSeekStep ==
  ASSUME IInv, OneEach, NEW c \in Consumers, ClearSeek(c), IsRemoved(node[seek[c]].next)
  PROVE  IInv'
  <1>0. PICK n : n = node[seek[c]].next
    OBVIOUS
  <1>1. Typed /\ Control /\ ControlOf(c) /\ Locks /\ InOrder /\ Exact
    BY DEF IInv, Control
  <1>2. Local(c) /\ SameOthers(c) /\ kind' = kind
    BY <1>1, LeaveLocal, LocalOthers DEF LeaveStep, Local, Typed
  <1>3. /\ UNCHANGED <<node, tail, it, at, back, nx>>
        /\ pc[c] = "seek" /\ pc'[c] = "seek" /\ seek'[c] = n
        /\ n # Nil /\ node[n].removed
    BY <1>0, <1>1 DEF ClearSeek, IsRemoved, LeaveUnchanged, clearing, Go, Typed, PointersTyped
  <1>4. /\ NodesTyped' /\ SameNext /\ SameFreed /\ SameRemoved /\ SameWriting
        /\ SameReaders /\ SameRemains
    BY <1>1, <1>2, <1>3, SameNode
  <1>5. Ptr(c)' = Ptr(c) /\ Nxt(c)' = Nxt(c)
    BY <1>3 DEF Ptr, Nxt
  <1> HIDE DEF Ptr, Nxt
  <1>6. ControlOf(c)'
    BY <1>1, <1>3, <1>5
    DEF ControlOf, ConsumerPCs, LeavePCs, LockPCs, SeekPCs, CutPCs, ReadPCs
  <1>7. pc[c] \in LockPCs /\ pc[c] \notin ReadPCs /\ pc'[c] \notin ReadPCs
    BY <1>3 DEF LockPCs, ReadPCs
  <1>8. Locks'
    BY <1>1, <1>2, <1>3, <1>4, <1>7, LocksFrame
  <1>9. \A m \in Nodes : Link(m)' = Link(m)
    <2>1. \A m \in Nodes : Hides(c, m) = FALSE /\ Hides(c, m)' = FALSE
      BY <1>3 DEF Hides
    <2>2. QED
      BY <1>2, <1>4, <2>1, LinkStays DEF SameNext, SameFreed
  <1>10. InOrder'
    <2>1. PICK Q \in SUBSET Existing, K \in [Consumers -> SUBSET Existing] : Line(Q, K)
      BY <1>1 DEF InOrder
    <2>2. /\ Chain(c, Q, K[c]) /\ pc[c] \in SeekPCs /\ pc[c] \notin CutPCs
          /\ nx[c] \in K[c] /\ seek[c] \in K[c] /\ K[c] \subseteq Q
          /\ Link(seek[c]) = n
      BY <1>0, <1>1, <1>3, <2>1, ChainLink DEF Line, Chain, SeekPCs, CutPCs
    <2>3. InLine(Q)'
      <3>1. \A m \in Q : Link(m)' = Link(m)
        BY <1>1, <1>9, InNodes
      <3>2. QED
        BY <1>1, <1>2, <1>3, <2>1, <3>1, InLineFrame DEF Line, InLine
    <2>4. n \in Q /\ n \in Existing /\ ~node[n].freed
          /\ \A d \in Consumers : n \notin K[d]
      <3>1. n \in Q /\ n \in Existing /\ ~node[n].freed
        BY <1>3, <2>1, <2>2 DEF Line, InLine
      <3>2. ASSUME NEW d \in Consumers, n \in K[d]
            PROVE  FALSE
        <4>1. /\ pc[d] \in LockPCs
              /\ seek[c] = at[d] \/ (seek[c] \in K[d] /\ seek[c] # seek[d])
          BY <1>1, <2>1, <2>2, <3>1, <3>2, Unclaimed DEF SeekPCs, LockPCs
        <4>2. seek[c] # at[d]
          BY <1>1, <2>1, <2>2, <4>1, Locked
        <4>3. QED
          BY <2>1, <2>2, <4>1, <4>2 DEF Line
      <3>3. QED
        BY <3>1, <3>2
    <2>11. \A m \in K[c] \cup {n} : at[c] < m
      <3>1. seek[c] < n /\ at[c] < seek[c] /\ \A m \in K[c] : at[c] < m
        BY <1>3, <2>1, <2>2 DEF Line, InLine, Chain
      <3>2. at[c] \in Int /\ seek[c] \in Int /\ n \in Int
        <4>1. at[c] \in Known /\ seek[c] \in Known /\ n \in Known
          BY <1>1, <2>4 DEF Typed, PointersTyped, Known
        <4>2. Known \subseteq Int
          BY DEF Known, Existing, Nil
        <4>3. QED
          BY <4>1, <4>2
      <3>3. QED
        BY <3>1, <3>2
    <2>5. Existing' = Existing
      BY <1>2 DEF Existing
    <2>6. Chain(c, Q, K[c] \cup {n})'
      <3>1. /\ nx'[c] = nx[c] /\ seek'[c] = n /\ pc'[c] = "seek" /\ at'[c] = at[c]
            /\ node' = node /\ n \notin K[c]
        BY <1>3, <2>4
      <3>2. \A m \in K[c] : node[m].next \in K[c] \cup {n}
        BY <1>0, <2>2 DEF Chain
      <3>3. \A k \in K[c] \ {nx[c]} : \E m \in K[c] : node[m].next = k
        BY <2>2 DEF Chain
      <3>4. \E m \in K[c] : node[m].next = n
        BY <1>0, <2>2
      <3> DEFINE T == K[c] \cup {n}
      <3>5. /\ T \subseteq Existing /\ nx[c] \in T /\ n \in T /\ T \subseteq Q
            /\ \A m \in T : node[m].removed /\ ~node[m].freed
            /\ node[at[c]].next = nx[c] /\ \A m \in T : at[c] < m
        BY <1>3, <2>1, <2>2, <2>4, <2>11 DEF Chain
      <3>6. \A m \in T \ {n} : node[m].next \in T
        BY <3>2
      <3>7. \A k \in T \ {nx[c]} : \E m \in T \ {n} : node[m].next = k
        BY <3>1, <3>3, <3>4
      <3> HIDE DEF T
      <3>8. Chain(c, Q, T)'
        BY <2>5, <3>1, <3>5, <3>6, <3>7 DEF Chain, SeekPCs, CutPCs
      <3>9. QED
        BY <3>8 DEF T
    <2>7. \A d \in Consumers : d # c =>
            Chain(d, Q, K[d])' /\ K[d] \cap (K[c] \cup {n}) = {}
      <3> SUFFICES ASSUME NEW d \in Consumers, d # c
                   PROVE  Chain(d, Q, K[d])' /\ K[d] \cap (K[c] \cup {n}) = {}
        OBVIOUS
      <3>1. n \notin K[d] /\ K[d] \cap K[c] = {}
        BY <2>1, <2>4 DEF Line
      <3>2. Nil \notin K[d] /\ (pc[d] \in LockPCs => at[d] # Nil) /\ ElsewhereKept(Nil)
        BY <1>1, <1>3, InNodes, Standing DEF ElsewhereKept
      <3>3. Chain(d, Q, K[d])'
        BY <1>1, <1>2, <1>3, <2>1, <3>2, OtherChain
      <3>4. QED
        BY <3>1, <3>3
    <2>8. K[c] \cup {n} \in SUBSET Existing
      BY <2>1, <2>4
    <2>9. NextLine(c, K, Q, K[c] \cup {n})
      BY <2>3, <2>6, <2>7 DEF NextLine
    <2>10. QED
      BY <1>2, <2>1, <2>8, <2>9, LineFrom
  <1>11. DoomKept(c)
    <2>1. Doomed(c)' = Nil
      BY <1>3 DEF Doomed
    <2>2. \A m \in Existing : node'[m] = node[m]
      BY <1>3
    <2>3. QED
      BY <2>1, <2>2 DEF DoomKept
  <1>12. \A m \in Existing : Own(c, m)' = Own(c, m)
    BY <1>3, <1>5 DEF Own, PtrSlot, NextSlot, AtSlot, NxSlot, CutPCs
  <1>13. Links' = Links
    BY <1>9 DEF Links
  <1>14. \A m \in Existing : node'[m].remains + Own(c, m) + Count(Links, m)
                              = node[m].remains + Own(c, m)' + Count(Links', m)
    BY <1>3, <1>12, <1>13
  <1>15. \A m \in Existing : node[m].readers > 0 /\ node[m].next # Nil
                              => node'[m].next = node[m].next
    BY <1>3
  <1>16. QED
    BY <1>2, <1>4, <1>6, <1>7, <1>8, <1>10, <1>11, <1>14, <1>15, ClearingStep

(* A chain that can be unlinked: only the locked node leads to it, and no  *)
(* producer is about to link something in it.                              *)
LEMMA CutOff ==
  ASSUME Typed, Control, Locks, NEW Q, NEW K, Line(Q, K),
         NEW c \in Consumers, pc[c] \in SeekPCs,
         tail = seek[c] \/ node[seek[c]].next # Nil
  PROVE  /\ K[c] \subseteq Q /\ nx[c] \in K[c] /\ seek[c] \in K[c] /\ nx[c] # Nil
         /\ at[c] \in Q /\ at[c] \notin K[c] /\ Header \notin K[c]
         /\ \A m \in K[c] : Link(m) = node[m].next
         /\ Link(at[c]) = nx[c] /\ Link(seek[c]) \notin K[c]
         /\ \A m \in Q : Link(m) \in K[c] <=> m = at[c] \/ (m \in K[c] /\ m # seek[c])
         /\ \A p \in Producers : pc[p] = "link" =>
              /\ old[p] \notin K[c] /\ old[p] # at[c] /\ mine[p] \notin K[c]
  <1>1. InLine(Q) /\ Chain(c, Q, K[c])
    BY DEF Line
  <1>2. K[c] \subseteq Q /\ nx[c] \in K[c] /\ seek[c] \in K[c] /\ nx[c] # Nil
    BY <1>1, InNodes DEF Chain
  <1>3. at[c] \in Q /\ at[c] \notin K[c] /\ Link(at[c]) = nx[c]
    BY <1>1, Locked DEF SeekPCs, LockPCs, Chain
  <1>4. Header \notin K[c]
    BY <1>1 DEF InLine, Chain
  <1>5. \A m \in K[c] : Link(m) = node[m].next
    BY ChainLink
  <1>6. \A m \in K[c] : m # seek[c] => Link(m) \in K[c] /\ Link(m) # Nil
    BY <1>1, <1>2, <1>5, InNodes DEF Chain
  <1>7. \A m \in Q : Link(m) \in K[c] => m = at[c] \/ (m \in K[c] /\ m # seek[c])
    <2> SUFFICES ASSUME NEW m \in Q, Link(m) \in K[c]
                 PROVE  m = at[c] \/ (m \in K[c] /\ m # seek[c])
      OBVIOUS
    <2>1. Link(m) \in Q
      BY <1>2
    <2>2. QED
      BY <2>1, Unclaimed
  <1>8. Link(seek[c]) \notin K[c]
    BY <1>2, <1>3, <1>7
  <1>9. ASSUME NEW p \in Producers, pc[p] = "link"
        PROVE  old[p] \notin K[c] /\ old[p] # at[c] /\ mine[p] \notin K[c]
    <2>1. Link(old[p]) = Nil /\ old[p] # tail
      BY <1>1, <1>9 DEF InLine
    <2>2. old[p] # at[c]
      BY <1>2, <1>3, <2>1
    <2>3. old[p] \notin K[c]
      BY <1>2, <1>5, <1>6, <2>1
    <2>4. mine[p] \notin K[c]
      <3>1. \A m \in Q : Link(m) # mine[p]
        BY <1>1, <1>9 DEF InLine
      <3>2. \A n \in K[c] : \E m \in Q : Link(m) = n
        <4> SUFFICES ASSUME NEW n \in K[c]
                     PROVE  \E m \in Q : Link(m) = n
          OBVIOUS
        <4>1. CASE n = nx[c]
          BY <1>3, <4>1
        <4>2. CASE n # nx[c]
          BY <1>1, <1>2, <1>5, <4>2 DEF Chain
        <4>3. QED
          BY <4>1, <4>2
      <3>3. QED
        BY <3>1, <3>2
    <2>5. QED
      BY <2>2, <2>3, <2>4
  <1>10. QED
    BY <1>2, <1>3, <1>4, <1>5, <1>6, <1>7, <1>8, <1>9

(* The queue without the chain, the locked node linked past it, is a       *)
(* queue.                                                                  *)
LEMMA CutLine ==
  ASSUME Typed, Control, Locks, NEW Q, NEW K, Line(Q, K),
         NEW c \in Consumers, SameOthers(c), pc[c] \in SeekPCs,
         tail = seek[c] \/ node[seek[c]].next # Nil,
         NEW a, a = at[c],
         tail' = IF tail = seek[c] THEN a ELSE tail,
         \A n \in Nodes : /\ node'[n].removed <=> node[n].removed
                          /\ node'[n].freed <=> node[n].freed,
         \A m \in Q \ K[c] : m # a => Link(m)' = Link(m),
         Link(a)' = Link(seek[c])
  PROVE  InLine(Q \ K[c])'
  <1>1. InLine(Q) /\ \A m \in Q : m \in Existing /\ m \in Nodes /\ m # Nil
    BY InNodes DEF Line, InLine
  <1>2. /\ K[c] \subseteq Q /\ nx[c] \in K[c] /\ seek[c] \in K[c] /\ nx[c] # Nil
        /\ a \in Q /\ a \notin K[c] /\ Header \notin K[c]
        /\ Link(a) = nx[c] /\ Link(seek[c]) \notin K[c]
    BY CutOff
  <1>3. \A m \in Q : Link(m) \in K[c] <=> m = a \/ (m \in K[c] /\ m # seek[c])
    BY CutOff
  <1>4. \A p \in Producers : pc[p] = "link" =>
           old[p] \notin K[c] /\ old[p] # a /\ mine[p] \notin K[c]
    BY CutOff
  <1>5. \A p \in Producers : pc'[p] = pc[p] /\ old'[p] = old[p] /\ mine'[p] = mine[p]
    BY DEF SameOthers
  <1>6. Existing' = Existing
    BY DEF SameOthers, Existing
  <1>7. PICK R : \A m : m \in R <=> m \in Q /\ m \notin K[c]
    <2>1. \A m : m \in Q \ K[c] <=> m \in Q /\ m \notin K[c]
      OBVIOUS
    <2>2. QED
      BY <2>1
  <1>8. R = Q \ K[c]
    BY <1>7
  <1>9. R \subseteq Existing /\ Header \in R /\ ~node'[Header].removed
    BY <1>1, <1>2, <1>7 DEF InLine
  <1>10. /\ tail = seek[c] => tail' = a /\ Link(a)' = Nil
         /\ tail # seek[c] => tail' = tail /\ tail \notin K[c] /\ tail # a
    BY <1>1, <1>2, <1>3 DEF InLine
  <1>11. tail' \in R /\ Link(tail)' = Nil
    <2>1. CASE tail = seek[c]
      BY <1>7, <1>10, <1>2, <2>1
    <2>2. CASE tail # seek[c]
      <3>1. tail \in Q /\ Link(tail) = Nil /\ tail' = tail
        BY <1>1, <1>10, <2>2 DEF InLine
      <3>2. PICK m : m = tail
        OBVIOUS
      <3>3. m \in R /\ Link(m)' = Nil /\ tail' = m
        BY <1>1, <1>7, <1>10, <2>2, <3>1, <3>2
      <3>4. QED
        BY <3>3
    <2>3. QED
      BY <2>1, <2>2
  <1>12. \A n \in R : ~node'[n].freed
    BY <1>1, <1>7 DEF InLine
  <1>13. \A n \in Existing \ R : node'[n].removed
    <2>1. \A n \in K[c] : node[n].removed
      BY DEF Line, Chain
    <2>2. QED
      BY <1>1, <1>2, <1>7, <2>1, InNodes DEF InLine
  <1>14. \A p \in Producers : pc[p] = "link" =>
           /\ old[p] \in R /\ mine[p] \in R /\ mine[p] # Header
           /\ Link(old[p])' = Nil /\ old[p] # tail' /\ old[p] < mine[p]
    <2> SUFFICES ASSUME NEW p \in Producers, pc[p] = "link"
                 PROVE  /\ old[p] \in R /\ mine[p] \in R /\ mine[p] # Header
                        /\ Link(old[p])' = Nil /\ old[p] # tail' /\ old[p] < mine[p]
      OBVIOUS
    <2>1. PICK o : o = old[p]
      OBVIOUS
    <2>2. /\ o \in Q /\ mine[p] \in Q /\ mine[p] # Header /\ Link(o) = Nil /\ o # tail
          /\ o \notin K[c] /\ o # a /\ mine[p] \notin K[c] /\ old'[p] = o
          /\ o < mine[p]
      BY <1>1, <1>4, <1>5, <2>1 DEF InLine
    <2>3. o \in R /\ mine[p] \in R /\ Link(o)' = Nil /\ o # tail'
      BY <1>1, <1>7, <1>10, <2>2
    <2>4. QED
      BY <2>1, <2>2, <2>3
  <1>15. \A m \in R : m # a => Link(m)' = Link(m)
    BY <1>1, <1>7
  <1>16. \A m \in R : Link(m)' \in R \cup {Nil}
    <2> SUFFICES ASSUME NEW m \in R
                 PROVE  Link(m)' \in R \cup {Nil}
      OBVIOUS
    <2>1. CASE m = a
      BY <1>1, <1>2, <1>7, <2>1 DEF InLine
    <2>2. CASE m # a
      BY <1>1, <1>3, <1>7, <1>15, <2>2 DEF InLine
    <2>3. QED
      BY <2>1, <2>2
  <1>17. \A n \in R \ {Header} : \/ \E m \in R : Link(m)' = n
                                \/ \E p \in Producers : pc[p] = "link" /\ mine[p] = n
    <2> SUFFICES ASSUME NEW n \in R, n # Header,
                        \A p \in Producers : ~(pc[p] = "link" /\ mine[p] = n)
                 PROVE  \E m \in R : Link(m)' = n
      OBVIOUS
    <2>1. PICK m \in Q : Link(m) = n
      BY <1>1, <1>7 DEF InLine
    <2>2. n \notin K[c]
      BY <1>7
    <2>3. m # a /\ (m \in K[c] => m = seek[c])
      BY <1>3, <2>1, <2>2
    <2>4. QED
      BY <1>2, <1>7, <1>15, <2>1, <2>3
  <1>18. \A m1, m2 \in R : Link(m1)' = Link(m2)' /\ Link(m1)' # Nil => m1 = m2
    <2>1. \A m1, m2 \in Q : Link(m1) = Link(m2) /\ Link(m1) # Nil => m1 = m2
      BY <1>1 DEF InLine
    <2>2. \A m \in R : Link(m)' = Link(seek[c]) /\ Link(m)' # Nil => m = a
      BY <1>2, <1>7, <1>15, <2>1
    <2>3. QED
      BY <1>7, <1>15, <2>1, <2>2
  <1>19. \A m \in R, p \in Producers : pc[p] = "link" => Link(m)' # mine[p]
    <2>1. \A m \in Q, p \in Producers : pc[p] = "link" => Link(m) # mine[p]
      BY <1>1 DEF InLine
    <2>2. QED
      BY <1>2, <1>7, <1>15, <2>1
  <1>20. \A p, q \in Producers : pc[p] = "link" /\ pc[q] = "link" /\ p # q =>
           old[p] # old[q] /\ mine[p] # mine[q]
    BY <1>1 DEF InLine
  <1>23. \A m \in R : Link(m)' # Nil => m < Link(m)'
    <2> SUFFICES ASSUME NEW m \in R, Link(m)' # Nil
                 PROVE  m < Link(m)'
      OBVIOUS
    <2>1. CASE m # a
      BY <1>1, <1>7, <1>15, <2>1 DEF InLine
    <2>2. CASE m = a
      <3>1. a < seek[c] /\ seek[c] < Link(seek[c])
        BY <1>1, <1>2, <2>2 DEF Line, Chain, InLine
      <3>2. a \in Int /\ seek[c] \in Int /\ Link(seek[c]) \in Int
        <4>1. a \in Existing /\ seek[c] \in Existing /\ Link(seek[c]) \in Existing
          BY <1>1, <1>2, <2>2 DEF InLine
        <4>2. Existing \subseteq Int
          BY DEF Existing
        <4>3. QED
          BY <4>1, <4>2
      <3>3. QED
        BY <2>2, <3>1, <3>2
    <2>3. QED
      BY <2>1, <2>2
  <1>21. InLine(R)'
    BY <1>5, <1>6, <1>9, <1>11, <1>12, <1>13, <1>14, <1>16, <1>23, <1>17, <1>18, <1>19, <1>20 DEF InLine
  <1>22. QED
    BY <1>8, <1>21

(* The tail moves back to the locked node, and the chain is out of the     *)
(* queue: the link to it does not count any more.                          *)
LEMMA ClearTailStep ==
  ASSUME IInv, OneEach, NEW c \in Consumers, ClearTail(c), tail = seek[c]
  PROVE  IInv'
  <1>0. PICK a : a = at[c]
    OBVIOUS
  <1>1. Typed /\ Control /\ ControlOf(c) /\ Locks /\ InOrder /\ Exact
    BY DEF IInv, Control
  <1>2. Local(c) /\ SameOthers(c) /\ kind' = kind
    BY <1>1, LeaveLocal, LocalOthers DEF LeaveStep, Local, Typed
  <1>3. /\ UNCHANGED <<node, it, at, back, nx, seek>>
        /\ pc[c] = "cut" /\ pc'[c] = "cutnext" /\ tail' = at[c]
    BY <1>1 DEF ClearTail, LeaveUnchanged, clearing, Go, Typed, PointersTyped
  <1>4. /\ NodesTyped' /\ SameNext /\ SameFreed /\ SameRemoved /\ SameWriting
        /\ SameReaders /\ SameRemains
    BY <1>1, <1>2, <1>3, SameNode
  <1>5. Ptr(c)' = Ptr(c) /\ Nxt(c)' = Nxt(c)
    BY <1>3 DEF Ptr, Nxt
  <1> HIDE DEF Ptr, Nxt
  <1>6. ControlOf(c)'
    BY <1>1, <1>3, <1>5
    DEF ControlOf, ConsumerPCs, LeavePCs, LockPCs, SeekPCs, CutPCs, ReadPCs
  <1>7. pc[c] \in LockPCs /\ pc[c] \notin ReadPCs /\ pc'[c] \notin ReadPCs
    BY <1>3 DEF LockPCs, ReadPCs
  <1>8. Locks'
    BY <1>1, <1>2, <1>3, <1>4, <1>7, LocksFrame
  <1>9. PICK Q \in SUBSET Existing, K \in [Consumers -> SUBSET Existing] : Line(Q, K)
    BY <1>1 DEF InOrder
  <1>10. /\ K[c] \subseteq Q /\ nx[c] \in K[c] /\ seek[c] \in K[c] /\ nx[c] # Nil
         /\ at[c] \in Q /\ at[c] \notin K[c] /\ Header \notin K[c]
         /\ \A m \in K[c] : Link(m) = node[m].next
         /\ Link(at[c]) = nx[c] /\ Link(seek[c]) \notin K[c]
         /\ \A m \in Q : Link(m) \in K[c] <=> m = at[c] \/ (m \in K[c] /\ m # seek[c])
         /\ \A p \in Producers : pc[p] = "link" =>
              /\ old[p] \notin K[c] /\ old[p] # at[c] /\ mine[p] \notin K[c]
    BY <1>1, <1>3, <1>9, CutOff DEF SeekPCs
  <1>11. a \in Nodes /\ a \in Existing
    BY <1>0, <1>1, <1>9, <1>10, InNodes
  <1>12. \A m \in Nodes : m # a => Link(m)' = Link(m)
    <2>1. \A m \in Nodes : m # a => Hides(c, m) = FALSE /\ Hides(c, m)' = FALSE
      BY <1>0, <1>3 DEF Hides
    <2>2. QED
      BY <1>2, <1>4, <2>1, LinkStays DEF SameNext, SameFreed
  <1>13. Link(a)' = Nil
    <2>1. node[a].next = nx[c]
      BY <1>0, <1>3, <1>9 DEF Line, Chain, SeekPCs
    <2>2. QED
      BY <1>0, <1>3, <2>1 DEF Link, Hides
  <1>14. InOrder'
    <2>1. PICK R : R = Q \ K[c]
      OBVIOUS
    <2>2. InLine(Q) /\ Link(tail) = Nil
      BY <1>9 DEF Line, InLine
    <2>3. InLine(R)'
      <3>1. \A m \in R : m # a => Link(m)' = Link(m)
        BY <1>1, <1>9, <1>12, <2>1, InNodes
      <3>2. Link(a)' = Link(seek[c]) /\ tail = seek[c]
        BY <1>13, <2>2
      <3>3. \A m \in Nodes : /\ node'[m].removed <=> node[m].removed
                             /\ node'[m].freed <=> node[m].freed
        BY <1>3
      <3>4. QED
        BY <1>0, <1>1, <1>2, <1>3, <1>9, <2>1, <3>1, <3>2, <3>3, CutLine DEF SeekPCs
    <2>4. Chain(c, R, K[c])'
      <3>1. Chain(c, Q, K[c]) /\ K[c] \cap R = {} /\ Existing' = Existing
        BY <1>2, <1>9, <2>1 DEF Line, Existing
      <3>2. node[seek[c]].next = Nil
        BY <1>10, <2>2
      <3>3. QED
        BY <1>3, <3>1, <3>2 DEF Chain, SeekPCs, CutPCs
    <2>5. \A d \in Consumers : d # c => Chain(d, R, K[d])' /\ K[d] \cap K[c] = {}
      <3> SUFFICES ASSUME NEW d \in Consumers, d # c
                   PROVE  Chain(d, R, K[d])' /\ K[d] \cap K[c] = {}
        OBVIOUS
      <3>1. K[d] \cap K[c] = {}
        BY <1>9 DEF Line
      <3>2. Nil \notin K[d] /\ (pc[d] \in LockPCs => at[d] # Nil) /\ ElsewhereKept(Nil)
        BY <1>1, <1>3, InNodes, Standing DEF ElsewhereKept
      <3>3. Chain(d, R, K[d])'
        BY <1>1, <1>2, <1>3, <1>9, <2>1, <3>2, OtherChain
      <3>4. QED
        BY <3>1, <3>3
    <2>6. NextLine(c, K, R, K[c])
      BY <2>3, <2>4, <2>5 DEF NextLine
    <2>7. R \in SUBSET Existing /\ K[c] \in SUBSET Existing
      BY <1>9, <2>1
    <2>8. QED
      BY <1>2, <1>9, <2>6, <2>7, LineFrom
  <1>15. DoomKept(c)
    <2>1. Doomed(c)' = Nil
      BY <1>3 DEF Doomed
    <2>2. \A m \in Existing : node'[m] = node[m]
      BY <1>3
    <2>3. QED
      BY <2>1, <2>2 DEF DoomKept
  <1>16. ASSUME NEW n \in Existing
         PROVE  node'[n].remains + Own(c, n) + Count(Links, n)
                  = node[n].remains + Own(c, n)' + Count(Links', n)
    <2>1. One(Nil, n) = 0
      BY <1>1, OneNil
    <2>2. Count(Links', n) + One(nx[c], n) = Count(Links, n)
      <3>1. Count(Links', n) + One(nx[c], n) = Count(Links, n) + One(Nil, n)
        BY <1>0, <1>10, <1>11, <1>12, <1>13, LinkMoved
      <3>2. QED
        BY <2>1, <3>1, Counts
    <2>3. /\ PtrSlot(c)' = PtrSlot(c) /\ NextSlot(c)' = NextSlot(c)
          /\ AtSlot(c)' = AtSlot(c) /\ NxSlot(c) = Nil /\ NxSlot(c)' = nx[c]
      BY <1>3, <1>5 DEF PtrSlot, NextSlot, AtSlot, NxSlot, CutPCs
    <2>4. /\ One(PtrSlot(c), n) \in Nat /\ One(NextSlot(c), n) \in Nat
          /\ One(AtSlot(c), n) \in Nat /\ One(nx[c], n) \in Nat
      BY DEF One
    <2>5. Own(c, n) \in Nat /\ Own(c, n)' = Own(c, n) + One(nx[c], n)
      BY <2>1, <2>3, <2>4 DEF Own
    <2>6. node'[n].remains = node[n].remains /\ node[n].remains \in Nat
      BY <1>1, <1>3, InNodes, FieldTypes DEF Typed
    <2>7. Count(Links', n) \in Nat /\ Count(Links, n) \in Nat
      <3>1. DOMAIN Links' = DOMAIN Links
        BY DEF Links
      <3>2. QED
        BY <3>1, Finite, CountNat
    <2>8. QED
      BY <2>2, <2>4, <2>5, <2>6, <2>7
  <1>17. \A m \in Existing : node[m].readers > 0 /\ node[m].next # Nil
                              => node'[m].next = node[m].next
    BY <1>3
  <1>18. QED
    BY <1>2, <1>4, <1>6, <1>7, <1>8, <1>14, <1>15, <1>16, <1>17, ClearingStep

(* The link to the chain is set to null unless a producer has set it by    *)
(* now.                                                                    *)
LEMMA ClearCutStep ==
  ASSUME IInv, OneEach, NEW c \in Consumers, ClearCut(c)
  PROVE  IInv'
  <1>0. PICK a, s, n : a = at[c] /\ s = seek[c] /\ n = IF node[a].next = nx[c] THEN Nil ELSE node[a].next
    OBVIOUS
  <1>1. Typed /\ Control /\ ControlOf(c) /\ Locks /\ InOrder /\ Exact
    BY DEF IInv, Control
  <1>2. Local(c) /\ SameOthers(c) /\ kind' = kind
    BY <1>1, LeaveLocal, LocalOthers DEF LeaveStep, Local, Typed
  <1>3. /\ UNCHANGED <<tail, it, at, back, nx, seek>>
        /\ pc[c] = "cutnext" /\ pc'[c] = "turn"
    BY <1>1 DEF ClearCut, LeaveUnchanged, clearing, Go, Typed, PointersTyped
  <1>4. PICK Q \in SUBSET Existing, K \in [Consumers -> SUBSET Existing] : Line(Q, K)
    BY <1>1 DEF InOrder
  <1>5. /\ a \in Q /\ a \in Existing /\ a \in Nodes /\ ~node[a].removed /\ ~node[a].freed
        /\ node[a].readers = 0
        /\ \A d \in Consumers : a \notin K[d]
        /\ node[a].next # nx[c] => Link(a) = node[a].next
    BY <1>0, <1>1, <1>3, <1>4, Locked, InNodes DEF LockPCs
  <1>6. /\ NodesTyped' /\ SameRemains /\ SameRemoved /\ SameWriting /\ SameReaders /\ SameFreed
        /\ \A m \in Nodes : node'[m].next = IF m = a THEN n ELSE node[m].next
    <2>1. node[a].next \in Known /\ Nil \in Known
      BY <1>1, <1>5 DEF Typed, NodesTyped, Known
    <2>2. node' = [node EXCEPT ![a].next = n]
      <3>1. node' = [node EXCEPT ![a].next = IF @ = nx[c] THEN Nil ELSE @]
        BY <1>0 DEF ClearCut
      <3>2. a \in DOMAIN node /\ node[a] \in NodeSet
        BY <1>1, <1>5 DEF Typed, NodesTyped
      <3>3. QED
        BY <1>0, <3>1, <3>2 DEF NodeSet
    <2>3. n \in Known
      BY <1>0, <2>1
    <2>4. QED
      BY <1>1, <1>2, <1>5, <2>2, <2>3, SetNext
  <1>7. Ptr(c)' = Ptr(c) /\ Nxt(c)' = Nxt(c)
    BY <1>3 DEF Ptr, Nxt
  <1> HIDE DEF Ptr, Nxt
  <1>8. ControlOf(c)'
    BY <1>1, <1>3, <1>7
    DEF ControlOf, ConsumerPCs, LeavePCs, LockPCs, SeekPCs, CutPCs, ReadPCs
  <1>9. pc[c] \in LockPCs /\ pc[c] \notin ReadPCs /\ pc'[c] \notin ReadPCs
    BY <1>3 DEF LockPCs, ReadPCs
  <1>10. Locks'
    <2>1. \A m \in Existing : node'[m].readers = node[m].readers
      BY <1>1, <1>6, InNodes DEF SameReaders
    <2>2. QED
      BY <1>1, <1>2, <1>3, <1>6, <1>9, <2>1, LocksFrame
  <1>11. /\ Chain(c, Q, K[c]) /\ InLine(Q) /\ s \in K[c] /\ s # a /\ s \in Nodes
         /\ node[s].next = Nil /\ ~node[s].freed
    BY <1>0, <1>1, <1>3, <1>4, <1>5, InNodes DEF Line, Chain, CutPCs
  <1>12. \A m \in Nodes : Link(m)' = Link(m)
    <2>1. ASSUME NEW m \in Nodes, m # a, m # s
          PROVE  Link(m)' = Link(m)
      <3>1. Hides(c, m) = FALSE /\ Hides(c, m)' = FALSE
        BY <1>0, <1>3, <2>1 DEF Hides
      <3>2. node'[m].next = node[m].next /\ (node'[m].freed <=> node[m].freed)
        BY <1>6, <2>1 DEF SameFreed
      <3>3. QED
        BY <1>2, <2>1, <3>1, <3>2, LinkStays
    <2>2. Link(s)' = Nil /\ Link(s) = Nil
      BY <1>0, <1>3, <1>6, <1>11 DEF Link, Hides
    <2>3. Link(a)' = Link(a)
      <3>1. \A d \in Consumers : ~Hides(d, a)'
        <4> SUFFICES ASSUME NEW d \in Consumers, Hides(d, a)'
                     PROVE  FALSE
          OBVIOUS
        <4>1. CASE d = c
          BY <1>0, <1>3, <1>11, <4>1 DEF Hides
        <4>2. CASE d # c
          <5>1. pc'[d] = pc[d] /\ at'[d] = at[d] /\ seek'[d] = seek[d]
            BY <1>2, <4>2 DEF SameOthers
          <5>2. ~(pc[d] = "turn" /\ seek[d] = a)
            BY <1>4, <1>5 DEF Line, Chain, CutPCs
          <5>3. ~(pc[d] \in LockPCs /\ at[d] = a)
            BY <1>0, <1>1, <1>9, <4>2 DEF Locks
          <5>4. QED
            BY <5>1, <5>2, <5>3 DEF Hides, LockPCs
        <4>3. QED
          BY <4>1, <4>2
      <3>2. Link(a)' = n
        BY <1>5, <1>6, <3>1 DEF Link, SameFreed
      <3>3. node[a].next = nx[c] => Link(a) = Nil
        BY <1>0, <1>3 DEF Link, Hides
      <3>4. QED
        BY <1>0, <1>5, <3>2, <3>3
    <2>4. QED
      BY <2>1, <2>2, <2>3
  <1>13. InOrder'
    <2>1. InLine(Q)'
      <3>1. \A m \in Q : m \in Nodes /\ m \in Existing
        BY <1>1, <1>4, InNodes
      <3>2. \A m \in Existing : node[m].removed => node'[m].removed
        BY <1>1, <1>6, InNodes DEF SameRemoved
      <3>3. ~node'[Header].removed /\ \A m \in Q : ~node'[m].freed
        BY <1>6, <1>11, <3>1 DEF InLine, SameRemoved, SameFreed
      <3>4. \A m \in Q : Link(m)' = Link(m)
        BY <1>12, <3>1
      <3>5. \A m \in Q : ~node'[m].freed
        BY <3>3
      <3>6. tail' = tail /\ ~node'[Header].removed
        BY <1>3, <3>3
      <3>7. QED
        BY <1>1, <1>2, <1>11, <3>2, <3>4, <3>5, <3>6, InLineFrame
    <2>2. Chain(c, Q, K[c])'
      <3>1. \A m \in K[c] : /\ node'[m].next = node[m].next
                           /\ node'[m].removed /\ ~node'[m].freed
        BY <1>1, <1>5, <1>6, <1>11, InNodes DEF Chain, SameRemoved, SameFreed
      <3>2. Existing' = Existing /\ node'[s].next = Nil
        BY <1>2, <1>11, <3>1 DEF Existing
      <3>3. QED
        BY <1>0, <1>3, <1>11, <3>1, <3>2 DEF Chain, SeekPCs, CutPCs
    <2>3. \A d \in Consumers : d # c => Chain(d, Q, K[d])' /\ K[d] \cap K[c] = {}
      <3> SUFFICES ASSUME NEW d \in Consumers, d # c
                   PROVE  Chain(d, Q, K[d])' /\ K[d] \cap K[c] = {}
        OBVIOUS
      <3>1. K[d] \cap K[c] = {}
        BY <1>4 DEF Line
      <3>2. a \notin K[d] /\ (pc[d] \in LockPCs => at[d] # a)
        BY <1>0, <1>1, <1>5, <1>9 DEF Locks
      <3>3. ElsewhereKept(a)
        BY <1>6 DEF ElsewhereKept, SameRemoved, SameFreed
      <3>4. Chain(d, Q, K[d])'
        BY <1>1, <1>2, <1>4, <3>2, <3>3, OtherChain
      <3>5. QED
        BY <3>1, <3>4
    <2>4. NextLine(c, K, Q, K[c]) /\ K[c] \in SUBSET Existing
      BY <1>4, <2>1, <2>2, <2>3 DEF NextLine
    <2>5. QED
      BY <1>2, <1>4, <2>4, LineFrom
  <1>14. DoomKept(c)
    <2>1. Doomed(c)' = Nil
      BY <1>3 DEF Doomed
    <2>2. QED
      BY <1>1, <1>6, <2>1, InNodes DEF DoomKept, SameRemains, SameFreed, SameRemoved
  <1>15. \A m \in Existing : Own(c, m)' = Own(c, m)
    BY <1>3, <1>7 DEF Own, PtrSlot, NextSlot, AtSlot, NxSlot, CutPCs
  <1>16. Links' = Links
    BY <1>12 DEF Links
  <1>17. \A m \in Existing : node'[m].remains + Own(c, m) + Count(Links, m)
                              = node[m].remains + Own(c, m)' + Count(Links', m)
    BY <1>1, <1>6, <1>15, <1>16, InNodes DEF SameRemains
  <1>18. \A m \in Existing : node[m].readers > 0 /\ node[m].next # Nil
                              => node'[m].next = node[m].next
    BY <1>1, <1>5, <1>6, InNodes
  <1>19. QED
    BY <1>2, <1>6, <1>8, <1>9, <1>10, <1>13, <1>14, <1>17, <1>18, ClearingStep

(* The locked node gets the link of the last node of the chain.            *)
LEMMA ClearLinkStep ==
  ASSUME IInv, OneEach, NEW c \in Consumers, ClearLink(c)
  PROVE  IInv'
  <1>0. PICK a, s, n : a = at[c] /\ s = seek[c] /\ n = node[s].next
    OBVIOUS
  <1>1. Typed /\ Control /\ ControlOf(c) /\ Locks /\ InOrder /\ Exact
    BY DEF IInv, Control
  <1>2. Local(c) /\ SameOthers(c) /\ kind' = kind
    BY <1>1, LeaveLocal, LocalOthers DEF LeaveStep, Local, Typed
  <1>3. /\ UNCHANGED <<tail, it, at, back, nx, seek>>
        /\ pc[c] = "cutlink" /\ pc'[c] = "turn" /\ n # Nil
        /\ node' = [node EXCEPT ![a].next = n]
    BY <1>0, <1>1 DEF ClearLink, LeaveUnchanged, clearing, Go, Typed, PointersTyped
  <1>4. PICK Q \in SUBSET Existing, K \in [Consumers -> SUBSET Existing] : Line(Q, K)
    BY <1>1 DEF InOrder
  <1>5. /\ a \in Q /\ a \in Existing /\ a \in Nodes /\ ~node[a].removed /\ ~node[a].freed
        /\ node[a].readers = 0
        /\ \A d \in Consumers : a \notin K[d]
    BY <1>0, <1>1, <1>3, <1>4, Locked, InNodes DEF LockPCs
  <1>6. /\ K[c] \subseteq Q /\ nx[c] \in K[c] /\ s \in K[c] /\ nx[c] # Nil
        /\ Link(s) = n /\ Link(a) = nx[c]
    <2>1. node[seek[c]].next # Nil
      BY <1>0, <1>3
    <2>2. /\ K[c] \subseteq Q /\ nx[c] \in K[c] /\ seek[c] \in K[c] /\ nx[c] # Nil
          /\ \A m \in K[c] : Link(m) = node[m].next
          /\ Link(at[c]) = nx[c]
      BY <1>1, <1>3, <1>4, <2>1, CutOff DEF SeekPCs
    <2>3. QED
      BY <1>0, <2>2
  <1>7. s \in Nodes /\ s \in Existing /\ s # a /\ Chain(c, Q, K[c]) /\ InLine(Q)
        /\ n \in Known
    BY <1>0, <1>1, <1>4, <1>5, <1>6, InNodes DEF Line, Typed, NodesTyped
  <1>8. /\ NodesTyped' /\ SameRemains /\ SameRemoved /\ SameWriting /\ SameReaders /\ SameFreed
        /\ \A m \in Nodes : node'[m].next = IF m = a THEN n ELSE node[m].next
    BY <1>1, <1>2, <1>3, <1>5, <1>7, SetNext
  <1>9. Ptr(c)' = Ptr(c) /\ Nxt(c)' = Nxt(c)
    BY <1>3 DEF Ptr, Nxt
  <1> HIDE DEF Ptr, Nxt
  <1>10. ControlOf(c)'
    BY <1>1, <1>3, <1>9
    DEF ControlOf, ConsumerPCs, LeavePCs, LockPCs, SeekPCs, CutPCs, ReadPCs
  <1>11. pc[c] \in LockPCs /\ pc[c] \notin ReadPCs /\ pc'[c] \notin ReadPCs
    BY <1>3 DEF LockPCs, ReadPCs
  <1>12. Locks'
    <2>1. \A m \in Existing : node'[m].readers = node[m].readers
      BY <1>1, <1>8, InNodes DEF SameReaders
    <2>2. QED
      BY <1>1, <1>2, <1>3, <1>8, <1>11, <2>1, LocksFrame
  <1>13. ASSUME NEW m \in Nodes, m # a, m # s
         PROVE  Link(m)' = Link(m)
    <2>1. Hides(c, m) = FALSE /\ Hides(c, m)' = FALSE
      BY <1>0, <1>3, <1>13 DEF Hides
    <2>2. node'[m].next = node[m].next /\ (node'[m].freed <=> node[m].freed)
      BY <1>8, <1>13 DEF SameFreed
    <2>3. QED
      BY <1>2, <1>13, <2>1, <2>2, LinkStays
  <1>14. Link(s)' = Nil
    BY <1>0, <1>3 DEF Link, Hides
  <1>15. Link(a)' = n
    <2>1. \A d \in Consumers : ~Hides(d, a)'
      <3> SUFFICES ASSUME NEW d \in Consumers, Hides(d, a)'
                   PROVE  FALSE
        OBVIOUS
      <3>1. CASE d = c
        BY <1>0, <1>3, <1>7, <3>1 DEF Hides
      <3>2. CASE d # c
        <4>1. pc'[d] = pc[d] /\ at'[d] = at[d] /\ seek'[d] = seek[d]
          BY <1>2, <3>2 DEF SameOthers
        <4>2. ~(pc[d] = "turn" /\ seek[d] = a)
          BY <1>4, <1>5 DEF Line, Chain, CutPCs
        <4>3. ~(pc[d] \in LockPCs /\ at[d] = a)
          BY <1>0, <1>1, <1>11, <3>2 DEF Locks
        <4>4. QED
          BY <4>1, <4>2, <4>3 DEF Hides, LockPCs
      <3>3. QED
        BY <3>1, <3>2
    <2>2. QED
      BY <1>5, <1>8, <2>1 DEF Link, SameFreed
  <1>16. InOrder'
    <2>1. PICK R : R = Q \ K[c]
      OBVIOUS
    <2>2. InLine(R)'
      <3>1. Link(tail) = Nil
        BY <1>7 DEF InLine
      <3>2. tail # s
        BY <1>3, <1>6, <3>1
      <3>3. \A m \in R : m # a => Link(m)' = Link(m)
        BY <1>1, <1>4, <1>6, <1>13, <2>1, InNodes
      <3>4. Link(a)' = Link(seek[c])
        BY <1>0, <1>6, <1>15
      <3>5. \A m \in Nodes : /\ node'[m].removed <=> node[m].removed
                             /\ node'[m].freed <=> node[m].freed
        BY <1>8 DEF SameRemoved, SameFreed
      <3>6. QED
        BY <1>0, <1>1, <1>2, <1>3, <1>4, <2>1, <3>2, <3>3, <3>4, <3>5, CutLine DEF SeekPCs
    <2>3. Chain(c, R, K[c])'
      <3>1. \A m \in K[c] : /\ node'[m].next = node[m].next
                           /\ node'[m].removed /\ ~node'[m].freed
        BY <1>1, <1>5, <1>7, <1>8, InNodes DEF Chain, SameRemoved, SameFreed
      <3>2. Existing' = Existing /\ node'[s].next = node'[a].next /\ K[c] \cap R = {}
        BY <1>0, <1>2, <1>5, <1>7, <1>8, <2>1 DEF Existing
      <3>3. QED
        BY <1>0, <1>3, <1>7, <3>1, <3>2 DEF Chain, SeekPCs, CutPCs
    <2>4. \A d \in Consumers : d # c => Chain(d, R, K[d])' /\ K[d] \cap K[c] = {}
      <3> SUFFICES ASSUME NEW d \in Consumers, d # c
                   PROVE  Chain(d, R, K[d])' /\ K[d] \cap K[c] = {}
        OBVIOUS
      <3>1. K[d] \cap K[c] = {}
        BY <1>4 DEF Line
      <3>2. a \notin K[d] /\ (pc[d] \in LockPCs => at[d] # a)
        BY <1>0, <1>1, <1>5, <1>11 DEF Locks
      <3>3. ElsewhereKept(a)
        BY <1>8 DEF ElsewhereKept, SameRemoved, SameFreed
      <3>4. Chain(d, R, K[d])'
        BY <1>1, <1>2, <1>4, <2>1, <3>2, <3>3, OtherChain
      <3>5. QED
        BY <3>1, <3>4
    <2>5. NextLine(c, K, R, K[c])
      BY <2>2, <2>3, <2>4 DEF NextLine
    <2>6. R \in SUBSET Existing /\ K[c] \in SUBSET Existing
      BY <1>4, <2>1
    <2>7. QED
      BY <1>2, <1>4, <2>5, <2>6, LineFrom
  <1>17. DoomKept(c)
    <2>1. Doomed(c)' = Nil
      BY <1>3 DEF Doomed
    <2>2. QED
      BY <1>1, <1>8, <2>1, InNodes DEF DoomKept, SameRemains, SameFreed, SameRemoved
  <1>18. ASSUME NEW m \in Existing
         PROVE  node'[m].remains + Own(c, m) + Count(Links, m)
                  = node[m].remains + Own(c, m)' + Count(Links', m)
    <2>1. One(Nil, m) = 0
      BY <1>1, OneNil
    <2>2. PICK f : f = [Links EXCEPT ![s] = Nil]
      OBVIOUS
    <2>3. /\ DOMAIN Links = Nodes /\ DOMAIN f = Nodes /\ DOMAIN Links' = Nodes
          /\ Links[s] = n /\ f[s] = Nil /\ f[a] = nx[c] /\ Links'[a] = n
      BY <1>5, <1>6, <1>7, <1>15, <2>2 DEF Links
    <2>4. \A k \in Nodes : k # s => f[k] = Links[k]
      BY <2>2, <2>3
    <2>5. \A k \in Nodes : k # a => Links'[k] = f[k]
      <3>1. \A k \in Nodes : Links'[k] = Link(k)' /\ Links[k] = Link(k)
        BY DEF Links
      <3>2. QED
        BY <1>13, <1>14, <2>3, <2>4, <3>1
    <2>6. Count(f, m) + One(n, m) = Count(Links, m) + One(Nil, m)
      BY <1>7, <2>3, <2>4, Finite, CountMove
    <2>7. Count(Links', m) + One(nx[c], m) = Count(f, m) + One(n, m)
      BY <1>5, <2>3, <2>5, Finite, CountMove
    <2>8. /\ PtrSlot(c)' = PtrSlot(c) /\ NextSlot(c)' = NextSlot(c)
          /\ AtSlot(c)' = AtSlot(c) /\ NxSlot(c) = Nil /\ NxSlot(c)' = nx[c]
      BY <1>3, <1>9 DEF PtrSlot, NextSlot, AtSlot, NxSlot, CutPCs
    <2>9. /\ One(PtrSlot(c), m) \in Nat /\ One(NextSlot(c), m) \in Nat
          /\ One(AtSlot(c), m) \in Nat /\ One(nx[c], m) \in Nat /\ One(n, m) \in Nat
      BY DEF One
    <2>10. Own(c, m) \in Nat /\ Own(c, m)' = Own(c, m) + One(nx[c], m)
      BY <2>1, <2>8, <2>9 DEF Own
    <2>11. node'[m].remains = node[m].remains /\ node[m].remains \in Nat
      BY <1>1, <1>8, InNodes, FieldTypes DEF Typed, SameRemains
    <2>12. Count(Links', m) \in Nat /\ Count(Links, m) \in Nat /\ Count(f, m) \in Nat
      BY <2>3, Finite, CountNat
    <2>13. QED
      BY <2>1, <2>6, <2>7, <2>9, <2>10, <2>11, <2>12
  <1>19. \A m \in Existing : node[m].readers > 0 /\ node[m].next # Nil
                              => node'[m].next = node[m].next
    BY <1>1, <1>5, <1>8, InNodes
  <1>20. QED
    BY <1>2, <1>8, <1>10, <1>11, <1>12, <1>16, <1>17, <1>18, <1>19, ClearingStep

(* The link of the last node leads back to the locked node, which holds    *)
(* itself in the queue.                                                    *)
LEMMA ClearTurnStep ==
  ASSUME IInv, OneEach, NEW c \in Consumers, ClearTurn(c)
  PROVE  IInv'
  <1>0. PICK a, s : a = at[c] /\ s = seek[c]
    OBVIOUS
  <1>1. Typed /\ Control /\ ControlOf(c) /\ Locks /\ InOrder /\ Exact
    BY DEF IInv, Control
  <1>2. Local(c) /\ SameOthers(c) /\ kind' = kind
    BY <1>1, LeaveLocal, LocalOthers DEF LeaveStep, Local, Typed
  <1>3. /\ UNCHANGED <<tail, it, at, back, nx, seek>>
        /\ pc[c] = "turn" /\ pc'[c] = "defer" /\ node[s].readers = 0
    BY <1>0, <1>1 DEF ClearTurn, LeaveUnchanged, clearing, Go, Typed, PointersTyped
  <1>4. PICK Q \in SUBSET Existing, K \in [Consumers -> SUBSET Existing] : Line(Q, K)
    BY <1>1 DEF InOrder
  <1>5. /\ a \in Q /\ a \in Existing /\ a \in Nodes /\ node[a].remains > 0
        /\ ~node[a].removed
    BY <1>0, <1>1, <1>3, <1>4, Locked, InQueueHeld DEF LockPCs, Line
  <1>6. /\ Chain(c, Q, K[c]) /\ InLine(Q)
        /\ s \in K[c] /\ s \in Existing /\ s \in Nodes /\ s \notin Q
        /\ node[s].removed /\ ~node[s].freed
    BY <1>0, <1>1, <1>3, <1>4, InNodes DEF Line, Chain, CutPCs
  <1>7. /\ NodesTyped' /\ SameRemoved /\ SameWriting /\ SameReaders /\ SameFreed
        /\ \A m \in Nodes : node'[m].next = IF m = s THEN a ELSE node[m].next
        /\ \A m \in Nodes : node'[m].remains =
                              IF m = a THEN node[m].remains + 1 ELSE node[m].remains
    BY <1>0, <1>1, ClearTurnNode
  <1>8. Ptr(c)' = Ptr(c) /\ Nxt(c)' = Nxt(c)
    BY <1>3 DEF Ptr, Nxt
  <1> HIDE DEF Ptr, Nxt
  <1>9. ControlOf(c)'
    BY <1>1, <1>3, <1>8
    DEF ControlOf, ConsumerPCs, LeavePCs, LockPCs, SeekPCs, CutPCs, ReadPCs
  <1>10. pc[c] \in LockPCs /\ pc[c] \notin ReadPCs /\ pc'[c] \notin ReadPCs
    BY <1>3 DEF LockPCs, ReadPCs
  <1>11. Locks'
    <2>1. \A m \in Existing : node'[m].readers = node[m].readers
      BY <1>1, <1>7, InNodes DEF SameReaders
    <2>2. QED
      BY <1>1, <1>2, <1>3, <1>7, <1>10, <2>1, LocksFrame
  <1>12. \A d \in Consumers : pc[d] \in LockPCs => at[d] # s
    BY <1>1, <1>4, <1>6, Locked
  <1>13. \A d \in Consumers : d # c => s \notin K[d]
    BY <1>4, <1>6 DEF Line
  <1>14. \A m \in Nodes : m # s => Link(m)' = Link(m)
    <2> SUFFICES ASSUME NEW m \in Nodes, m # s
                 PROVE  Link(m)' = Link(m)
      OBVIOUS
    <2>1. Hides(c, m) = FALSE /\ Hides(c, m)' = FALSE
      BY <1>0, <1>3 DEF Hides
    <2>2. node'[m].next = node[m].next /\ (node'[m].freed <=> node[m].freed)
      BY <1>7 DEF SameFreed
    <2>3. QED
      BY <1>2, <2>1, <2>2, LinkStays
  <1>15. Link(s) = Nil
    BY <1>0, <1>3 DEF Link, Hides
  <1>16. Link(s)' = a
    <2>1. \A d \in Consumers : ~Hides(d, s)'
      <3> SUFFICES ASSUME NEW d \in Consumers, Hides(d, s)'
                   PROVE  FALSE
        OBVIOUS
      <3>1. CASE d = c
        BY <1>3, <3>1 DEF Hides
      <3>2. CASE d # c
        <4>1. pc'[d] = pc[d] /\ at'[d] = at[d] /\ seek'[d] = seek[d]
          BY <1>2, <3>2 DEF SameOthers
        <4>2. ~(pc[d] = "turn" /\ seek[d] = s)
          BY <1>4, <1>13, <3>2 DEF Line, Chain, CutPCs
        <4>3. QED
          BY <1>12, <4>1, <4>2 DEF Hides, LockPCs
      <3>3. QED
        BY <3>1, <3>2
    <2>2. QED
      BY <1>6, <1>7, <2>1 DEF Link, SameFreed
  <1>17. InOrder'
    <2>1. InLine(Q)'
      <3>1. \A m \in Q : m \in Nodes /\ m \in Existing
        BY <1>1, <1>4, InNodes
      <3>2. \A m \in Existing : node[m].removed => node'[m].removed
        BY <1>1, <1>7, InNodes DEF SameRemoved
      <3>3. ~node'[Header].removed
        BY <1>6, <1>7, <3>1 DEF InLine, SameRemoved
      <3>4. \A m \in Q : Link(m)' = Link(m)
        BY <1>6, <1>14, <3>1
      <3>5. \A m \in Q : ~node'[m].freed
        BY <1>6, <1>7, <3>1 DEF InLine, SameFreed
      <3>6. tail' = tail
        BY <1>3
      <3>7. QED
        BY <1>1, <1>2, <1>6, <3>2, <3>3, <3>4, <3>5, <3>6, InLineFrame
    <2>2. Chain(c, Q, {})'
      BY <1>3 DEF Chain, SeekPCs, CutPCs
    <2>3. \A d \in Consumers : d # c => Chain(d, Q, K[d])' /\ K[d] \cap {} = {}
      <3> SUFFICES ASSUME NEW d \in Consumers, d # c
                   PROVE  Chain(d, Q, K[d])'
        OBVIOUS
      <3>1. s \notin K[d] /\ (pc[d] \in LockPCs => at[d] # s)
        BY <1>12, <1>13
      <3>2. ElsewhereKept(s)
        BY <1>7 DEF ElsewhereKept, SameRemoved, SameFreed
      <3>3. QED
        BY <1>1, <1>2, <1>4, <3>1, <3>2, OtherChain
    <2>4. NextLine(c, K, Q, {})
      BY <2>1, <2>2, <2>3 DEF NextLine
    <2>5. QED
      BY <1>2, <1>4, <2>4, LineFrom
  <1>18. DoomKept(c)
    <2>1. Doomed(c)' = Nil
      BY <1>3 DEF Doomed
    <2>2. \A m \in Existing : node[m].remains = 0 => node'[m].remains = 0
      BY <1>1, <1>5, <1>7, InNodes
    <2>3. QED
      BY <1>1, <1>7, <2>1, <2>2, InNodes DEF DoomKept, SameFreed, SameRemoved
  <1>19. ASSUME NEW m \in Existing
         PROVE  node'[m].remains + Own(c, m) + Count(Links, m)
                  = node[m].remains + Own(c, m)' + Count(Links', m)
    <2>1. One(Nil, m) = 0
      BY <1>1, OneNil
    <2>2. Count(Links', m) + One(Nil, m) = Count(Links, m) + One(a, m)
      <3>1. Link(s)' = a /\ Link(s) = Nil /\ s \in Nodes
        BY <1>6, <1>15, <1>16
      <3>2. QED
        BY <1>14, <3>1, LinkMoved
    <2>3. Own(c, m)' = Own(c, m) /\ Own(c, m) \in Nat
      BY <1>3, <1>8 DEF Own, PtrSlot, NextSlot, AtSlot, NxSlot, CutPCs, One
    <2>4. node'[m].remains = node[m].remains + One(a, m) /\ node[m].remains \in Nat
      BY <1>1, <1>7, InNodes, FieldTypes DEF Typed, One
    <2>5. Count(Links', m) \in Nat /\ Count(Links, m) \in Nat /\ One(a, m) \in Nat
      <3>1. DOMAIN Links' = DOMAIN Links
        BY DEF Links
      <3>2. QED
        BY <3>1, Finite, CountNat DEF One
    <2>6. QED
      BY <2>1, <2>2, <2>3, <2>4, <2>5
  <1>20. \A m \in Existing : node[m].readers > 0 /\ node[m].next # Nil
                              => node'[m].next = node[m].next
    BY <1>1, <1>3, <1>7, InNodes
  <1>21. QED
    BY <1>2, <1>7, <1>9, <1>10, <1>11, <1>17, <1>18, <1>19, <1>20, ClearingStep

(* A node that nobody refers to is freed, and the reference it holds is    *)
(* given back.                                                             *)
LEMMA FreeStep ==
  ASSUME IInv, OneEach, NEW c \in Consumers, ClearFree(c) \/ LeaveDelete(c)
  PROVE  IInv'
  <1>0. PICK n, v : n = Doomed(c) /\ v = node[n].next
    OBVIOUS
  <1>1. Typed /\ Control /\ ControlOf(c) /\ Locks /\ InOrder /\ Exact
    BY DEF IInv, Control
  <1>2. Local(c) /\ SameOthers(c) /\ kind' = kind
    BY <1>1, LeaveLocal, LocalOthers DEF LeaveStep, Local, Typed
  <1>3. /\ UNCHANGED <<tail, it, back, seek>>
        /\ \/ pc[c] = "free" /\ pc'[c] = "defer" /\ n = nx[c] /\ nx'[c] = v /\ at' = at
           \/ pc[c] = "delete" /\ pc'[c] = "leave" /\ n = at[c] /\ at'[c] = v /\ nx' = nx
    <2>1. c \in DOMAIN pc /\ c \in DOMAIN nx /\ c \in DOMAIN at
      BY <1>1 DEF Typed, PointersTyped
    <2> USE DEF Go, LeaveUnchanged, clearing
    <2>2. CASE ClearFree(c)
      BY <1>0, <2>1, <2>2 DEF ClearFree, Doomed
    <2>3. CASE LeaveDelete(c)
      BY <1>0, <2>1, <2>3 DEF LeaveDelete, Doomed
    <2>4. QED
      BY <2>2, <2>3
  <1>4. PICK Q \in SUBSET Existing, K \in [Consumers -> SUBSET Existing] : Line(Q, K)
    BY <1>1 DEF InOrder
  <1>5. /\ n \in Existing /\ n \in Nodes /\ n \notin Q
        /\ node[n].removed /\ node[n].readers = 0
        /\ \A d \in Consumers : n \notin K[d] /\ (pc[d] \in LockPCs => at[d] # n)
        /\ Link(n) = v
    <2>1. Doomed(c) # Nil
      BY <1>0, <1>1, <1>3 DEF ControlOf
    <2>2. QED
      BY <1>0, <1>1, <1>4, <2>1, DoomedNode, InNodes
  <1>6. /\ NodesTyped' /\ SameRemoved /\ SameRemains /\ SameWriting /\ SameReaders
        /\ \A m \in Nodes : node'[m].freed <=> m = n \/ node[m].freed
        /\ \A m \in Nodes : m # n => node'[m].next = node[m].next
    <2>1. CASE ClearFree(c)
      <3>1. n = nx[c]
        BY <1>0, <2>1 DEF ClearFree, Doomed
      <3>2. QED
        BY <1>1, <2>1, <3>1, ClearFreeNode
    <2>2. CASE LeaveDelete(c)
      <3>1. n = at[c]
        BY <1>0, <2>2 DEF LeaveDelete, Doomed
      <3>2. QED
        BY <1>1, <2>2, <3>1, LeaveDeleteNode DEF SameNext
    <2>3. QED
      BY <2>1, <2>2
  <1>7. Ptr(c)' = Ptr(c) /\ Nxt(c)' = Nxt(c)
    BY <1>3 DEF Ptr, Nxt
  <1> HIDE DEF Ptr, Nxt
  <1>8. ControlOf(c)'
    BY <1>1, <1>3, <1>7
    DEF ControlOf, ConsumerPCs, LeavePCs, LockPCs, SeekPCs, CutPCs, ReadPCs
  <1>9. /\ pc[c] \notin ReadPCs /\ pc'[c] \notin ReadPCs
        /\ pc'[c] \in LockPCs => pc[c] \in LockPCs /\ at'[c] = at[c]
    BY <1>3 DEF LockPCs, ReadPCs
  <1>10. Locks'
    <2>1. \A m \in Existing : node'[m].readers = node[m].readers
      BY <1>1, <1>6, InNodes DEF SameReaders
    <2>2. QED
      BY <1>1, <1>2, <1>6, <1>9, <2>1, LocksFrame
  <1>11. \A m \in Nodes : m # n => Link(m)' = Link(m)
    <2> SUFFICES ASSUME NEW m \in Nodes, m # n
                 PROVE  Link(m)' = Link(m)
      OBVIOUS
    <2>1. Hides(c, m) = FALSE /\ Hides(c, m)' = FALSE
      BY <1>3 DEF Hides
    <2>2. node'[m].next = node[m].next /\ (node'[m].freed <=> node[m].freed)
      BY <1>6
    <2>3. QED
      BY <1>2, <2>1, <2>2, LinkStays
  <1>12. Link(n)' = Nil
    BY <1>5, <1>6 DEF Link
  <1>13. InOrder'
    <2>1. InLine(Q)'
      <3>1. InLine(Q) /\ \A m \in Q : m \in Nodes /\ m # n
        BY <1>1, <1>4, <1>5, InNodes DEF Line
      <3>2. \A m \in Existing : node[m].removed => node'[m].removed
        BY <1>1, <1>6, InNodes DEF SameRemoved
      <3>3. ~node'[Header].removed
        BY <1>6, <3>1 DEF InLine, SameRemoved
      <3>4. \A m \in Q : Link(m)' = Link(m)
        BY <1>11, <3>1
      <3>5. \A m \in Q : ~node'[m].freed
        BY <1>6, <3>1 DEF InLine
      <3>6. tail' = tail
        BY <1>3
      <3>7. QED
        BY <1>1, <1>2, <3>1, <3>2, <3>3, <3>4, <3>5, <3>6, InLineFrame
    <2>2. Chain(c, Q, {})'
      BY <1>3 DEF Chain, SeekPCs, CutPCs
    <2>3. \A d \in Consumers : d # c => Chain(d, Q, K[d])' /\ K[d] \cap {} = {}
      <3> SUFFICES ASSUME NEW d \in Consumers, d # c
                   PROVE  Chain(d, Q, K[d])'
        OBVIOUS
      <3>1. n \notin K[d] /\ (pc[d] \in LockPCs => at[d] # n)
        BY <1>5
      <3>2. ElsewhereKept(n)
        BY <1>6 DEF ElsewhereKept, SameRemoved
      <3>3. QED
        BY <1>1, <1>2, <1>4, <3>1, <3>2, OtherChain
    <2>4. NextLine(c, K, Q, {})
      BY <2>1, <2>2, <2>3 DEF NextLine
    <2>5. QED
      BY <1>2, <1>4, <2>4, LineFrom
  <1>14. DoomKept(c)
    <2>1. Doomed(c)' = Nil
      BY <1>3 DEF Doomed
    <2>2. \A m \in Existing : node'[m].freed => node[m].freed \/ (m = Doomed(c) /\ node[m].removed)
      BY <1>0, <1>1, <1>5, <1>6, InNodes
    <2>3. QED
      BY <1>1, <1>6, <2>1, <2>2, InNodes DEF DoomKept, SameRemains, SameRemoved
  <1>15. ASSUME NEW m \in Existing
         PROVE  node'[m].remains + Own(c, m) + Count(Links, m)
                  = node[m].remains + Own(c, m)' + Count(Links', m)
    <2>1. One(Nil, m) = 0
      BY <1>1, OneNil
    <2>2. Count(Links', m) + One(v, m) = Count(Links, m) + One(Nil, m)
      BY <1>5, <1>11, <1>12, LinkMoved
    <2>3. /\ PtrSlot(c)' = PtrSlot(c) /\ NextSlot(c)' = NextSlot(c)
          /\ \/ /\ AtSlot(c)' = AtSlot(c) /\ NxSlot(c) = Nil /\ NxSlot(c)' = v
             \/ /\ NxSlot(c)' = NxSlot(c) /\ AtSlot(c) = Nil /\ AtSlot(c)' = v
      BY <1>3, <1>7 DEF PtrSlot, NextSlot, AtSlot, NxSlot, CutPCs
    <2>4. /\ One(PtrSlot(c), m) \in Nat /\ One(NextSlot(c), m) \in Nat
          /\ One(AtSlot(c), m) \in Nat /\ One(NxSlot(c), m) \in Nat /\ One(v, m) \in Nat
      BY DEF One
    <2>5. Own(c, m) \in Nat /\ Own(c, m)' = Own(c, m) + One(v, m)
      BY <2>1, <2>3, <2>4 DEF Own
    <2>6. node'[m].remains = node[m].remains /\ node[m].remains \in Nat
      BY <1>1, <1>6, InNodes, FieldTypes DEF Typed, SameRemains
    <2>7. Count(Links', m) \in Nat /\ Count(Links, m) \in Nat
      <3>1. DOMAIN Links' = DOMAIN Links
        BY DEF Links
      <3>2. QED
        BY <3>1, Finite, CountNat
    <2>8. QED
      BY <2>1, <2>2, <2>4, <2>5, <2>6, <2>7
  <1>16. \A m \in Existing : node[m].readers > 0 /\ node[m].next # Nil
                              => node'[m].next = node[m].next
    BY <1>1, <1>5, <1>6, InNodes
  <1>17. QED
    BY <1>2, <1>6, <1>8, <1>9, <1>10, <1>13, <1>14, <1>15, <1>16, ClearingStep
-----------------------------------------------------------------------------
(* What a step of a producer leaves alone.                                 *)
SameConsumers ==
  /\ UNCHANGED <<it, at, nx, seek, back>>
  /\ \A c \in Consumers : pc'[c] = pc[c]

ProducerStep(p) == (\E v \in Values : EnqueueSwap(p, v)) \/ EnqueueStep(p)

(* A step of a producer leaves the consumers and the other producers       *)
(* alone; ...                                                              *)
LEMMA ProducerLocal ==
  ASSUME Typed, Control, NEW p \in Producers, ProducerStep(p)
  PROVE  /\ SameConsumers /\ Control'
         /\ pc' \in [Producers \cup Consumers -> ProducerPCs \cup ConsumerPCs]
         /\ \A q \in Producers : q # p =>
              pc'[q] = pc[q] /\ old'[q] = old[q] /\ mine'[q] = mine[q]
  <1>1. /\ pc \in [Producers \cup Consumers -> ProducerPCs \cup ConsumerPCs]
        /\ old \in [Producers -> Known] /\ mine \in [Producers -> Known]
        /\ \A c \in Consumers : c # p
    BY RCQueueAssumption DEF Typed, PointersTyped
  <1>2. /\ UNCHANGED <<it, at, nx, seek, back>>
        /\ \E s \in ProducerPCs : pc' = [pc EXCEPT ![p] = s]
        /\ old' = old \/ \E x : old' = [old EXCEPT ![p] = x]
        /\ mine' = mine \/ \E x : mine' = [mine EXCEPT ![p] = x]
    <2> USE DEF Go, clearing, producing
    <2>1. CASE \E v \in Values : EnqueueSwap(p, v)
      BY <2>1 DEF EnqueueSwap, ProducerPCs
    <2>2. CASE EnqueueLink(p)
      BY <2>2 DEF EnqueueLink, ProducerPCs
    <2>3. CASE EnqueueCount(p)
      BY <2>3 DEF EnqueueCount, ProducerPCs
    <2>4. QED
      BY <2>1, <2>2, <2>3 DEF ProducerStep, EnqueueStep
  <1>3. PICK s \in ProducerPCs : pc' = [pc EXCEPT ![p] = s]
    BY <1>2
  <1>4. SameConsumers
    BY <1>1, <1>2, <1>3 DEF SameConsumers
  <1>5. pc' \in [Producers \cup Consumers -> ProducerPCs \cup ConsumerPCs]
    BY <1>1, <1>3
  <1>6. \A q \in Producers : q # p =>
           pc'[q] = pc[q] /\ old'[q] = old[q] /\ mine'[q] = mine[q]
    BY <1>1, <1>2, <1>3
  <1>7. Control'
    <2>1. \A q \in Producers : pc'[q] \in ProducerPCs
      BY <1>1, <1>3 DEF Control
    <2>2. \A c \in Consumers : ControlOf(c)'
      <3> SUFFICES ASSUME NEW c \in Consumers
                   PROVE  ControlOf(c)'
        OBVIOUS
      <3>1. Ptr(c)' = Ptr(c) /\ Nxt(c)' = Nxt(c) /\ pc'[c] = pc[c]
            /\ UNCHANGED <<at, nx, seek, back>>
        BY <1>4 DEF SameConsumers, Ptr, Nxt
      <3> HIDE DEF Ptr, Nxt
      <3>2. ControlOf(c)
        BY DEF Control
      <3>3. QED
        BY <3>1, <3>2 DEF ControlOf
    <2>3. QED
      BY <2>1, <2>2 DEF Control
  <1>8. QED
    BY <1>4, <1>5, <1>6, <1>7

(* ... so the consumers hold what they held.                               *)
LEMMA ConsumersSame ==
  ASSUME SameConsumers
  PROVE  /\ Ptrs' = Ptrs /\ Nexts' = Nexts /\ Ats' = Ats /\ Nxs' = Nxs /\ Reads' = Reads
         /\ \A c \in Consumers : Doomed(c)' = Doomed(c)
         /\ \A c \in Consumers : Ptr(c)' = Ptr(c) /\ Nxt(c)' = Nxt(c)
  <1>1. Ptrs' = Ptrs
    <2>1. \A i \in Iterators : Ptrs'[i] = Ptrs[i]
      BY DEF SameConsumers, Ptrs
    <2>2. QED
      BY <2>1 DEF Ptrs
  <1>2. Nexts' = Nexts
    <2>1. \A i \in Iterators : Nexts'[i] = Nexts[i]
      BY DEF SameConsumers, Nexts
    <2>2. QED
      BY <2>1 DEF Nexts
  <1>3. Ats' = Ats /\ Nxs' = Nxs
    BY DEF SameConsumers, Ats, Nxs
  <1>4. \A c \in Consumers : Ptr(c)' = Ptr(c) /\ Nxt(c)' = Nxt(c)
    BY DEF SameConsumers, Ptr, Nxt
  <1>5. Reads' = Reads
    BY <1>4 DEF SameConsumers, Reads
  <1>6. \A c \in Consumers : Doomed(c)' = Doomed(c)
    BY DEF SameConsumers, Doomed
  <1>7. QED
    BY <1>1, <1>2, <1>3, <1>4, <1>5, <1>6

(* Counting the message changes nothing of this.                           *)
LEMMA EnqueueCountStep ==
  ASSUME IInv, NEW p \in Producers, EnqueueCount(p)
  PROVE  IInv'
  <1>1. /\ Typed /\ Control /\ Exact /\ ReadersExact /\ Locks /\ Doom /\ Entering /\ InOrder
        /\ PointersTyped /\ NodesTyped
    BY DEF IInv, Typed
  <1>2. /\ SameConsumers /\ Control'
        /\ pc' \in [Producers \cup Consumers -> ProducerPCs \cup ConsumerPCs]
        /\ \A q \in Producers : q # p =>
             pc'[q] = pc[q] /\ old'[q] = old[q] /\ mine'[q] = mine[q]
    BY <1>1, ProducerLocal DEF ProducerStep, EnqueueStep
  <1>3. /\ UNCHANGED <<node, tail, kind, it, at, nx, seek, back>>
        /\ pc[p] = "count" /\ pc'[p] = "idle"
    BY <1>1 DEF EnqueueCount, Go, clearing, PointersTyped
  <1>4. /\ Ptrs' = Ptrs /\ Nexts' = Nexts /\ Ats' = Ats /\ Nxs' = Nxs /\ Reads' = Reads
        /\ \A c \in Consumers : Doomed(c)' = Doomed(c)
        /\ \A c \in Consumers : Ptr(c)' = Ptr(c) /\ Nxt(c)' = Nxt(c)
    BY <1>2, ConsumersSame
  <1>5. Existing' = Existing /\ Known' = Known
    BY <1>3 DEF Existing, Known
  <1>6. Typed'
    <2>1. Nil \in Known
      BY DEF Known
    <2>2. old' \in [Producers -> Known] /\ mine' \in [Producers -> Known]
      BY <1>1, <2>1 DEF EnqueueCount, PointersTyped
    <2>3. PointersTyped'
      BY <1>1, <1>2, <1>3, <1>5, <2>2 DEF PointersTyped
    <2>4. NodesTyped'
      BY <1>1, <1>3, <1>5 DEF NodesTyped
    <2>5. QED
      BY <2>3, <2>4 DEF Typed
  <1>7. News' = News
    <2>1. \A q \in Producers : News'[q] = News[q]
      BY <1>2, <1>3 DEF News
    <2>2. QED
      BY <2>1 DEF News
  <1>8. \A m \in Nodes : Link(m)' = Link(m)
    BY <1>2, <1>3 DEF Link, Hides, SameConsumers
  <1>9. Links' = Links
    BY <1>8 DEF Links
  <1>10. Exact'
    <2>1. \A n : References(n)' = References(n)
      BY <1>4, <1>7, <1>9 DEF References
    <2>2. QED
      BY <1>1, <1>3, <1>5, <2>1 DEF Exact
  <1>11. ReadersExact'
    BY <1>1, <1>3, <1>4 DEF ReadersExact
  <1>12. Locks'
    BY <1>1, <1>2, <1>3, <1>5 DEF Locks, SameConsumers
  <1>13. Doom'
    BY <1>1, <1>3, <1>4, <1>5 DEF Doom
  <1>14. Entering'
    BY <1>1, <1>2, <1>3, <1>4 DEF Entering, SameConsumers
  <1>15. InOrder'
    <2>1. PICK Q \in SUBSET Existing, K \in [Consumers -> SUBSET Existing] : Line(Q, K)
      BY <1>1 DEF InOrder
    <2>2. \A q \in Producers : pc'[q] = "link" => q # p
      BY <1>3
    <2>3. InLine(Q)'
      <3>1. InLine(Q) /\ \A m \in Q : Link(m)' = Link(m)
        BY <1>1, <1>8, <2>1, InNodes DEF Line
      <3>2. \A q \in Producers : /\ pc'[q] = "link" <=> pc[q] = "link"
                                 /\ pc[q] = "link" => old'[q] = old[q] /\ mine'[q] = mine[q]
        BY <1>2, <1>3
      <3>3. QED
        BY <1>3, <1>5, <3>1, <3>2 DEF InLine
    <2>4. \A c \in Consumers : Chain(c, Q, K[c])'
      BY <1>2, <1>3, <1>5, <2>1 DEF Line, Chain, SameConsumers
    <2>5. Line(Q, K)'
      BY <2>1, <2>3, <2>4 DEF Line
    <2>6. QED
      BY <1>5, <2>1, <2>5 DEF InOrder
  <1>16. QED
    BY <1>2, <1>6, <1>10, <1>11, <1>12, <1>13, <1>14, <1>15 DEF IInv

(* A new node has one reference, by the producer that will link it, and is *)
(* the end of the queue.                                                   *)
LEMMA EnqueueSwapStep ==
  ASSUME IInv, NEW p \in Producers, NEW v \in Values, EnqueueSwap(p, v)
  PROVE  IInv'
  <1>0. PICK new, t : new = Len(kind) + 1 /\ t = tail
    OBVIOUS
  <1>1. /\ Typed /\ Control /\ Exact /\ ReadersExact /\ Locks /\ Doom /\ Entering /\ InOrder
        /\ PointersTyped /\ NodesTyped
    BY DEF IInv, Typed
  <1>2. /\ SameConsumers /\ Control'
        /\ pc' \in [Producers \cup Consumers -> ProducerPCs \cup ConsumerPCs]
        /\ \A q \in Producers : q # p =>
             pc'[q] = pc[q] /\ old'[q] = old[q] /\ mine'[q] = mine[q]
    BY <1>1, ProducerLocal DEF ProducerStep
  <1>3. /\ node' = node
        /\ pc[p] = "idle" /\ pc'[p] = "link" /\ old'[p] = t /\ mine'[p] = new /\ tail' = new
        /\ old' = [old EXCEPT ![p] = t] /\ mine' = [mine EXCEPT ![p] = new]
        /\ kind' = Append(kind, v) /\ new <= MaxNodes
    BY <1>0, <1>1 DEF EnqueueSwap, Go, clearing, PointersTyped
  <1>4. /\ Ptrs' = Ptrs /\ Nexts' = Nexts /\ Ats' = Ats /\ Nxs' = Nxs /\ Reads' = Reads
        /\ \A c \in Consumers : Doomed(c)' = Doomed(c)
        /\ \A c \in Consumers : Ptr(c)' = Ptr(c) /\ Nxt(c)' = Nxt(c)
    BY <1>2, ConsumersSame
  <1>5. /\ kind' \in Seq(Values) /\ Len(kind') \in 0..MaxNodes
        /\ Existing' = Existing \cup {new} /\ Known' = Known \cup {new}
        /\ new \in Nodes /\ new \notin Existing /\ new # Nil /\ new # Header
        /\ new \notin Known
    <2>1. kind \in Seq(Values) /\ Len(kind) \in Nat /\ MaxNodes \in Nat
      BY <1>1, RCQueueAssumption DEF PointersTyped
    <2>2. kind' \in Seq(Values) /\ Len(kind') = new /\ new \in 0..MaxNodes
      BY <1>0, <1>3, <2>1
    <2>3. 0..new = 0..Len(kind) \cup {new}
      BY <1>0, <2>1
    <2>4. QED
      BY <1>0, <2>1, <2>2, <2>3 DEF Existing, Known, Nodes, Nil, Header
  <1>6. node[new] = NewNode /\ t \in Existing
    BY <1>0, <1>1, <1>5 DEF NodesTyped, PointersTyped
  <1>7. Typed'
    <2>1. old' \in [Producers -> Known'] /\ mine' \in [Producers -> Known']
      <3>1. t \in Known'
        BY <1>5, <1>6 DEF Known
      <3>2. QED
        BY <1>1, <1>3, <1>5, <3>1 DEF PointersTyped
    <2>2. PointersTyped'
      <3>1. UNCHANGED <<it, at, nx, seek, back>>
        BY <1>2 DEF SameConsumers
      <3>2. it \in [Iterators -> [ptr : Known', next : Known']]
        BY <1>1, <1>5 DEF PointersTyped
      <3>3. /\ at \in [Consumers -> Known'] /\ nx \in [Consumers -> Known']
            /\ seek \in [Consumers -> Known']
        BY <1>1, <1>5 DEF PointersTyped
      <3>4. tail' \in Existing'
        BY <1>3, <1>5
      <3>5. QED
        BY <1>1, <1>2, <1>5, <2>1, <3>1, <3>2, <3>3, <3>4 DEF PointersTyped
    <2>3. NodesTyped'
      <3>1. node[new].next \in Known'
        BY <1>6 DEF NewNode, Known
      <3>2. QED
        BY <1>1, <1>3, <1>5, <3>1 DEF NodesTyped
    <2>4. QED
      BY <2>2, <2>3 DEF Typed
  <1>8. \A m \in Nodes : Link(m)' = Link(m)
    BY <1>2, <1>3 DEF Link, Hides, SameConsumers
  <1>9. Links' = Links
    BY <1>8 DEF Links
  <1>10. Exact'
    <2>1. /\ DOMAIN News = Producers /\ DOMAIN News' = Producers
          /\ News[p] = Nil /\ News'[p] = new
          /\ \A q \in Producers : q # p => News'[q] = News[q]
      BY <1>2, <1>3 DEF News
    <2>2. \A n : Count(News', n) + One(Nil, n) = Count(News, n) + One(new, n)
      BY <2>1, Finite, CountMove
    <2>3. ASSUME NEW n \in Existing
          PROVE  node'[n].remains = References(n)'
      <3>1. One(Nil, n) = 0 /\ One(new, n) = 0
        BY <1>1, <1>5, OneNil DEF One
      <3>2. Count(News, n) \in Nat /\ Count(News', n) \in Nat
        BY <2>1, Finite, CountNat
      <3>3. Count(News', n) = Count(News, n)
        BY <2>2, <3>1, <3>2
      <3>4. References(n)' = References(n)
        BY <1>4, <1>9, <3>3 DEF References
      <3>5. QED
        BY <1>1, <1>3, <3>4 DEF Exact
    <2>4. node'[new].remains = References(new)'
      <3>1. Count(Links, new) = 0
        <4>1. \A m \in Nodes : Links[m] # new
          BY <1>1, <1>5, LinkIn DEF Links, Known
        <4>2. QED
          BY <4>1, Finite, CountZero DEF Links
      <3>2. Count(News, new) = 0
        <4>1. \A q \in Producers : News[q] # new
          BY <1>1, <1>5 DEF News, PointersTyped
        <4>2. QED
          BY <4>1, Finite, CountZero DEF News
      <3>3. Count(Ptrs, new) = 0
        <4>1. \A i \in Iterators : it[i].ptr \in Known /\ it[i].next \in Known
          BY <1>1 DEF PointersTyped
        <4>2. \A i \in Iterators : Ptrs[i] # new
          BY <1>5, <4>1 DEF Ptrs
        <4>3. QED
          BY <4>2, Finite, CountZero DEF Ptrs
      <3>4. Count(Nexts, new) = 0
        <4>1. \A i \in Iterators : it[i].ptr \in Known /\ it[i].next \in Known
          BY <1>1 DEF PointersTyped
        <4>2. \A i \in Iterators : Nexts[i] # new
          BY <1>5, <4>1 DEF Nexts
        <4>3. QED
          BY <4>2, Finite, CountZero DEF Nexts
      <3>5. Count(Ats, new) = 0
        <4>1. \A c \in Consumers : Ats[c] # new
          BY <1>1, <1>5 DEF Ats, PointersTyped
        <4>2. QED
          BY <4>1, Finite, CountZero DEF Ats
      <3>6. Count(Nxs, new) = 0
        <4>1. \A c \in Consumers : Nxs[c] # new
          BY <1>1, <1>5 DEF Nxs, PointersTyped
        <4>2. QED
          BY <4>1, Finite, CountZero DEF Nxs
      <3>7. Count(News', new) = 1
        <4>1. One(Nil, new) = 0 /\ One(new, new) = 1
          BY <1>5 DEF One
        <4>2. Count(News', new) \in Nat
          BY <2>1, Finite, CountNat
        <4>3. QED
          BY <2>2, <3>2, <4>1, <4>2
      <3>8. References(new)' = 1
        BY <1>4, <1>5, <1>9, <3>1, <3>3, <3>4, <3>5, <3>6, <3>7 DEF References
      <3>9. QED
        BY <1>3, <1>6, <3>8 DEF NewNode
    <2>5. QED
      BY <1>5, <2>3, <2>4 DEF Exact
  <1>11. ReadersExact'
    BY <1>1, <1>3, <1>4 DEF ReadersExact
  <1>12. Locks'
    BY <1>1, <1>2, <1>3, <1>5, <1>6 DEF Locks, SameConsumers, NewNode
  <1>13. Doom'
    BY <1>1, <1>3, <1>4, <1>5, <1>6 DEF Doom, NewNode
  <1>14. Entering'
    BY <1>1, <1>2, <1>3, <1>4 DEF Entering, SameConsumers
  <1>15. InOrder'
    <2>1. PICK Q \in SUBSET Existing, K \in [Consumers -> SUBSET Existing] : Line(Q, K)
      BY <1>1 DEF InOrder
    <2>2. PICK R : R = Q \cup {new}
      OBVIOUS
    <2>3. InLine(Q) /\ \A m \in Q : m \in Existing /\ m \in Nodes /\ m # new /\ m # Nil
      BY <1>1, <1>5, <2>1, InNodes DEF Line
    <2>4. Link(new) = Nil
      BY <1>5, <1>1, LinkIn
    <2>5. InLine(R)'
      <3>1. \A m \in R : Link(m)' = Link(m) /\ (m = new \/ m \in Q)
        BY <1>5, <1>8, <2>2, <2>3
      <3>2. new \in R /\ Q \subseteq R /\ R \subseteq Existing' /\ Header \in R
            /\ ~node'[Header].removed /\ tail' \in R
        BY <1>3, <1>5, <2>1, <2>2, <2>3 DEF InLine
      <3>3. \A n \in R : ~node'[n].freed
        BY <1>3, <1>6, <2>2, <2>3 DEF InLine, NewNode
      <3>4. \A n \in Existing' \ R : node'[n].removed
        BY <1>3, <1>5, <2>2, <2>3 DEF InLine
      <3>5. Link(tail)' = Nil
        BY <1>3, <2>4, <3>1, <3>2
      <3>6. t \in Q /\ Link(t)' = Nil /\ t # new
        BY <1>0, <2>3, <3>1, <3>2 DEF InLine
      <3>7. ASSUME NEW q \in Producers, pc'[q] = "link"
            PROVE  /\ old'[q] \in R /\ mine'[q] \in R /\ mine'[q] # Header
                   /\ Link(old[q])' = Nil /\ old'[q] # tail' /\ old'[q] < mine'[q]
        <4>1. CASE q = p
          <5>1. \A m \in Existing : m < new
            BY <1>0, <1>1 DEF Existing, PointersTyped
          <5>2. t < new
            BY <2>3, <3>6, <5>1
          <5>3. QED
            BY <1>3, <1>5, <3>2, <3>6, <4>1, <5>2
        <4>2. CASE q # p
          <5>1. pc[q] = "link" /\ old'[q] = old[q] /\ mine'[q] = mine[q]
            BY <1>2, <3>7, <4>2
          <5>2. /\ old[q] \in Q /\ mine[q] \in Q /\ mine[q] # Header /\ Link(old[q]) = Nil
                /\ old[q] < mine[q]
            BY <2>3, <5>1 DEF InLine
          <5>3. Link(old[q])' = Nil
            BY <3>1, <3>2, <5>1, <5>2
          <5>4. QED
            BY <1>3, <2>3, <3>2, <5>1, <5>2, <5>3
        <4>3. QED
          BY <4>1, <4>2
      <3>8. ASSUME NEW q \in Producers, NEW r \in Producers,
                   pc'[q] = "link", pc'[r] = "link", q # r
            PROVE  old'[q] # old'[r] /\ mine'[q] # mine'[r]
        <4>1. \A s \in Producers : s # p /\ pc[s] = "link" =>
                old[s] # t /\ mine[s] # new
          BY <1>0, <2>3 DEF InLine
        <4>2. CASE q # p /\ r # p
          BY <1>2, <2>3, <3>8, <4>2 DEF InLine
        <4>3. CASE q = p
          BY <1>2, <1>3, <3>8, <4>1, <4>3
        <4>4. CASE r = p
          BY <1>2, <1>3, <3>8, <4>1, <4>4
        <4>5. QED
          BY <4>2, <4>3, <4>4
      <3>9. \A m \in R : Link(m)' \in R \cup {Nil}
        BY <2>3, <2>4, <3>1, <3>2 DEF InLine
      <3>10. \A n \in R \ {Header} : \/ \E m \in R : Link(m)' = n
                                     \/ \E q \in Producers : pc'[q] = "link" /\ mine'[q] = n
        <4> SUFFICES ASSUME NEW n \in R, n # Header
                     PROVE  \/ \E m \in R : Link(m)' = n
                            \/ \E q \in Producers : pc'[q] = "link" /\ mine'[q] = n
          OBVIOUS
        <4>1. CASE n = new
          BY <1>3, <4>1
        <4>2. CASE n # new /\ \E m \in Q : Link(m) = n
          BY <3>1, <3>2, <4>2
        <4>3. CASE n # new /\ \E q \in Producers : pc[q] = "link" /\ mine[q] = n
          BY <1>2, <1>3, <4>3
        <4>4. QED
          BY <2>3, <3>1, <4>1, <4>2, <4>3 DEF InLine
      <3>11. \A m1, m2 \in R : Link(m1)' = Link(m2)' /\ Link(m1)' # Nil => m1 = m2
        BY <2>3, <2>4, <3>1 DEF InLine
      <3>12. \A m \in R, q \in Producers : pc'[q] = "link" => Link(m)' # mine'[q]
        <4> SUFFICES ASSUME NEW m \in R, NEW q \in Producers, pc'[q] = "link"
                     PROVE  Link(m)' # mine'[q]
          OBVIOUS
        <4>1. Link(m)' \in Q \cup {Nil}
          BY <2>3, <2>4, <3>1 DEF InLine
        <4>2. CASE q = p
          BY <1>3, <1>5, <2>3, <4>1, <4>2
        <4>3. CASE q # p
          <5>1. pc[q] = "link" /\ mine'[q] = mine[q] /\ mine[q] \in Q
            BY <1>2, <2>3, <4>3 DEF InLine
          <5>2. QED
            BY <2>3, <2>4, <3>1, <5>1 DEF InLine
        <4>4. QED
          BY <4>2, <4>3
      <3>14. \A m \in R : Link(m)' # Nil => m < Link(m)'
        BY <2>3, <2>4, <3>1 DEF InLine
      <3>13. QED
        BY <3>2, <3>3, <3>4, <3>5, <3>7, <3>8, <3>9, <3>14, <3>10, <3>11, <3>12 DEF InLine
    <2>6. \A c \in Consumers : Chain(c, R, K[c])'
      <3> SUFFICES ASSUME NEW c \in Consumers
                   PROVE  Chain(c, R, K[c])'
        OBVIOUS
      <3>1. Chain(c, Q, K[c]) /\ new \notin K[c] /\ K[c] \subseteq Existing'
        BY <1>5, <2>1 DEF Line, Chain
      <3>2. UNCHANGED <<at, nx, seek>> /\ pc'[c] = pc[c]
        BY <1>2 DEF SameConsumers
      <3>3. QED
        BY <1>3, <2>2, <3>1, <3>2 DEF Chain
    <2>7. Line(R, K)'
      BY <2>1, <2>5, <2>6 DEF Line
    <2>8. R \in SUBSET (Existing') /\ K \in [Consumers -> SUBSET (Existing')]
      BY <1>5, <2>1, <2>2
    <2>9. QED
      BY <2>7, <2>8 DEF InOrder
  <1>16. QED
    BY <1>2, <1>7, <1>10, <1>11, <1>12, <1>13, <1>14, <1>15 DEF IInv

(* The link takes over the reference of the producer. The node it is set   *)
(* in is the end of a piece, and has a link only if it is locked, so       *)
(* without readers.                                                        *)
LEMMA EnqueueLinkStep ==
  ASSUME IInv, OneEach, NEW p \in Producers, EnqueueLink(p)
  PROVE  IInv'
  <1>0. PICK o, v : o = old[p] /\ v = mine[p]
    OBVIOUS
  <1>1. /\ Typed /\ Control /\ Exact /\ ReadersExact /\ Locks /\ Doom /\ Entering /\ InOrder
        /\ PointersTyped /\ NodesTyped
    BY DEF IInv, Typed
  <1>2. /\ SameConsumers /\ Control'
        /\ pc' \in [Producers \cup Consumers -> ProducerPCs \cup ConsumerPCs]
        /\ \A q \in Producers : q # p => pc'[q] = pc[q]
    BY <1>1, ProducerLocal DEF ProducerStep, EnqueueStep
  <1>3. /\ UNCHANGED <<kind, tail, old, mine>>
        /\ pc[p] = "link" /\ pc'[p] = "count"
        /\ node' = [node EXCEPT ![o].next = v]
    BY <1>0, <1>1 DEF EnqueueLink, Go, producing, PointersTyped
  <1>4. /\ Ptrs' = Ptrs /\ Nexts' = Nexts /\ Ats' = Ats /\ Nxs' = Nxs /\ Reads' = Reads
        /\ \A c \in Consumers : Doomed(c)' = Doomed(c)
        /\ \A c \in Consumers : Ptr(c)' = Ptr(c) /\ Nxt(c)' = Nxt(c)
    BY <1>2, ConsumersSame
  <1>5. Existing' = Existing /\ Known' = Known
    BY <1>3 DEF Existing, Known
  <1>6. PICK Q \in SUBSET Existing, K \in [Consumers -> SUBSET Existing] : Line(Q, K)
    BY <1>1 DEF InOrder
  <1>7. /\ InLine(Q) /\ \A m \in Q : m \in Existing /\ m \in Nodes /\ m # Nil
        /\ o \in Q /\ v \in Q /\ Link(o) = Nil /\ o # tail /\ ~node[o].freed
    BY <1>0, <1>1, <1>3, <1>6, InNodes DEF Line, InLine
  <1>8. /\ NodesTyped' /\ SameRemains /\ SameRemoved /\ SameWriting /\ SameReaders /\ SameFreed
        /\ \A m \in Nodes : node'[m].next = IF m = o THEN v ELSE node[m].next
    <2>1. o \in Existing /\ v \in Known
      BY <1>7 DEF Known
    <2>2. QED
      BY <1>1, <1>3, <2>1, SetNext
  <1>9. Typed'
    <2>1. PointersTyped'
      BY <1>1, <1>2, <1>3, <1>5 DEF PointersTyped, SameConsumers
    <2>2. QED
      BY <1>8, <2>1 DEF Typed
  <1>10. \A m \in Nodes : m # o => Link(m)' = Link(m)
    BY <1>2, <1>8 DEF Link, Hides, SameConsumers, SameFreed
  <1>11. \A c \in Consumers : v \notin K[c] \/ pc[c] \notin CutPCs
    BY <1>6, <1>7 DEF Line, Chain
  <1>12. \A c \in Consumers : pc[c] = "turn" => seek[c] # o
    BY <1>6, <1>7 DEF Line, Chain, CutPCs
  <1>13. Link(o)' = v
    <2>1. \A c \in Consumers : ~Hides(c, o)'
      <3> SUFFICES ASSUME NEW c \in Consumers, Hides(c, o)'
                   PROVE  FALSE
        OBVIOUS
      <3>1. pc'[c] = pc[c] /\ UNCHANGED <<at, nx, seek>>
        BY <1>2 DEF SameConsumers
      <3>2. pc[c] = "cutnext" /\ v = nx[c]
        BY <1>7, <1>8, <1>12, <3>1 DEF Hides
      <3>3. QED
        BY <1>6, <1>11, <3>2 DEF Line, Chain, CutPCs
    <2>2. QED
      BY <1>7, <1>8, <2>1 DEF Link, SameFreed
  (* Only a node that is locked has a link that another takes the place of. *)
  <1>14. node[o].next # Nil => node[o].readers = 0
    <2> SUFFICES ASSUME node[o].next # Nil
                 PROVE  node[o].readers = 0
      OBVIOUS
    <2>1. PICK c \in Consumers : Hides(c, o)
      BY <1>7 DEF Link
    <2>2. pc[c] = "cutnext" /\ at[c] = o
      BY <1>12, <2>1 DEF Hides
    <2>3. QED
      BY <1>1, <1>6, <2>2, Locked DEF LockPCs
  <1>15. Exact'
    <2>1. /\ DOMAIN News = Producers /\ DOMAIN News' = Producers
          /\ News[p] = v /\ News'[p] = Nil
          /\ \A q \in Producers : q # p => News'[q] = News[q]
      BY <1>0, <1>2, <1>3 DEF News
    <2>2. ASSUME NEW n \in Existing
          PROVE  node'[n].remains = References(n)'
      <3>1. Count(News', n) + One(v, n) = Count(News, n) + One(Nil, n)
        BY <2>1, Finite, CountMove
      <3>2. Count(Links', n) + One(Nil, n) = Count(Links, n) + One(v, n)
        BY <1>7, <1>10, <1>13, LinkMoved
      <3>3. /\ Count(News, n) \in Nat /\ Count(News', n) \in Nat
            /\ Count(Links, n) \in Nat /\ Count(Links', n) \in Nat
            /\ One(v, n) \in Nat /\ One(Nil, n) \in Nat
        <4>1. DOMAIN Links' = DOMAIN Links
          BY DEF Links
        <4>2. QED
          BY <2>1, <4>1, Finite, CountNat DEF One
      <3>4. Count(Links', n) + Count(News', n) = Count(Links, n) + Count(News, n)
        BY <3>1, <3>2, <3>3
      <3>5. References(n)' = References(n)
        <4>1. References(n)' = Count(Links', n) + Count(News', n) + Count(Ptrs, n) + Count(Nexts, n)
                + Count(Ats, n) + Count(Nxs, n) + (IF n = Header THEN 1 ELSE 0)
          BY <1>4 DEF References
        <4>2. QED
          BY <3>4, <4>1 DEF References
      <3>6. node'[n].remains = node[n].remains
        BY <1>1, <1>8, InNodes DEF SameRemains
      <3>7. QED
        BY <1>1, <3>5, <3>6 DEF Exact
    <2>3. QED
      BY <1>5, <2>2 DEF Exact
  <1>16. ReadersExact'
    <2>1. \A n : Count(Reads, n)' = Count(Reads, n)
      BY <1>4
    <2>2. QED
      BY <1>1, <1>8, <2>1 DEF ReadersExact, SameReaders
  <1>17. Locks'
    <2>1. \A n \in Existing : n \in Nodes
      BY <1>1, InNodes
    <2>2. \A c \in Consumers : pc[c] \in LockPCs => at[c] \in Nodes
      BY <1>1, Standing, InNodes
    <2>3. \A n \in Existing : node'[n].writing => ~node'[n].removed /\ node'[n].readers = 0
      BY <1>1, <1>8, <2>1 DEF Locks, SameWriting, SameRemoved, SameReaders
    <2>4. \A c \in Consumers : pc[c] \in LockPCs => node'[at[c]].writing
      BY <1>1, <1>8, <2>2 DEF Locks, SameWriting
    <2>5. QED
      BY <1>1, <1>2, <1>5, <2>3, <2>4 DEF Locks, SameConsumers
  <1>18. Doom'
    <2>1. \A n \in Existing : n \in Nodes
      BY <1>1, InNodes
    <2>2. \A c \in Consumers : Doomed(c) # Nil => Doomed(c) \in Nodes
      BY <1>1, InNodes DEF PointersTyped, Doomed
    <2>3. \A n \in Existing : node'[n].freed => node'[n].remains = 0 /\ node'[n].removed
      BY <1>1, <1>8, <2>1 DEF Doom, SameFreed, SameRemains, SameRemoved
    <2>4. \A c \in Consumers : Doomed(c) # Nil =>
            node'[Doomed(c)].remains = 0 /\ ~node'[Doomed(c)].freed
      BY <1>1, <1>8, <2>2 DEF Doom, SameFreed, SameRemains
    <2>5. QED
      BY <1>1, <1>4, <1>5, <2>3, <2>4 DEF Doom
  <1>19. Entering'
    <2> SUFFICES ASSUME NEW c \in Consumers, pc[c] = "enter", Nxt(c) # Nil
                 PROVE  node'[Ptr(c)].next = Nxt(c)
      BY <1>2, <1>4 DEF Entering, SameConsumers
    <2>1. node[Ptr(c)].next = Nxt(c) /\ Ptr(c) \in Nodes
      BY <1>1, Standing, InNodes DEF Entering, ReadPCs
    <2>2. node[Ptr(c)].readers > 0
      <3>1. DOMAIN Reads = Consumers /\ Reads[c] = Ptr(c)
        BY DEF Reads, ReadPCs
      <3>2. Count(Reads, Ptr(c)) > 0
        BY <3>1, Finite, CountPositive
      <3>3. QED
        BY <1>1, <2>1, <3>2 DEF ReadersExact
    <2>3. Ptr(c) # o
      BY <1>14, <2>1, <2>2
    <2>4. QED
      BY <1>8, <2>1, <2>3
  <1>20. InOrder'
    <2>1. InLine(Q)'
      <3>1. \A m \in Q : m # o => Link(m)' = Link(m)
        BY <1>7, <1>10
      <3>2. \A q \in Producers : pc'[q] = "link" => q # p /\ pc[q] = "link"
        BY <1>2, <1>3
      <3>3. \A q \in Producers : pc[q] = "link" => old[q] \in Q /\ mine[q] \in Q /\ mine[q] # Header
              /\ Link(old[q]) = Nil /\ old[q] # tail /\ old[q] < mine[q]
        BY <1>7 DEF InLine
      <3>4. \A q \in Producers : q # p /\ pc[q] = "link" => old[q] # o /\ mine[q] # v
        BY <1>0, <1>3, <1>7 DEF InLine
      <3>5. Link(tail)' = Nil
        <4>1. PICK m : m = tail
          OBVIOUS
        <4>2. m \in Q /\ m # o /\ Link(m) = Nil
          BY <1>7, <4>1 DEF InLine
        <4>3. QED
          BY <1>3, <3>1, <4>1, <4>2
      <3>6. ASSUME NEW q \in Producers, pc'[q] = "link"
            PROVE  Link(old[q])' = Nil
        <4>1. PICK m : m = old[q]
          OBVIOUS
        <4>2. m \in Q /\ m # o /\ Link(m) = Nil
          BY <3>2, <3>3, <3>4, <3>6, <4>1
        <4>3. QED
          BY <1>3, <3>1, <4>1, <4>2
      <3>7. \A m \in Q : Link(m)' \in Q \cup {Nil}
        BY <1>7, <1>13, <3>1 DEF InLine
      <3>8. \A n \in Q \ {Header} : \/ \E m \in Q : Link(m)' = n
                                    \/ \E q \in Producers : pc'[q] = "link" /\ mine'[q] = n
        <4> SUFFICES ASSUME NEW n \in Q, n # Header
                     PROVE  \/ \E m \in Q : Link(m)' = n
                            \/ \E q \in Producers : pc'[q] = "link" /\ mine'[q] = n
          OBVIOUS
        <4>1. CASE n = v
          BY <1>7, <1>13, <4>1
        <4>2. CASE \E m \in Q : Link(m) = n
          BY <1>7, <3>1, <4>2
        <4>3. CASE n # v /\ \E q \in Producers : pc[q] = "link" /\ mine[q] = n
          BY <1>0, <1>2, <1>3, <4>3
        <4>4. QED
          BY <1>7, <4>1, <4>2, <4>3 DEF InLine
      <3>9. \A m \in Q : Link(m) # v
        BY <1>0, <1>3, <1>7 DEF InLine
      <3>10. \A m1, m2 \in Q : Link(m1)' = Link(m2)' /\ Link(m1)' # Nil => m1 = m2
        <4>1. \A m1, m2 \in Q : Link(m1) = Link(m2) /\ Link(m1) # Nil => m1 = m2
          BY <1>7 DEF InLine
        <4>2. \A m \in Q : Link(m)' = v => m = o
          BY <3>1, <3>9
        <4>3. QED
          BY <1>13, <3>1, <4>1, <4>2
      <3>11. \A m \in Q, q \in Producers : pc'[q] = "link" => Link(m)' # mine'[q]
        <4>1. \A m \in Q, q \in Producers : pc[q] = "link" => Link(m) # mine[q]
          BY <1>7 DEF InLine
        <4>2. QED
          BY <1>3, <1>13, <3>1, <3>2, <3>4, <4>1
      <3>12. /\ \A n \in Q : ~node'[n].freed
             /\ \A n \in Existing \ Q : node'[n].removed
             /\ ~node'[Header].removed /\ Header \in Q /\ tail \in Q
        BY <1>1, <1>7, <1>8, InNodes DEF InLine, SameFreed, SameRemoved
      <3>13. \A q, r \in Producers : pc[q] = "link" /\ pc[r] = "link" /\ q # r =>
               old[q] # old[r] /\ mine[q] # mine[r]
        BY <1>7 DEF InLine
      <3>14. \A q \in Producers : pc'[q] = "link" =>
               /\ old'[q] \in Q /\ mine'[q] \in Q /\ mine'[q] # Header
               /\ Link(old[q])' = Nil /\ old'[q] # tail' /\ old'[q] < mine'[q]
        BY <1>3, <3>2, <3>3, <3>6
      <3>15. \A q, r \in Producers : pc'[q] = "link" /\ pc'[r] = "link" /\ q # r =>
               old'[q] # old'[r] /\ mine'[q] # mine'[r]
        BY <1>3, <3>2, <3>13
      <3>17. \A m \in Q : Link(m)' # Nil => m < Link(m)'
        <4>1. o < v
          BY <1>0, <1>3, <1>7 DEF InLine
        <4>2. \A m \in Q : Link(m) # Nil => m < Link(m)
          BY <1>7 DEF InLine
        <4>3. QED
          BY <1>13, <3>1, <4>1, <4>2
      <3>16. QED
        BY <1>3, <1>5, <1>6, <3>5, <3>17, <3>7, <3>8, <3>10, <3>11, <3>12, <3>14, <3>15 DEF InLine
    <2>2. \A c \in Consumers : Chain(c, Q, K[c])'
      <3> SUFFICES ASSUME NEW c \in Consumers
                   PROVE  Chain(c, Q, K[c])'
        OBVIOUS
      <3>1. Chain(c, Q, K[c]) /\ \A m \in K[c] : m \in Nodes
        BY <1>1, <1>6, InNodes DEF Line
      <3>2. UNCHANGED <<at, nx, seek>> /\ pc'[c] = pc[c]
        BY <1>2 DEF SameConsumers
      <3>3. \A m \in K[c] : m # seek[c] => m # o
        <4> SUFFICES ASSUME o \in K[c], o # seek[c]
                     PROVE  FALSE
          OBVIOUS
        <4>1. Link(o) = node[o].next
          BY <1>1, <1>6, ChainLink
        <4>2. node[o].next \in K[c]
          BY <3>1 DEF Chain
        <4>3. Nil \notin K[c]
          BY <1>1, <3>1, InNodes DEF Chain
        <4>4. QED
          BY <1>7, <4>1, <4>2, <4>3
      <3>4. \A m \in K[c] : /\ node'[m].removed /\ ~node'[m].freed
                            /\ m # seek[c] => node'[m].next = node[m].next
        BY <1>8, <3>1, <3>3 DEF Chain, SameRemoved, SameFreed
      <3>5. pc[c] \in SeekPCs => node'[at[c]].next = node[at[c]].next
        <4> SUFFICES ASSUME pc[c] \in SeekPCs
                     PROVE  node'[at[c]].next = node[at[c]].next
          OBVIOUS
        <4>1. Link(at[c]) = node[at[c]].next /\ at[c] \in Nodes
          BY <1>1, <1>6, Locked, InNodes DEF SeekPCs, LockPCs
        <4>2. node[at[c]].next = nx[c] /\ nx[c] # Nil
          BY <1>1, <3>1, InNodes DEF Chain
        <4>3. QED
          BY <1>7, <1>8, <4>1, <4>2
      <3>6. pc[c] \in CutPCs => node'[seek[c]].next = node[seek[c]].next
        <4>1. pc[c] \in CutPCs => seek[c] \notin Q /\ seek[c] \in K[c]
          BY <3>1 DEF Chain
        <4>2. QED
          BY <1>7, <1>8, <3>1, <4>1
      <3>7. pc[c] = "turn" => node[seek[c]].next \in {Nil, node'[at[c]].next}
        <4> SUFFICES ASSUME pc[c] = "turn"
                     PROVE  node[seek[c]].next \in {Nil, node'[at[c]].next}
          OBVIOUS
        <4>1. Link(at[c]) = node[at[c]].next /\ at[c] \in Nodes
          BY <1>1, <1>6, Locked, InNodes DEF LockPCs
        <4>2. node[seek[c]].next \in {Nil, node[at[c]].next}
          BY <3>1 DEF Chain
        <4>3. QED
          BY <1>7, <1>8, <4>1, <4>2
      <3>8. QED
        <4>0. PICK S : S = K[c]
          OBVIOUS
        <4>1. Chain(c, Q, S)
          BY <3>1, <4>0
        <4>2. \A m \in S : node'[m].removed /\ ~node'[m].freed
          BY <3>4, <4>0
        <4>3. \A m \in S \ {seek[c]} : node'[m].next = node[m].next
          BY <3>4, <4>0
        <4>4. pc[c] \in SeekPCs \cup CutPCs =>
                /\ nx[c] \in S /\ seek[c] \in S
                /\ \A m \in S \ {seek[c]} : node'[m].next \in S
          BY <4>1, <4>3 DEF Chain
        <4>5. pc[c] \in SeekPCs \cup CutPCs =>
                \A n \in S \ {nx[c]} : \E m \in S \ {seek[c]} : node'[m].next = n
          <5> SUFFICES ASSUME pc[c] \in SeekPCs \cup CutPCs, NEW n \in S \ {nx[c]}
                       PROVE  \E m \in S \ {seek[c]} : node'[m].next = n
            OBVIOUS
          <5>1. PICK m \in S \ {seek[c]} : node[m].next = n
            BY <4>1 DEF Chain
          <5>2. QED
            BY <4>3, <5>1
        <4>6. pc[c] \in SeekPCs => node'[at[c]].next = nx[c]
          BY <3>1, <3>5 DEF Chain
        <4>7. /\ pc[c] = "cutnext" => node'[seek[c]].next = Nil
              /\ pc[c] = "turn" => node'[seek[c]].next \in {Nil, node'[at[c]].next}
          BY <3>1, <3>6, <3>7 DEF Chain, CutPCs
        <4>8. Chain(c, Q, S)'
          BY <1>5, <3>2, <4>1, <4>2, <4>4, <4>5, <4>6, <4>7 DEF Chain
        <4>9. QED
          BY <4>0, <4>8
    <2>3. Line(Q, K)'
      BY <1>6, <2>1, <2>2 DEF Line
    <2>4. QED
      BY <1>5, <1>6, <2>3 DEF InOrder
  <1>21. QED
    BY <1>2, <1>9, <1>15, <1>16, <1>17, <1>18, <1>19, <1>20 DEF IInv
-----------------------------------------------------------------------------
(* The invariant holds in the beginning, ...                               *)
LEMMA InitIInv ==
  ASSUME Init
  PROVE  IInv
  <1>1. /\ kind = <<>> /\ Len(kind) = 0 /\ Existing = {Header} /\ Known = {Header, Nil}
        /\ Header \in Nodes /\ Header # Nil /\ MaxNodes \in Nat
    <2>1. kind = <<>>
      BY DEF Init
    <2>2. MaxNodes \in Nat
      BY RCQueueAssumption
    <2>3. Len(kind) = 0
      BY <2>1
    <2>4. Existing = {Header}
      BY <2>3 DEF Existing, Header
    <2>5. QED
      BY <2>1, <2>2, <2>3, <2>4 DEF Known, Header, Nil, Nodes
  <1>2. /\ \A p \in Producers : pc[p] = "idle" /\ old[p] = Nil /\ mine[p] = Nil
        /\ \A c \in Consumers : /\ pc[c] = "out" /\ back[c] = "out" /\ at[c] = Nil
                                /\ nx[c] = Nil /\ seek[c] = Nil
        /\ \A i \in Iterators : it[i].ptr = Nil /\ it[i].next = Nil
        /\ \A n \in Nodes : node[n] = NewNode
        /\ tail = Header
    BY RCQueueAssumption DEF Init
  <1>3. Typed
    <2>1. pc \in [Producers \cup Consumers -> ProducerPCs \cup ConsumerPCs]
      <3>1. pc = [t \in Producers \cup Consumers |->
                    IF t \in Producers THEN "idle" ELSE "out"]
        BY DEF Init
      <3>2. "idle" \in ProducerPCs /\ "out" \in ConsumerPCs
        BY DEF ProducerPCs, ConsumerPCs
      <3>3. QED
        BY <3>1, <3>2
    <2>2. it \in [Iterators -> [ptr : Known, next : Known]]
      BY <1>1 DEF Init
    <2>3. /\ old \in [Producers -> Known] /\ mine \in [Producers -> Known]
          /\ at \in [Consumers -> Known]
          /\ nx \in [Consumers -> Known] /\ seek \in [Consumers -> Known]
          /\ back \in [Consumers -> {"out", "advance", "close", "reset"}]
      BY <1>1 DEF Init
    <2>4. kind \in Seq(Values) /\ Len(kind) \in 0..MaxNodes /\ tail \in Existing
      BY <1>1, <1>2
    <2>5. NewNode \in NodeSet /\ NewNode.next = Nil
      BY DEF NewNode, NodeSet, Refs
    <2>6. node = [n \in Nodes |-> NewNode]
      BY DEF Init
    <2>7. NodesTyped
      BY <1>1, <1>2, <2>5, <2>6 DEF NodesTyped
    <2>8. QED
      BY <2>1, <2>2, <2>3, <2>4, <2>7 DEF Typed, PointersTyped
  <1>4. Control
    BY <1>2 DEF Control, ControlOf, ProducerPCs, ConsumerPCs, LeavePCs, LockPCs, ReadPCs,
                SeekPCs, CutPCs
  <1>5. \A m \in Nodes : Link(m) = Nil
    BY <1>2 DEF Link, NewNode
  <1>6. Exact
    <2>1. \A n \in Existing : n = Header /\ node[n].remains = 1
      BY <1>1, <1>2 DEF NewNode
    <2>2. Count(Links, Header) = 0 /\ Count(News, Header) = 0
      <3>1. \A m \in DOMAIN Links : Links[m] # Header
        BY <1>1, <1>5 DEF Links
      <3>2. \A p \in DOMAIN News : News[p] # Header
        BY <1>1, <1>2 DEF News
      <3>3. QED
        BY <3>1, <3>2, Finite, CountZero
    <2>3. Count(Ptrs, Header) = 0 /\ Count(Nexts, Header) = 0
      <3>1. \A i \in DOMAIN Ptrs : Ptrs[i] # Header
        BY <1>1, <1>2 DEF Ptrs
      <3>2. \A i \in DOMAIN Nexts : Nexts[i] # Header
        BY <1>1, <1>2 DEF Nexts
      <3>3. QED
        BY <3>1, <3>2, Finite, CountZero
    <2>4. Count(Ats, Header) = 0 /\ Count(Nxs, Header) = 0
      <3>1. \A c \in DOMAIN Ats : Ats[c] # Header
        BY <1>1, <1>2 DEF Ats
      <3>2. \A c \in DOMAIN Nxs : Nxs[c] # Header
        BY <1>1, <1>2 DEF Nxs
      <3>3. QED
        BY <3>1, <3>2, Finite, CountZero
    <2>5. References(Header) = 1
      BY <2>2, <2>3, <2>4 DEF References
    <2>6. QED
      BY <2>1, <2>5 DEF Exact
  <1>7. ReadersExact
    <2>1. \A n \in Nodes : n # Nil
      BY <1>1 DEF Nodes, Nil
    <2>2. \A n \in Nodes : Count(Reads, n) = 0
      <3> SUFFICES ASSUME NEW n \in Nodes
                   PROVE  Count(Reads, n) = 0
        OBVIOUS
      <3>1. \A c \in DOMAIN Reads : Reads[c] # n
        BY <1>2, <2>1 DEF Reads, ReadPCs
      <3>2. QED
        BY <3>1, Finite, CountZero
    <2>3. QED
      BY <1>2, <2>2 DEF ReadersExact, NewNode
  <1>8. Locks
    BY <1>1, <1>2 DEF Locks, LockPCs, NewNode
  <1>9. Doom
    BY <1>1, <1>2 DEF Doom, Doomed, NewNode
  <1>10. Entering
    BY <1>2 DEF Entering
  <1>11. InOrder
    <2>1. InLine({Header})
      BY <1>1, <1>2, <1>5 DEF InLine, NewNode
    <2>2. \A c \in Consumers : Chain(c, {Header}, {})
      BY <1>2 DEF Chain, SeekPCs, CutPCs
    <2>3. PICK K : K = [c \in Consumers |-> {}]
      OBVIOUS
    <2>4. K \in [Consumers -> SUBSET Existing] /\ \A c \in Consumers : K[c] = {}
      BY <2>3
    <2>5. Line({Header}, K)
      BY <2>1, <2>2, <2>4 DEF Line
    <2>6. QED
      BY <1>1, <2>4, <2>5 DEF InOrder
  <1>12. QED
    BY <1>3, <1>4, <1>6, <1>7, <1>8, <1>9, <1>10, <1>11 DEF IInv

(* ... every step keeps it, ...                                            *)
LEMMA NextIInv ==
  ASSUME IInv, OneEach, Next
  PROVE  IInv'
  <1>1. CASE \E p \in Producers, v \in Values : EnqueueSwap(p, v)
    BY <1>1, EnqueueSwapStep
  <1>2. CASE \E p \in Producers : EnqueueStep(p)
    BY <1>2, EnqueueLinkStep, EnqueueCountStep DEF EnqueueStep
  <1>3. ASSUME NEW c \in Consumers, LookupBegin(c) \/ CloseBegin(c) \/ LookupStep(c)
        PROVE  IInv'
    <2>1. CASE \/ LookupBegin(c) \/ LookupAgain(c) \/ LookupEnd(c) \/ LookupTry(c)
               \/ LookupTaken(c)
      BY <2>1, WalkQuiet
    <2>2. CASE LookupPass(c) \/ TakeFails(c) \/ CloseBegin(c) \/ CloseNext(c)
      BY <2>2, LeaveForQuiet
    <2>3. CASE LookupAdvance(c) \/ CloseEnd(c)
      BY <2>3, AdvanceQuiet
    <2>4. CASE LookupHeader(c)
      BY <2>4, HeaderStep
    <2>5. CASE LookupSetReading(c)
      BY <2>5, SetReadingStep
    <2>6. CASE LookupReadNext(c)
      BY <2>6, ReadNextQuiet
    <2>7. CASE LookupEnter(c)
      BY <2>7, EnterStep
    <2>8. CASE LookupUnsetReading(c)
      BY <2>8, UnsetReadingStep
    <2>9. CASE Take(c)
      BY <2>9, TakeStep
    <2>10. QED
      BY <1>3, <2>1, <2>2, <2>3, <2>4, <2>5, <2>6, <2>7, <2>8, <2>9 DEF LookupStep
  <1>4. ASSUME NEW c \in Consumers, LeaveStep(c)
        PROVE  IInv'
    <2>1. CASE LeaveNothing(c)
      BY <2>1, LeaveNothingQuiet
    <2>2. CASE LeaveLock(c)
      BY <2>2, LeaveLockStep
    <2>3. CASE LeavePlain(c)
      BY <2>3, LeavePlainStep
    <2>4. CASE LeaveDelete(c) \/ ClearFree(c)
      BY <2>4, FreeStep
    <2>5. CASE ClearBegin(c)
      BY <2>5, ClearBeginStep, ClearQuiet
    <2>6. CASE ClearSeek(c)
      BY <2>6, ClearSeekStep, SeekOnStep
    <2>7. CASE ClearTail(c)
      BY <2>7, ClearTailStep, SeekOnStep
    <2>8. CASE ClearCut(c)
      BY <2>8, ClearCutStep
    <2>9. CASE ClearLink(c)
      BY <2>9, ClearLinkStep
    <2>10. CASE ClearTurn(c)
      BY <2>10, ClearTurnStep
    <2>11. CASE ClearDefer(c)
      BY <2>11, ClearDeferStep, ClearQuiet
    <2>12. CASE ClearEnd(c)
      BY <2>12, ClearEndStep
    <2>13. QED
      BY <1>4, <2>1, <2>2, <2>3, <2>4, <2>5, <2>6, <2>7, <2>8, <2>9, <2>10, <2>11, <2>12
      DEF LeaveStep
  <1>5. QED
    BY <1>1, <1>2, <1>3, <1>4 DEF Next

(* ... and so does a step of others.                                       *)
LEMMA StutterIInv ==
  ASSUME IInv, UNCHANGED vars
  PROVE  IInv'
  <1>1. UNCHANGED <<node, tail, kind, it, pc, old, mine, at, nx, seek, back>>
    BY DEF vars, producing, clearing
  <1>2. Existing' = Existing /\ Known' = Known
    BY <1>1 DEF Existing, Known
  <1>3. SameConsumers
    BY <1>1 DEF SameConsumers
  <1>4. /\ Ptrs' = Ptrs /\ Nexts' = Nexts /\ Ats' = Ats /\ Nxs' = Nxs /\ Reads' = Reads
        /\ \A c \in Consumers : Doomed(c)' = Doomed(c)
        /\ \A c \in Consumers : Ptr(c)' = Ptr(c) /\ Nxt(c)' = Nxt(c)
    BY <1>3, ConsumersSame
  <1>5. News' = News
    BY <1>1 DEF News
  <1>6. \A m : Link(m)' = Link(m)
    BY <1>1 DEF Link, Hides
  <1>7. Links' = Links
    BY <1>6 DEF Links
  <1>8. Typed'
    BY <1>1, <1>2 DEF IInv, Typed, PointersTyped, NodesTyped
  <1>9. Control'
    BY <1>1 DEF IInv, Control, ControlOf, Ptr, Nxt
  <1>10. Exact'
    BY <1>1, <1>2, <1>4, <1>5, <1>7 DEF IInv, Exact, References
  <1>11. ReadersExact'
    BY <1>1, <1>4 DEF IInv, ReadersExact
  <1>12. Locks'
    BY <1>1, <1>2 DEF IInv, Locks
  <1>13. Doom'
    BY <1>1, <1>2, <1>4 DEF IInv, Doom
  <1>14. Entering'
    BY <1>1, <1>4 DEF IInv, Entering
  <1>15. InOrder'
    <2>1. PICK Q \in SUBSET Existing, K \in [Consumers -> SUBSET Existing] : Line(Q, K)
      BY DEF IInv, InOrder
    <2>2. InLine(Q)'
      BY <1>1, <1>2, <1>6, <2>1 DEF Line, InLine
    <2>3. \A c \in Consumers : Chain(c, Q, K[c])'
      BY <1>1, <1>2, <2>1 DEF Line, Chain
    <2>4. QED
      BY <1>2, <2>1, <2>2, <2>3 DEF InOrder, Line
  <1>16. QED
    BY <1>8, <1>9, <1>10, <1>11, <1>12, <1>13, <1>14, <1>15 DEF IInv

(* What a thread touches, by its place.                                    *)
LEMMA Touched ==
  ASSUME NEW t, NEW s, pc[t] = s
  PROVE  /\ s = "link" => TouchedBy(t) = {old[t]}
         /\ s = "loop" => TouchedBy(t) = IF Nxt(t) = Nil THEN {Ptr(t)} ELSE {}
         /\ s \in {"read", "unset", "fail"} => TouchedBy(t) = {Ptr(t)}
         /\ s \in {"check", "take"} => TouchedBy(t) = {Nxt(t)}
         /\ s = "enter" => TouchedBy(t) = {Nxt(t)} \ {Nil}
         /\ s = "leave" => TouchedBy(t) = {at[t]} \ {Nil}
         /\ s \in {"delete", "clear", "unlock", "cutnext"} => TouchedBy(t) = {at[t]}
         /\ s = "seek" => TouchedBy(t) = {seek[t]}
         /\ s \in {"cutlink", "turn"} => TouchedBy(t) = {seek[t], at[t]}
         /\ s = "defer" => TouchedBy(t) = {nx[t]} \ {Nil}
         /\ s = "free" => TouchedBy(t) = {nx[t]}
         /\ s \in {"idle", "count", "out", "header", "taken", "advance", "cut",
                   "close", "reset"} => TouchedBy(t) = {}
  <1> HIDE DEF Ptr, Nxt
  <1>1. s = "link" => TouchedBy(t) = {old[t]}
    BY DEF TouchedBy
  <1>2. s = "loop" => TouchedBy(t) = IF Nxt(t) = Nil THEN {Ptr(t)} ELSE {}
    BY DEF TouchedBy
  <1>3. s \in {"read", "unset", "fail"} => TouchedBy(t) = {Ptr(t)}
    BY DEF TouchedBy
  <1>4. s \in {"check", "take"} => TouchedBy(t) = {Nxt(t)}
    BY DEF TouchedBy
  <1>5. s = "enter" => TouchedBy(t) = {Nxt(t)} \ {Nil}
    BY DEF TouchedBy
  <1>6. s = "leave" => TouchedBy(t) = {at[t]} \ {Nil}
    BY DEF TouchedBy
  <1>7. s \in {"delete", "clear", "unlock", "cutnext"} => TouchedBy(t) = {at[t]}
    BY DEF TouchedBy
  <1>8. s = "seek" => TouchedBy(t) = {seek[t]}
    BY DEF TouchedBy
  <1>9. s \in {"cutlink", "turn"} => TouchedBy(t) = {seek[t], at[t]}
    BY DEF TouchedBy
  <1>10. s = "defer" => TouchedBy(t) = {nx[t]} \ {Nil}
    BY DEF TouchedBy
  <1>11. s = "free" => TouchedBy(t) = {nx[t]}
    BY DEF TouchedBy
  <1>12. s \in {"idle", "count", "out", "header", "taken", "advance", "cut",
                "close", "reset"} => TouchedBy(t) = {}
    BY DEF TouchedBy
  <1>13. QED
    BY <1>1, <1>2, <1>3, <1>4, <1>5, <1>6, <1>7, <1>8, <1>9, <1>10, <1>11, <1>12

(* What a thread touches it holds, has locked, or is the one to free.      *)
LEMMA SafeToTouch ==
  ASSUME IInv, OneEach
  PROVE  NoUseAfterFree
  <1>1. /\ Typed /\ Control /\ Exact /\ ReadersExact /\ Locks /\ Doom /\ Entering /\ InOrder
        /\ PointersTyped
    BY DEF IInv, Typed
  <1>2. PICK Q \in SUBSET Existing, K \in [Consumers -> SUBSET Existing] : Line(Q, K)
    BY <1>1 DEF InOrder
  (* A node that somebody refers to is not freed.                          *)
  <1>3. \A n \in Existing : node[n].remains > 0 => ~node[n].freed
    BY <1>1 DEF Doom
  <1>4. ASSUME NEW p \in Producers, NEW n \in TouchedBy(p)
        PROVE  ~node[n].freed
    <2>1. pc[p] \in ProducerPCs
      BY <1>1 DEF Control
    <2>2. CASE pc[p] = "link"
      <3>1. n = old[p]
        BY <1>4, <2>2, Touched
      <3>2. QED
        BY <1>2, <2>2, <3>1 DEF Line, InLine
    <2>3. CASE pc[p] \in {"idle", "count"}
      BY <1>4, <2>3, Touched
    <2>4. QED
      BY <2>1, <2>2, <2>3 DEF ProducerPCs
  <1>5. ASSUME NEW c \in Consumers, NEW n \in TouchedBy(c), n # Nil
        PROVE  ~node[n].freed
    <2>1. pc[c] \in ConsumerPCs /\ ControlOf(c)
      BY <1>1 DEF Control, ControlOf
    <2>2. /\ Ptr(c) \in Known /\ Nxt(c) \in Known
          /\ at[c] \in Known /\ nx[c] \in Known /\ seek[c] \in Known
          /\ \A m \in Known : m # Nil => m \in Existing
      BY <1>1, Standing, InNodes
    <2>3. \A m \in Existing : m \in {PtrSlot(c), NextSlot(c), AtSlot(c), NxSlot(c)}
             => ~node[m].freed
      BY <1>1, <1>3, OwnHeld
    <2> HIDE DEF Ptr, Nxt
    <2>4. CASE pc[c] \in {"loop", "read", "unset", "fail"}
      <3>1. n = Ptr(c)
        BY <1>5, <2>4, Touched
      <3>2. PtrSlot(c) = Ptr(c)
        BY <2>1, <2>4 DEF PtrSlot, ControlOf, LeavePCs, LockPCs
      <3>3. QED
        BY <1>5, <2>2, <2>3, <3>1, <3>2
    <2>5. CASE pc[c] \in {"check", "take"}
      <3>1. n = Nxt(c)
        BY <1>5, <2>5, Touched
      <3>2. NextSlot(c) = Nxt(c)
        BY <2>1, <2>5 DEF NextSlot, ControlOf, LeavePCs, LockPCs
      <3>3. QED
        BY <1>5, <2>2, <2>3, <3>1, <3>2
    <2>6. CASE pc[c] = "enter"
      <3>1. n = Nxt(c)
        BY <1>5, <2>6, Touched
      <3>2. PtrSlot(c) = Ptr(c)
        BY <2>1, <2>6 DEF PtrSlot, ControlOf, LeavePCs, LockPCs
      <3>3. Ptr(c) \in Existing /\ ~node[Ptr(c)].freed
        BY <1>1, <2>3, <2>6, <3>2, Standing DEF ReadPCs
      <3>4. node[Ptr(c)].next = n
        BY <1>1, <1>5, <2>6, <3>1 DEF Entering
      <3>5. n \in Existing /\ node[n].remains > 0
        BY <1>1, <1>2, <1>5, <3>3, <3>4, HeldLink
      <3>6. QED
        BY <1>3, <3>5
    <2>7. CASE pc[c] = "leave"
      <3>1. n = at[c] /\ AtSlot(c) = at[c]
        BY <1>5, <2>7, Touched DEF AtSlot
      <3>2. QED
        BY <1>5, <2>2, <2>3, <3>1
    <2>8. CASE pc[c] = "defer"
      <3>1. n = nx[c] /\ NxSlot(c) = nx[c]
        BY <1>5, <2>8, Touched DEF NxSlot
      <3>2. QED
        BY <1>5, <2>2, <2>3, <3>1
    <2>9. CASE pc[c] \in {"delete", "free"}
      <3>1. n = Doomed(c)
        BY <1>5, <2>9, Touched DEF Doomed
      <3>2. QED
        BY <1>1, <1>5, <3>1 DEF Doom
    <2>10. CASE pc[c] \in {"clear", "unlock", "cutnext"}
      <3>1. n = at[c]
        BY <1>5, <2>10, Touched
      <3>2. QED
        BY <1>1, <1>2, <2>10, <3>1, Locked DEF LockPCs
    <2>11. CASE pc[c] \in {"seek", "cutlink", "turn"}
      <3>1. n = seek[c] \/ n = at[c]
        BY <1>5, <2>11, Touched
      <3>2. ~node[at[c]].freed
        BY <1>1, <1>2, <2>11, Locked DEF LockPCs
      <3>3. ~node[seek[c]].freed
        BY <1>2, <2>11 DEF Line, Chain, SeekPCs, CutPCs
      <3>4. QED
        BY <3>1, <3>2, <3>3
    <2>12. CASE pc[c] \in {"out", "header", "taken", "advance", "cut", "close", "reset"}
      BY <1>5, <2>12, Touched
    <2>13. QED
      BY <2>1, <2>4, <2>5, <2>6, <2>7, <2>8, <2>9, <2>10, <2>11, <2>12 DEF ConsumerPCs
  <1>6. QED
    BY <1>4, <1>5 DEF NoUseAfterFree

(* At rest, only links and iterators hold references.                      *)
LEMMA ExactAtRest ==
  ASSUME IInv
  PROVE  RemainsExact
  <1> SUFFICES ASSUME AtRest, NEW n \in 0..Len(kind), ~node[n].freed
               PROVE  node[n].remains =
                        Cardinality({m \in 0..Len(kind) : ~node[m].freed /\ node[m].next = n})
                          + Cardinality({i \in Iterators : it[i].ptr = n})
                          + Cardinality({i \in Iterators : it[i].next = n})
                          + (IF n = Header THEN 1 ELSE 0)
    BY DEF RemainsExact
  <1>1. Typed /\ Control /\ Exact
    BY DEF IInv
  <1>2. n \in Existing /\ n # Nil /\ n \in Nodes /\ \A m \in Existing : m \in Nodes
    BY <1>1, InNodes DEF Existing
  <1>3. /\ \A p \in Producers : pc[p] = "idle"
        /\ \A c \in Consumers : pc[c] = "out" /\ back[c] = "out"
    <2>1. \A c \in Consumers : pc[c] = "out"
      BY DEF AtRest
    <2>2. \A c \in Consumers : ControlOf(c)
      BY <1>1 DEF Control
    <2>3. QED
      BY <2>1, <2>2 DEF AtRest, ControlOf, LeavePCs, LockPCs
  <1>4. {m \in DOMAIN Links : Links[m] = n}
          = {m \in 0..Len(kind) : ~node[m].freed /\ node[m].next = n}
    <2>1. \A m \in Nodes : Link(m) = IF node[m].freed THEN Nil ELSE node[m].next
      BY <1>3 DEF Link, Hides
    <2>2. \A m \in Nodes \ Existing : Link(m) = Nil
      BY <1>1, LinkIn
    <2>3. \A m : m \in Nodes /\ Link(m) = n <=>
                   m \in Existing /\ ~node[m].freed /\ node[m].next = n
      BY <1>2, <2>1, <2>2
    <2>4. QED
      BY <2>3 DEF Links, Existing
  <1>5. {i \in DOMAIN Ptrs : Ptrs[i] = n} = {i \in Iterators : it[i].ptr = n}
    BY <1>3 DEF Ptrs
  <1>6. {i \in DOMAIN Nexts : Nexts[i] = n} = {i \in Iterators : it[i].next = n}
    BY <1>3 DEF Nexts
  <1>7. Count(News, n) = 0 /\ Count(Ats, n) = 0 /\ Count(Nxs, n) = 0
    <2>1. \A p \in DOMAIN News : News[p] # n
      BY <1>2, <1>3 DEF News
    <2>2. \A c \in DOMAIN Ats : Ats[c] # n
      BY <1>2, <1>3 DEF Ats
    <2>3. \A c \in DOMAIN Nxs : Nxs[c] # n
      BY <1>2, <1>3 DEF Nxs, CutPCs
    <2>4. QED
      BY <2>1, <2>2, <2>3, Finite, CountZero
  <1>8. node[n].remains = Count(Links, n) + Count(Ptrs, n) + Count(Nexts, n)
                            + (IF n = Header THEN 1 ELSE 0)
    <2>1. node[n].remains = References(n)
      BY <1>1, <1>2 DEF Exact
    <2>2. Count(Links, n) \in Nat /\ Count(Ptrs, n) \in Nat /\ Count(Nexts, n) \in Nat
      BY Counts
    <2>3. QED
      BY <1>7, <2>1, <2>2 DEF References
  <1>9. QED
    BY <1>4, <1>5, <1>6, <1>8 DEF Count

(* In every reachable state the remains of every node are the references   *)
(* to it, each held by a link, an iterator, a producer or a thread in      *)
(* Leave, and the nodes that are not removed form the queue, whatever the  *)
(* numbers of threads, iterators and messages.                             *)
THEOREM CountingHolds ==
  ASSUME OneEach
  PROVE  Spec => []IInv
  <1>1. Init => IInv
    BY InitIInv
  <1>2. IInv /\ [Next]_vars => IInv'
    BY NextIInv, StutterIInv
  <1>3. QED
    BY <1>1, <1>2, PTL DEF Spec

(* No thread reads or writes a node of RCQueue after it was deleted, and   *)
(* none deletes it twice, if no two threads share an iterator.             *)
THEOREM NobodyTouchesFreed ==
  ASSUME OneEach
  PROVE  Spec => []NoUseAfterFree
  <1>1. IInv => NoUseAfterFree
    BY SafeToTouch
  <1>2. QED
    BY <1>1, CountingHolds, PTL

(* At rest the remains of a node that is not freed are its links and       *)
(* iterators: no reference is lost, so no node leaks, and none is counted  *)
(* twice.                                                                  *)
THEOREM CountsExactAtRest ==
  ASSUME OneEach
  PROVE  Spec => []RemainsExact
  <1>1. IInv => RemainsExact
    BY ExactAtRest
  <1>2. QED
    BY <1>1, CountingHolds, PTL
-----------------------------------------------------------------------------
(* The queue as a message pool.                                            *)

(* Nothing that waits lies between the nodes x and y.                      *)
NoneBetween(x, y) == \A n \in Waiting : n <= x \/ y <= n

(* The links leave nothing out, ...                                        *)
LinksPass == \A m \in Existing : node[m].next # Nil => NoneBetween(m, node[m].next)
TailLast  == \A n \in Waiting : n <= tail

(* ... what an iterator wants waits behind its ptr, and not before its     *)
(* next, ...                                                               *)
IteratorAt(i) ==
  /\ it[i].ptr # Nil => \A n \in Waiting : Wanted(i, n) => it[i].ptr < n
  /\ it[i].next # Nil => \A n \in Waiting : Wanted(i, n) => it[i].next <= n

(* ... nothing waits in the chain that Clear unlinks, Lookup passes only   *)
(* what is taken or not wanted, and takes only what is wanted, ...         *)
ConsumerAt(c) ==
  /\ pc[c] \in SeekPCs \cup CutPCs => NoneBetween(at[c], seek[c] + 1)
  /\ back[c] = "advance" => node[Nxt(c)].removed \/ ~Wanted(Uses[c], Nxt(c))
  /\ pc[c] = "take" => Wanted(Uses[c], Nxt(c))

(* ... and a producer links its node to the one before it.                 *)
ProducerAt(p) == pc[p] = "link" => NoneBetween(old[p], mine[p])

Passing ==
  /\ LinksPass /\ TailLast
  /\ \A i \in Iterators : IteratorAt(i)
  /\ \A c \in Consumers : ConsumerAt(c)
  /\ \A p \in Producers : ProducerAt(p)

(* Nodes are numbers, and those that wait exist.                           *)
LEMMA Numbers ==
  ASSUME Typed
  PROVE  /\ \A n \in Known : n \in Int
         /\ \A n \in Existing : n \in Int /\ n \in Known /\ n <= Len(kind)
         /\ \A n : n \in Waiting <=> n \in Existing /\ n # Header /\ ~node[n].removed
         /\ \A n \in Waiting : n \in Int /\ n > 0 /\ n \in Nodes
         /\ Len(kind) \in Nat
  <1>1. Len(kind) \in 0..MaxNodes /\ MaxNodes \in Nat
    BY RCQueueAssumption DEF Typed, PointersTyped
  <1>2. QED
    BY <1>1 DEF Known, Existing, Waiting, Nodes, Header, Nil

(* What waits and what is wanted after a step that only marks nodes.       *)
LEMMA WaitingLess ==
  ASSUME Typed, kind' = kind, \A n \in Nodes : node[n].removed => node'[n].removed
  PROVE  /\ \A n \in Waiting' : n \in Waiting
         /\ \A i, n : Wanted(i, n)' = Wanted(i, n)
         /\ Existing' = Existing
         /\ \A x, y : NoneBetween(x, y) => \A n \in Waiting' : n <= x \/ y <= n
  <1>1. \A n \in 1..Len(kind) : n \in Nodes
    BY Numbers, RCQueueAssumption DEF Nodes, Typed, PointersTyped
  <1>2. \A n \in Waiting' : n \in Waiting
    BY <1>1 DEF Waiting
  <1>3. QED
    BY <1>2 DEF Wanted, Existing, NoneBetween

(* A step of a consumer that marks nodes at most disturbs what concerns    *)
(* it, the links and the tail only.                                        *)
LEMMA PassingFrame ==
  ASSUME IInv, OneEach, Passing, NEW c \in Consumers, SameOthers(c),
         \A n \in Nodes : node[n].removed => node'[n].removed,
         LinksPass', TailLast', IteratorAt(Uses[c])', ConsumerAt(c)'
  PROVE  Passing'
  <1>1. Typed /\ Control /\ kind' = kind
    BY DEF IInv, SameOthers
  <1>2. /\ \A n \in Waiting' : n \in Waiting
        /\ \A i, n : Wanted(i, n)' = Wanted(i, n)
        /\ \A x, y : NoneBetween(x, y) => \A n \in Waiting' : n <= x \/ y <= n
    BY <1>1, WaitingLess
  <1>3. ASSUME NEW i \in Iterators, i # Uses[c]
        PROVE  IteratorAt(i)'
    <2>1. it'[i] = it[i] /\ IteratorAt(i)
      BY <1>3 DEF SameOthers, Passing
    <2>2. QED
      BY <1>2, <2>1 DEF IteratorAt
  <1>4. ASSUME NEW d \in Consumers, d # c
        PROVE  ConsumerAt(d)'
    <2>1. /\ pc'[d] = pc[d] /\ at'[d] = at[d] /\ seek'[d] = seek[d] /\ back'[d] = back[d]
          /\ ConsumerAt(d) /\ ControlOf(d)
      BY <1>1, <1>4 DEF SameOthers, Passing, Control
    <2>2. Nxt(d)' = Nxt(d)
      <3>1. Uses[d] \in Iterators /\ Uses[d] # Uses[c]
        BY <1>4, RCQueueAssumption DEF OneEach
      <3>2. QED
        BY <3>1 DEF SameOthers, Nxt
    <2>3. back[d] = "advance" => Nxt(d) \in Nodes
      BY <1>1, <2>1, Standing, InNodes DEF ControlOf
    <2> HIDE DEF Nxt, Ptr
    <2>4. pc'[d] \in SeekPCs \cup CutPCs => NoneBetween(at[d], seek[d] + 1)'
      BY <1>2, <2>1 DEF ConsumerAt, NoneBetween
    <2>5. back'[d] = "advance" => node'[Nxt(d)].removed \/ ~Wanted(Uses[d], Nxt(d))
      BY <2>1, <2>3 DEF ConsumerAt
    <2>6. pc'[d] = "take" => Wanted(Uses[d], Nxt(d))
      BY <2>1 DEF ConsumerAt
    <2>7. QED
      BY <1>2, <2>2, <2>4, <2>5, <2>6 DEF ConsumerAt
  <1>5. ASSUME NEW p \in Producers
        PROVE  ProducerAt(p)'
    <2>1. p \in Producers \cup (Consumers \ {c})
      OBVIOUS
    <2>2. pc'[p] = pc[p] /\ old' = old /\ mine' = mine /\ ProducerAt(p)
      BY <2>1 DEF SameOthers, Passing
    <2>3. QED
      BY <1>2, <2>2 DEF ProducerAt, NoneBetween
  <1>6. QED
    BY <1>3, <1>4, <1>5 DEF Passing

(* The links that are kept, cut or lead no further leave nothing out.      *)
LEMMA LinksFrame ==
  ASSUME Typed, Passing, kind' = kind, \A n \in Nodes : node[n].removed => node'[n].removed,
         \A m \in Existing : \/ node'[m].next = node[m].next \/ node'[m].next = Nil
                             \/ NoneBetween(m, node'[m].next)
  PROVE  LinksPass'
  <1>1. /\ \A x, y : NoneBetween(x, y) => \A n \in Waiting' : n <= x \/ y <= n
        /\ Existing' = Existing
    BY WaitingLess
  <1>2. ASSUME NEW m \in Existing, node'[m].next # Nil
        PROVE  NoneBetween(m, node'[m].next)
    BY <1>2 DEF Passing, LinksPass
  <1>3. ASSUME NEW m \in Existing, node'[m].next # Nil
        PROVE  NoneBetween(m, node[m].next)'
    <2>1. PICK y : y = node'[m].next
      OBVIOUS
    <2>2. \A n \in Waiting' : n <= m \/ y <= n
      BY <1>1, <1>2, <1>3, <2>1
    <2>3. QED
      BY <2>1, <2>2 DEF NoneBetween
  <1>4. QED
    BY <1>1, <1>3 DEF LinksPass

(* Which steps mark a node and which set a link.                           *)
LEMMA LookupKeeps ==
  ASSUME Typed, NEW c \in Consumers, LookupBegin(c) \/ CloseBegin(c) \/ LookupStep(c)
  PROVE  /\ SameNext /\ SameFreed /\ tail' = tail
         /\ \A n \in Nodes : node[n].removed => node'[n].removed
         /\ ~Take(c) => SameRemoved
  <1>1. node \in [Nodes -> NodeSet]
    BY DEF Typed, NodesTyped
  <1>2. tail' = tail
    BY DEF LookupBegin, CloseBegin, LookupStep, LookupAgain, LookupReadNext, LookupEnd, LookupPass,
           LookupTry, TakeFails, LookupTaken, LookupAdvance, CloseNext, CloseEnd, LookupHeader,
           LookupSetReading, LookupEnter, LookupUnsetReading, Take, LookupUnchanged
  <1>3. CASE \/ LookupBegin(c) \/ CloseBegin(c) \/ LookupAgain(c) \/ LookupReadNext(c)
             \/ LookupEnd(c) \/ LookupPass(c) \/ LookupTry(c) \/ TakeFails(c) \/ LookupTaken(c)
             \/ LookupAdvance(c) \/ CloseNext(c) \/ CloseEnd(c)
    <2>1. node' = node
      BY <1>3 DEF LookupBegin, CloseBegin, LookupAgain, LookupReadNext, LookupEnd, LookupPass,
                  LookupTry, TakeFails, LookupTaken, LookupAdvance, CloseNext, CloseEnd
    <2>2. QED
      BY <1>2, <2>1 DEF SameNext, SameRemoved, SameFreed
  <1>4. CASE LookupHeader(c)
    <2>1. SameNext /\ SameRemoved /\ SameFreed
      BY <1>1, <1>4 DEF LookupHeader, Refer, NodeSet, SameNext, SameRemoved, SameFreed
    <2>2. QED
      BY <1>2, <2>1 DEF SameRemoved
  <1>5. CASE LookupSetReading(c)
    <2>1. SameNext /\ SameRemoved /\ SameFreed
      BY <1>1, <1>5 DEF LookupSetReading, NodeSet, SameNext, SameRemoved, SameFreed
    <2>2. QED
      BY <1>2, <2>1 DEF SameRemoved
  <1>6. CASE LookupEnter(c)
    <2>1. SameNext /\ SameRemoved /\ SameFreed
      BY <1>1, <1>6 DEF LookupEnter, Refer, NodeSet, SameNext, SameRemoved, SameFreed
    <2>2. QED
      BY <1>2, <2>1 DEF SameRemoved
  <1>7. CASE LookupUnsetReading(c)
    <2>1. SameNext /\ SameRemoved /\ SameFreed
      BY <1>1, <1>7 DEF LookupUnsetReading, NodeSet, SameNext, SameRemoved, SameFreed
    <2>2. QED
      BY <1>2, <2>1 DEF SameRemoved
  <1>8. CASE Take(c)
    <2>1. SameNext /\ SameFreed /\ \A n \in Nodes : node[n].removed => node'[n].removed
      BY <1>1, <1>8 DEF Take, NodeSet, SameNext, SameFreed
    <2>2. QED
      BY <1>2, <1>8, <2>1
  <1>9. QED
    BY <1>3, <1>4, <1>5, <1>6, <1>7, <1>8 DEF LookupStep

(* The nodes that are not freed keep their links.                          *)
UsedKept == \A n \in Nodes : ~node'[n].freed =>
  ~node[n].freed /\ node'[n].next = node[n].next

(* Leave and Clear mark no node; two steps of Clear set a link, and one    *)
(* more changes that of a node it does not free.                           *)
LEMMA LeaveKeeps ==
  ASSUME Typed, NEW c \in Consumers, LeaveStep(c)
  PROVE  /\ SameRemoved
         /\ ClearLink(c) \/ ClearTurn(c) \/ \A n \in Nodes : node'[n].next \in {node[n].next, Nil}
         /\ ClearTail(c) \/ tail' = tail
         /\ ClearCut(c) \/ ClearLink(c) \/ ClearTurn(c) \/ UsedKept
  <1>1. node \in [Nodes -> NodeSet]
    BY DEF Typed, NodesTyped
  <1>2. ClearTail(c) \/ tail' = tail
    BY DEF LeaveStep, LeaveNothing, LeaveLock, LeavePlain, LeaveDelete, ClearBegin, ClearSeek,
           ClearCut, ClearLink, ClearTurn, ClearDefer, ClearFree, ClearEnd
  <1>3. CASE LeaveNothing(c) \/ ClearBegin(c) \/ ClearSeek(c) \/ ClearTail(c)
    <2>1. node' = node
      BY <1>3 DEF LeaveNothing, ClearBegin, ClearSeek, ClearTail
    <2>2. QED
      BY <1>2, <2>1 DEF SameRemoved, UsedKept
  <1>4. CASE LeaveLock(c)
    <2>1. SameNext /\ SameRemoved /\ UsedKept
      BY <1>1, <1>4 DEF LeaveLock, NodeSet, SameNext, SameRemoved, UsedKept
    <2>2. QED
      BY <1>2, <2>1 DEF SameNext
  <1>5. CASE LeavePlain(c)
    <2>1. SameNext /\ SameRemoved /\ UsedKept
      BY <1>1, <1>5 DEF LeavePlain, Defer, NodeSet, SameNext, SameRemoved, UsedKept
    <2>2. QED
      BY <1>2, <2>1 DEF SameNext
  <1>6. CASE LeaveDelete(c) \/ ClearEnd(c)
    <2>1. SameNext /\ SameRemoved /\ UsedKept
      BY <1>1, <1>6 DEF LeaveDelete, ClearEnd, NodeSet, SameNext, SameRemoved, UsedKept
    <2>2. QED
      BY <1>2, <2>1 DEF SameNext
  <1>7. CASE ClearDefer(c)
    <2>1. SameNext /\ SameRemoved /\ UsedKept
      BY <1>1, <1>7 DEF ClearDefer, Defer, NodeSet, SameNext, SameRemoved, UsedKept
    <2>2. QED
      BY <1>2, <2>1 DEF SameNext
  <1>8. CASE ClearCut(c)
    <2>1. SameRemoved /\ \A n \in Nodes : node'[n].next \in {node[n].next, Nil}
      BY <1>1, <1>8 DEF ClearCut, NodeSet, SameRemoved
    <2>2. QED
      BY <1>2, <1>8, <2>1
  <1>9. CASE ClearFree(c)
    <2>1. SameRemoved /\ UsedKept /\ \A n \in Nodes : node'[n].next \in {node[n].next, Nil}
      BY <1>1, <1>9 DEF ClearFree, NodeSet, SameRemoved, UsedKept
    <2>2. QED
      BY <1>2, <2>1
  <1>10. CASE ClearLink(c)
    <2>1. SameRemoved
      BY <1>1, <1>10 DEF ClearLink, NodeSet, SameRemoved
    <2>2. QED
      BY <1>2, <1>10, <2>1
  <1>11. CASE ClearTurn(c)
    <2>1. SameRemoved
      BY <1>1, <1>11 DEF ClearTurn, Refer, NodeSet, SameRemoved
    <2>2. QED
      BY <1>2, <1>11, <2>1
  <1>12. QED
    BY <1>3, <1>4, <1>5, <1>6, <1>7, <1>8, <1>9, <1>10, <1>11 DEF LeaveStep
(* A Lookup that marks nodes at most needs to say what its iterator and    *)
(* its place become.                                                       *)
LEMMA LookupFrame ==
  ASSUME IInv, OneEach, Passing, NEW c \in Consumers,
         LookupBegin(c) \/ CloseBegin(c) \/ LookupStep(c),
         IteratorAt(Uses[c])', ConsumerAt(c)'
  PROVE  Passing'
  <1>1. Typed /\ Control
    BY DEF IInv
  <1>2. SameOthers(c) /\ kind' = kind
    BY <1>1, LookupLocal, LocalOthers DEF Typed, SameOthers
  <1>3. SameNext /\ tail' = tail /\ \A n \in Nodes : node[n].removed => node'[n].removed
    BY <1>1, LookupKeeps
  <1>4. LinksPass'
    <2>1. \A m \in Existing : node'[m].next = node[m].next
      BY <1>1, <1>3, InNodes DEF SameNext
    <2>2. QED
      BY <1>1, <1>2, <1>3, <2>1, LinksFrame
  <1>5. TailLast'
    <2>1. \A n \in Waiting' : n \in Waiting
      BY <1>1, <1>2, <1>3, WaitingLess
    <2>2. QED
      BY <1>3, <2>1 DEF Passing, TailLast
  <1>6. QED
    BY <1>2, <1>3, <1>4, <1>5, PassingFrame

(* The steps of Lookup that leave the iterator where it is.                *)
LEMMA WalkPasses ==
  ASSUME IInv, OneEach, Passing, NEW c \in Consumers,
         \/ LookupBegin(c) \/ LookupAgain(c) \/ LookupSetReading(c) \/ LookupEnter(c)
         \/ LookupEnd(c) \/ LookupUnsetReading(c) \/ LookupTry(c) \/ Take(c) \/ LookupTaken(c)
         \/ LookupPass(c) \/ TakeFails(c) \/ CloseBegin(c) \/ CloseNext(c)
  PROVE  Passing'
  <1>0. LookupBegin(c) \/ CloseBegin(c) \/ LookupStep(c)
    BY Zenon DEF LookupStep
  <1>1. /\ Typed /\ Control /\ ControlOf(c) /\ PointersTyped
    BY DEF IInv, Control, Typed
  <1>2. kind' = kind /\ \A n \in Nodes : node[n].removed => node'[n].removed
    <2>1. Local(c) /\ \A n \in Nodes : node[n].removed => node'[n].removed
      BY <1>0, <1>1, LookupLocal, LookupKeeps, Zenon
    <2>2. QED
      BY <2>1 DEF Local
  <1>3. /\ \A n \in Waiting' : n \in Waiting
        /\ \A i, n : Wanted(i, n)' = Wanted(i, n)
    BY <1>1, <1>2, WaitingLess, Zenon
  <1>4. it' = it /\ Ptr(c)' = Ptr(c) /\ Nxt(c)' = Nxt(c)
    BY DEF LookupBegin, LookupAgain, LookupSetReading, LookupEnter, LookupEnd,
           LookupUnsetReading, LookupTry, Take, LookupTaken, LookupPass, TakeFails,
           CloseBegin, CloseNext, Ptr, Nxt
  <1>5. IteratorAt(Uses[c])'
    <2>1. IteratorAt(Uses[c])
      BY <1>1, Standing DEF Passing
    <2>2. QED
      BY <1>3, <1>4, <2>1 DEF IteratorAt
  <1> HIDE DEF Ptr, Nxt
  <1>6. ConsumerAt(c)'
    <2> USE DEF Go, LeaveFor
    <2>1. c \in DOMAIN pc /\ c \in DOMAIN back
      BY <1>1 DEF PointersTyped
    <2>2. CASE \/ LookupBegin(c) \/ LookupAgain(c) \/ LookupSetReading(c) \/ LookupEnter(c)
               \/ LookupEnd(c) \/ LookupUnsetReading(c) \/ Take(c) \/ LookupTaken(c)
      <3>1. pc'[c] \in {"header", "loop", "check", "read", "unset", "fail", "out", "taken"}
        BY <2>1, <2>2 DEF LookupBegin, LookupAgain, LookupSetReading, LookupEnter, LookupEnd,
                          LookupUnsetReading, Take, LookupTaken
      <3>2. back' = back
        BY <2>2 DEF LookupBegin, LookupAgain, LookupSetReading, LookupEnter, LookupEnd,
                    LookupUnsetReading, Take, LookupTaken
      <3>3. pc[c] \notin LeavePCs
        BY <2>2 DEF LookupBegin, LookupAgain, LookupSetReading, LookupEnter, LookupEnd,
                    LookupUnsetReading, Take, LookupTaken, LeavePCs, LockPCs
      <3>4. back[c] = "out"
        BY <1>1, <3>3 DEF ControlOf
      <3>5. QED
        BY <3>1, <3>2, <3>4 DEF ConsumerAt, SeekPCs, CutPCs
    <2>3. CASE LookupTry(c)
      <3>1. /\ pc[c] = "check" /\ pc'[c] = "take" /\ back' = back
            /\ Wanted(Uses[c], Nxt(c))
        BY <2>1, <2>3 DEF LookupTry
      <3>2. back[c] = "out"
        BY <1>1, <3>1 DEF ControlOf, LeavePCs, LockPCs
      <3>3. QED
        BY <1>3, <1>4, <3>1, <3>2 DEF ConsumerAt, SeekPCs, CutPCs
    <2>4. CASE LookupPass(c) \/ TakeFails(c)
      <3>1. /\ pc'[c] = "leave" /\ back'[c] = "advance" /\ node' = node
            /\ node[Nxt(c)].removed \/ ~Wanted(Uses[c], Nxt(c))
        BY <2>1, <2>4 DEF LookupPass, TakeFails
      <3>2. QED
        BY <1>3, <1>4, <3>1 DEF ConsumerAt, SeekPCs, CutPCs
    <2>5. CASE CloseBegin(c) \/ CloseNext(c)
      <3>1. pc'[c] = "leave" /\ back'[c] \in {"close", "reset"}
        BY <2>1, <2>5 DEF CloseBegin, CloseNext
      <3>2. QED
        BY <3>1 DEF ConsumerAt, SeekPCs, CutPCs
    <2>6. QED
      BY <2>2, <2>3, <2>4, <2>5
  <1>7. QED
    BY <1>0, <1>5, <1>6, LookupFrame, Zenon

(* The steps that move the iterator, to the header, along a link, to the   *)
(* node it has passed, or to no node at all.                               *)
LEMMA MovePasses ==
  ASSUME IInv, OneEach, Passing, NEW c \in Consumers,
         LookupHeader(c) \/ LookupReadNext(c) \/ LookupAdvance(c) \/ CloseEnd(c)
  PROVE  Passing'
  <1>0. PICK i : i = Uses[c]
    OBVIOUS
  <1>1. /\ Typed /\ Control /\ ControlOf(c) /\ PointersTyped /\ LookupStep(c)
    BY DEF IInv, Control, LookupStep, Typed
  <1>2. kind' = kind /\ SameRemoved
    <2>1. ~Take(c)
      BY DEF LookupHeader, LookupReadNext, LookupAdvance, CloseEnd, Take
    <2>2. QED
      BY <1>1, <2>1, LookupLocal, LookupKeeps DEF Local
  <1>3. /\ \A n \in Waiting' : n \in Waiting
        /\ \A j, n : Wanted(j, n)' = Wanted(j, n)
    BY <1>1, <1>2, WaitingLess DEF SameRemoved
  <1>4. /\ i \in Iterators /\ IteratorAt(i) /\ ConsumerAt(c)
        /\ it[i] \in [ptr : Known, next : Known] /\ it \in [Iterators -> [ptr : Known, next : Known]]
        /\ c \in DOMAIN pc /\ c \in DOMAIN back
    BY <1>0, <1>1, RCQueueAssumption DEF Passing, PointersTyped
  <1>5. /\ \A n \in Waiting : n \in Int /\ n > 0 /\ ~node[n].removed
        /\ it[i].ptr \in Int /\ it[i].next \in Int
    BY <1>1, <1>4, Numbers
  <1>6. CASE LookupHeader(c)
    <2>1. it'[i] = [it[i] EXCEPT !.ptr = Header]
      BY <1>0, <1>4, <1>6 DEF LookupHeader
    <2>2. it'[i].ptr = Header /\ it'[i].next = it[i].next
      BY <1>4, <2>1
    <2>3. IteratorAt(i)'
      BY <1>3, <1>4, <1>5, <2>2 DEF IteratorAt, Header
    <2>4. ConsumerAt(c)'
      <3>1. pc'[c] = "loop" /\ back' = back /\ pc[c] = "header"
        BY <1>4, <1>6 DEF LookupHeader, Go
      <3>2. back[c] = "out"
        BY <1>1, <3>1 DEF ControlOf, LeavePCs, LockPCs
      <3>3. QED
        BY <3>1, <3>2 DEF ConsumerAt, SeekPCs, CutPCs
    <2>5. QED
      BY <1>0, <1>1, <2>3, <2>4, LookupFrame
  <1>7. CASE LookupReadNext(c)
    <2>0. PICK m, y : m = Ptr(c) /\ y = node[m].next
      OBVIOUS
    <2>1. it'[i] = [it[i] EXCEPT !.next = y] /\ pc[c] = "read"
      BY <1>0, <1>4, <1>7, <2>0 DEF LookupReadNext
    <2>2. it'[i].ptr = it[i].ptr /\ it'[i].next = y /\ m = it[i].ptr
      BY <1>0, <1>4, <2>0, <2>1 DEF Ptr
    <2>3. m \in Existing /\ y \in Known /\ y \in Int /\ m \in Int /\ m # Nil
      <3>1. m \in Existing
        BY <1>1, <2>0, <2>1, Standing DEF ReadPCs
      <3>2. y \in Known
        BY <1>1, <2>0, <3>1 DEF Typed, NodesTyped
      <3>3. QED
        BY <1>1, <3>1, <3>2, Numbers, InNodes
    <2>4. y # Nil => NoneBetween(m, y)
      BY <2>0, <2>3 DEF Passing, LinksPass
    <2>5. IteratorAt(i)'
      <3>1. \A n \in Waiting : Wanted(i, n) => m < n
        BY <1>4, <2>2, <2>3 DEF IteratorAt
      <3>2. y # Nil => \A n \in Waiting : Wanted(i, n) => y <= n
        BY <1>5, <2>3, <2>4, <3>1 DEF NoneBetween
      <3>3. QED
        BY <1>3, <2>2, <3>1, <3>2 DEF IteratorAt
    <2>6. ConsumerAt(c)'
      <3>1. pc'[c] = "enter" /\ back' = back
        BY <1>4, <1>7 DEF LookupReadNext, Go
      <3>2. back[c] = "out"
        BY <1>1, <2>1 DEF ControlOf, LeavePCs, LockPCs
      <3>3. QED
        BY <3>1, <3>2 DEF ConsumerAt, SeekPCs, CutPCs
    <2>7. QED
      BY <1>0, <1>1, <2>5, <2>6, LookupFrame
  <1>8. CASE LookupAdvance(c)
    <2>0. PICK m : m = Nxt(c)
      OBVIOUS
    <2>1. /\ it'[i] = [ptr |-> m, next |-> Nil] /\ pc[c] = "advance"
          /\ pc'[c] = "loop" /\ back'[c] = "out"
      BY <1>0, <1>4, <1>8, <2>0 DEF LookupAdvance, Go
    <2>2. m = it[i].next /\ m # Nil /\ m \in Int
      BY <1>0, <1>1, <1>5, <2>0, <2>1 DEF Nxt, ControlOf
    <2>3. node[m].removed \/ ~Wanted(i, m)
      BY <1>0, <1>1, <1>4, <2>0, <2>1 DEF ConsumerAt, ControlOf
    <2>4. IteratorAt(i)'
      <3>1. \A n \in Waiting : Wanted(i, n) => m <= n /\ n # m
        BY <1>4, <1>5, <2>2, <2>3 DEF IteratorAt
      <3>2. \A n \in Waiting : Wanted(i, n) => m < n
        BY <1>5, <2>2, <3>1
      <3>3. QED
        BY <1>3, <2>1, <3>2 DEF IteratorAt
    <2>5. ConsumerAt(c)'
      BY <2>1 DEF ConsumerAt, SeekPCs, CutPCs
    <2>6. QED
      BY <1>0, <1>1, <2>4, <2>5, LookupFrame
  <1>9. CASE CloseEnd(c)
    <2>1. /\ it'[i] = [ptr |-> Nil, next |-> Nil] /\ pc'[c] = "out" /\ back'[c] = "out"
      BY <1>0, <1>4, <1>9 DEF CloseEnd, Go
    <2>2. IteratorAt(i)'
      BY <2>1 DEF IteratorAt
    <2>3. ConsumerAt(c)'
      BY <2>1 DEF ConsumerAt, SeekPCs, CutPCs
    <2>4. QED
      BY <1>0, <1>1, <2>2, <2>3, LookupFrame
  <1>10. QED
    BY <1>6, <1>7, <1>8, <1>9
(* A step of Leave or Clear needs to say what the links, the tail and its  *)
(* chain become.                                                           *)
LEMMA LeaveFrame ==
  ASSUME IInv, OneEach, Passing, NEW c \in Consumers, LeaveStep(c), LinksPass',
         ClearTail(c) => TailLast',
         pc'[c] \in SeekPCs \cup CutPCs => NoneBetween(at[c], seek[c] + 1)'
  PROVE  Passing'
  <1>1. Typed /\ Control /\ ControlOf(c) /\ PointersTyped
    BY DEF IInv, Control, Typed
  <1>2. SameOthers(c) /\ kind' = kind
    BY <1>1, LeaveLocal, LocalOthers DEF SameOthers
  <1>3. SameRemoved /\ (ClearTail(c) \/ tail' = tail)
    BY <1>1, LeaveKeeps
  <1>4. /\ \A n \in Waiting' : n \in Waiting
        /\ \A i, n : Wanted(i, n)' = Wanted(i, n)
    BY <1>1, <1>2, <1>3, WaitingLess DEF SameRemoved
  <1>5. it' = it /\ back' = back /\ Nxt(c)' = Nxt(c)
    BY DEF LeaveStep, LeaveNothing, LeaveLock, LeavePlain, LeaveDelete, ClearBegin, ClearSeek,
           ClearTail, ClearCut, ClearLink, ClearTurn, ClearDefer, ClearFree, ClearEnd,
           LeaveUnchanged, Nxt
  <1> HIDE DEF Nxt
  <1>6. TailLast'
    BY <1>3, <1>4 DEF Passing, TailLast
  <1>7. IteratorAt(Uses[c])'
    <2>1. IteratorAt(Uses[c])
      BY <1>1, Standing DEF Passing
    <2>2. QED
      BY <1>4, <1>5, <2>1 DEF IteratorAt
  <1>8. ConsumerAt(c)'
    <2>1. ConsumerAt(c)
      BY DEF Passing
    <2>2. pc'[c] # "take"
      <3>1. c \in DOMAIN pc /\ back[c] # "take" /\ pc[c] # "take"
        BY <1>1 DEF PointersTyped, LeaveStep, LeaveNothing, LeaveLock, LeavePlain, LeaveDelete,
           ClearBegin, ClearSeek, ClearTail, ClearCut, ClearLink, ClearTurn, ClearDefer, ClearFree,
           ClearEnd
      <3>2. QED
        BY <3>1 DEF Go, LeaveStep, LeaveNothing, LeaveLock, LeavePlain, LeaveDelete, ClearBegin,
           ClearSeek, ClearTail, ClearCut, ClearLink, ClearTurn, ClearDefer, ClearFree, ClearEnd
    <2>3. back[c] = "advance" => Nxt(c) \in Nodes
      BY <1>1, Standing, InNodes DEF ControlOf
    <2>4. QED
      BY <1>3, <1>4, <1>5, <2>1, <2>2, <2>3 DEF ConsumerAt, SameRemoved
  <1>9. QED
    BY <1>2, <1>3, <1>6, <1>7, <1>8, PassingFrame DEF SameRemoved

(* Steps that keep the links or cut one, and are not in the chain after.   *)
LEMMA LeavePasses ==
  ASSUME IInv, OneEach, Passing, NEW c \in Consumers,
         \/ LeaveNothing(c) \/ LeaveLock(c) \/ LeavePlain(c) \/ LeaveDelete(c) \/ ClearDefer(c)
         \/ ClearFree(c) \/ ClearEnd(c)
  PROVE  Passing'
  <1>1. Typed /\ Control /\ ControlOf(c) /\ PointersTyped /\ LeaveStep(c)
    BY DEF IInv, Control, Typed, LeaveStep
  <1>2. kind' = kind /\ SameRemoved
    BY <1>1, LeaveLocal, LeaveKeeps DEF Local
  <1>3. ~ClearLink(c) /\ ~ClearTurn(c) /\ ~ClearTail(c)
    BY DEF LeaveNothing, LeaveLock, LeavePlain, LeaveDelete, ClearDefer, ClearFree, ClearEnd,
           ClearLink, ClearTurn, ClearTail
  <1>4. LinksPass'
    <2>1. \A m \in Existing : node'[m].next = node[m].next \/ node'[m].next = Nil
      BY <1>1, <1>3, LeaveKeeps, InNodes
    <2>2. QED
      BY <1>1, <1>2, <2>1, LinksFrame DEF SameRemoved
  <1>5. pc'[c] \notin SeekPCs \cup CutPCs
    <2>1. c \in DOMAIN pc /\ back[c] \in {"out", "advance", "close", "reset"}
      BY <1>1 DEF PointersTyped
    <2>2. QED
      BY <2>1 DEF Go, LeaveNothing, LeaveLock, LeavePlain, LeaveDelete, ClearDefer, ClearFree,
                  ClearEnd, SeekPCs, CutPCs
  <1>6. QED
    BY <1>1, <1>3, <1>4, <1>5, LeaveFrame

(* Clear looks for the chain: the nodes it adds are removed.               *)
LEMMA SeekPasses ==
  ASSUME IInv, OneEach, Passing, NEW c \in Consumers, ClearBegin(c) \/ ClearSeek(c)
  PROVE  Passing'
  <1>0. PICK a, s, n : a = at[c] /\ s = seek[c] /\ n = node[IF pc[c] = "clear" THEN a ELSE s].next
    OBVIOUS
  <1>1. Typed /\ Control /\ ControlOf(c) /\ PointersTyped /\ LeaveStep(c)
    BY DEF IInv, Control, Typed, LeaveStep
  <1>2. kind' = kind /\ SameRemoved /\ node' = node /\ at' = at
    BY <1>1, LeaveLocal, LeaveKeeps DEF Local, ClearBegin, ClearSeek
  <1>3. ~ClearLink(c) /\ ~ClearTurn(c) /\ ~ClearTail(c)
    BY DEF ClearBegin, ClearSeek, ClearLink, ClearTurn, ClearTail
  <1>4. LinksPass'
    BY <1>1, <1>2, LinksFrame DEF SameRemoved
  <1>5. /\ \A x, y : NoneBetween(x, y) => \A m \in Waiting' : m <= x \/ y <= m
        /\ \A m \in Waiting' : m \in Waiting
    BY <1>1, <1>2, WaitingLess DEF SameRemoved
  <1>6. /\ \A m \in Waiting : m \in Int /\ ~node[m].removed
        /\ \A m \in Known : m \in Int
        /\ a \in Known /\ s \in Known
    BY <1>0, <1>1, Numbers, Standing
  <1>7. /\ a \in Int /\ s \in Int /\ c \in DOMAIN pc /\ c \in DOMAIN seek
        /\ at'[c] = a
    BY <1>0, <1>1, <1>2, <1>6 DEF PointersTyped
  <1>8. CASE ClearBegin(c)
    <2>1. /\ pc[c] = "clear" /\ n = node[a].next /\ a \in Existing
      BY <1>0, <1>1, <1>8, Standing DEF ClearBegin, LockPCs
    <2>2. CASE IsRemoved(n)
      <3>1. seek'[c] = n /\ n # Nil /\ node[n].removed
        BY <1>0, <1>7, <1>8, <2>1, <2>2 DEF ClearBegin, IsRemoved
      <3>2. NoneBetween(a, n) /\ n \in Int
        BY <1>1, <1>6, <2>1, <3>1 DEF Passing, LinksPass, Typed, NodesTyped
      <3>3. \A m \in Waiting' : m <= a \/ n + 1 <= m
        BY <1>5, <1>6, <1>7, <3>1, <3>2
      <3>4. NoneBetween(at[c], seek[c] + 1)'
        BY <1>7, <3>1, <3>3 DEF NoneBetween
      <3>5. QED
        BY <1>1, <1>3, <1>4, <3>4, LeaveFrame
    <2>3. CASE ~IsRemoved(n)
      <3>1. pc'[c] = "unlock"
        BY <1>0, <1>7, <1>8, <2>1, <2>3 DEF ClearBegin, Go
      <3>2. QED
        BY <1>1, <1>3, <1>4, <3>1, LeaveFrame DEF SeekPCs, CutPCs
    <2>4. QED
      BY <2>2, <2>3
  <1>9. CASE ClearSeek(c)
    <2>1. /\ pc[c] = "seek" /\ n = node[s].next /\ s \in Existing
      BY <1>0, <1>1, <1>9, Standing DEF ClearSeek, SeekPCs
    <2>2. NoneBetween(a, s + 1)
      BY <1>0, <2>1 DEF Passing, ConsumerAt, SeekPCs
    <2>3. CASE IsRemoved(n)
      <3>1. seek'[c] = n /\ n # Nil /\ node[n].removed
        BY <1>0, <1>7, <1>9, <2>1, <2>3 DEF ClearSeek, IsRemoved
      <3>2. NoneBetween(s, n) /\ n \in Int
        BY <1>1, <1>6, <2>1, <3>1 DEF Passing, LinksPass, Typed, NodesTyped
      <3>3. \A m \in Waiting : (m <= a \/ s + 1 <= m) /\ (m <= s \/ n <= m) /\ m # n
        BY <1>6, <2>2, <3>1, <3>2 DEF NoneBetween
      <3>4. \A m \in Waiting' : m <= a \/ n + 1 <= m
        BY <1>5, <1>6, <1>7, <3>2, <3>3
      <3>5. NoneBetween(at[c], seek[c] + 1)'
        BY <1>7, <3>1, <3>4 DEF NoneBetween
      <3>6. QED
        BY <1>1, <1>3, <1>4, <3>5, LeaveFrame
    <2>4. CASE ~IsRemoved(n)
      <3>1. seek' = seek
        BY <1>0, <1>9, <2>1, <2>4 DEF ClearSeek
      <3>2. NoneBetween(at[c], seek[c] + 1)'
        BY <1>0, <1>5, <1>7, <2>2, <3>1 DEF NoneBetween
      <3>3. QED
        BY <1>1, <1>3, <1>4, <3>2, LeaveFrame
    <2>5. QED
      BY <2>3, <2>4
  <1>10. QED
    BY <1>8, <1>9

(* Clear unlinks the chain: nothing waits between the locked node and what *)
(* was behind it.                                                          *)
LEMMA CutPasses ==
  ASSUME IInv, OneEach, Passing, NEW c \in Consumers,
         ClearTail(c) \/ ClearCut(c) \/ ClearLink(c) \/ ClearTurn(c)
  PROVE  Passing'
  <1>0. PICK a, s : a = at[c] /\ s = seek[c]
    OBVIOUS
  <1>1. Typed /\ Control /\ ControlOf(c) /\ PointersTyped /\ LeaveStep(c)
    BY DEF IInv, Control, Typed, LeaveStep
  <1>2. kind' = kind /\ SameRemoved /\ at' = at /\ seek' = seek
    BY <1>1, LeaveLocal, LeaveKeeps
    DEF Local, ClearTail, ClearCut, ClearLink, ClearTurn, clearing
  <1>3. /\ \A x, y : NoneBetween(x, y) => \A m \in Waiting' : m <= x \/ y <= m
        /\ \A m \in Waiting' : m \in Waiting
    BY <1>1, <1>2, WaitingLess DEF SameRemoved
  <1>4. pc[c] \in SeekPCs \cup CutPCs
    BY DEF ClearTail, ClearCut, ClearLink, ClearTurn, SeekPCs, CutPCs
  <1>5. /\ a \in Existing /\ s \in Existing /\ a \in Int /\ s \in Int /\ a \in Nodes /\ s \in Nodes
        /\ \A m \in Waiting : m \in Int
    BY <1>0, <1>1, <1>4, Standing, Numbers, InNodes DEF SeekPCs, CutPCs, LockPCs
  <1>6. NoneBetween(a, s + 1)
    BY <1>0, <1>4 DEF Passing, ConsumerAt
  <1>7. NoneBetween(at[c], seek[c] + 1)'
    BY <1>0, <1>2, <1>3, <1>6 DEF NoneBetween
  <1>8. a < s
    <2>1. PICK Q, K : Line(Q, K)
      BY DEF IInv, InOrder
    <2>2. QED
      BY <1>0, <1>4, <2>1 DEF Line, Chain
  <1>9. CASE ClearTail(c)
    <2>1. LinksPass'
      <3>1. node' = node
        BY <1>9 DEF ClearTail
      <3>2. QED
        BY <1>1, <1>2, <3>1, LinksFrame DEF SameRemoved
    <2>2. TailLast'
      <3>1. CASE tail = s
        <4>1. tail' = a /\ \A m \in Waiting : m <= s
          BY <1>0, <1>9, <3>1 DEF ClearTail, Passing, TailLast
        <4>2. \A m \in Waiting : m <= a
          BY <1>5, <1>6, <4>1 DEF NoneBetween
        <4>3. QED
          BY <1>3, <4>1, <4>2 DEF TailLast
      <3>2. CASE tail # s
        <4>1. tail' = tail
          BY <1>0, <1>9, <3>2 DEF ClearTail
        <4>2. QED
          BY <1>3, <4>1 DEF Passing, TailLast
      <3>3. QED
        BY <3>1, <3>2
    <2>3. QED
      BY <1>1, <1>7, <2>1, <2>2, LeaveFrame
  <1>10. ASSUME LinksPass', ~ClearTail(c)
         PROVE  Passing'
    BY <1>1, <1>7, <1>10, LeaveFrame
  <1>12. CASE ClearCut(c)
    <2>1. ~ClearTail(c) /\ ~ClearLink(c) /\ ~ClearTurn(c)
      BY <1>12 DEF ClearCut, ClearTail, ClearLink, ClearTurn
    <2>2. \A m \in Existing : node'[m].next = node[m].next \/ node'[m].next = Nil
      BY <1>1, <2>1, LeaveKeeps, InNodes
    <2>3. LinksPass'
      BY <1>1, <1>2, <2>2, LinksFrame DEF SameRemoved
    <2>4. QED
      BY <1>10, <2>1, <2>3
  <1>13. CASE ClearLink(c)
    <2>0. PICK y : y = node[s].next
      OBVIOUS
    <2>1. /\ node' = [node EXCEPT ![a].next = y] /\ y # Nil /\ ~ClearTail(c)
      BY <1>0, <1>13, <2>0 DEF ClearLink, ClearTail
    <2>2. y \in Known /\ y \in Int /\ NoneBetween(s, y)
      BY <1>1, <1>5, <2>0, <2>1, Numbers DEF Typed, NodesTyped, Passing, LinksPass
    <2>3. NoneBetween(a, y)
      BY <1>5, <1>6, <2>2 DEF NoneBetween
    <2>4. \A m \in Nodes : node'[m].next = IF m = a THEN y ELSE node[m].next
      BY <1>1, <1>2, <1>5, <2>1, <2>2, SetNext
    <2>5. LinksPass'
      BY <1>1, <1>2, <2>3, <2>4, LinksFrame, InNodes DEF SameRemoved
    <2>6. QED
      BY <1>10, <2>1, <2>5
  <1>14. CASE ClearTurn(c)
    <2>1. /\ ~ClearTail(c)
          /\ \A m \in Nodes : node'[m].next = IF m = s THEN a ELSE node[m].next
      BY <1>0, <1>1, <1>14, ClearTurnNode DEF ClearTurn, ClearTail
    <2>2. NoneBetween(s, a)
      BY <1>5, <1>8 DEF NoneBetween
    <2>3. LinksPass'
      BY <1>1, <1>2, <2>1, <2>2, LinksFrame, InNodes DEF SameRemoved
    <2>4. QED
      BY <1>10, <2>1, <2>3
  <1>15. QED
    BY <1>9, <1>12, <1>13, <1>14
(* Enqueue puts the new node behind all the others, ...                    *)
LEMMA EnqueueSwapPasses ==
  ASSUME IInv, Passing, NEW p \in Producers, NEW v \in Values, EnqueueSwap(p, v)
  PROVE  /\ Passing'
         /\ Waiting' = Waiting \cup {Len(kind) + 1}
  <1>0. PICK new : new = Len(kind) + 1
    OBVIOUS
  <1>1. Typed /\ Control /\ PointersTyped /\ NodesTyped
    BY DEF IInv, Typed
  <1>2. /\ SameConsumers
        /\ \A q \in Producers : q # p =>
             pc'[q] = pc[q] /\ old'[q] = old[q] /\ mine'[q] = mine[q]
    BY <1>1, ProducerLocal DEF ProducerStep
  <1>3. /\ node' = node /\ old'[p] = tail /\ mine'[p] = new /\ tail' = new
        /\ kind' = Append(kind, v) /\ new <= MaxNodes
    BY <1>0, <1>1 DEF EnqueueSwap, clearing, PointersTyped
  <1>4. /\ Len(kind') = new /\ new \in Int /\ new > 0
        /\ \A n \in 1..Len(kind) : kind'[n] = kind[n]
        /\ 1..new = 1..Len(kind) \cup {new} /\ Len(kind) \in Nat
    BY <1>0, <1>1, <1>3, Numbers DEF PointersTyped
  <1>5. /\ \A n \in Known : n \in Int /\ n < new
        /\ \A n \in Existing : n \in Known /\ node[n].next \in Known
        /\ \A n \in Waiting : n \in Existing /\ n \in Int /\ n > 0
    <2>1. \A n \in Known : n < new
      BY <1>0, <1>4 DEF Known, Existing, Nil
    <2>2. QED
      BY <1>1, <2>1, Numbers DEF NodesTyped
  <1>6. new \in Nodes /\ new \notin Existing /\ Existing' = Existing \cup {new}
    BY <1>0, <1>3, <1>4 DEF Nodes, Existing
  <1>7. ~node[new].removed /\ node[new].next = Nil
    BY <1>1, <1>6 DEF NodesTyped, NewNode
  <1>8. Waiting' = Waiting \cup {new}
    BY <1>3, <1>4, <1>7 DEF Waiting
  <1>9. \A i, n : n \in Existing => Wanted(i, n)' = Wanted(i, n)
    BY <1>4 DEF Wanted, Existing, Header
  <1>10. ASSUME NEW x \in Known, NEW y \in Known, NoneBetween(x, y)
         PROVE  \A n \in Waiting' : n <= x \/ y <= n
    <2>1. y <= new
      BY <1>4, <1>5
    <2>2. QED
      BY <1>8, <1>10, <2>1 DEF NoneBetween
  <1>11. LinksPass'
    <2> SUFFICES ASSUME NEW m \in Existing', node[m].next # Nil
                 PROVE  NoneBetween(m, node[m].next)'
      BY <1>3 DEF LinksPass
    <2>1. m \in Existing /\ m \in Known /\ node[m].next \in Known
      BY <1>5, <1>6, <1>7
    <2>2. PICK y : y = node[m].next
      OBVIOUS
    <2>3. NoneBetween(m, y)
      BY <2>1, <2>2 DEF Passing, LinksPass
    <2>4. \A n \in Waiting' : n <= m \/ y <= n
      BY <1>10, <2>1, <2>2, <2>3
    <2>5. QED
      BY <1>3, <2>2, <2>4 DEF NoneBetween
  <1>12. TailLast'
    BY <1>3, <1>4, <1>5, <1>8 DEF TailLast
  <1>13. ASSUME NEW i \in Iterators
         PROVE  IteratorAt(i)'
    <2>1. IteratorAt(i) /\ it' = it /\ it[i].ptr \in Known /\ it[i].next \in Known
      BY <1>1, <1>2 DEF Passing, SameConsumers, PointersTyped
    <2>2. \A n \in Waiting' : n = new \/ (n \in Waiting /\ Wanted(i, n)' = Wanted(i, n))
      BY <1>5, <1>8, <1>9
    <2>3. it[i].ptr < new /\ it[i].next <= new
      BY <1>4, <1>5, <2>1
    <2>4. it[i].ptr # Nil => \A n \in Waiting' : Wanted(i, n)' => it[i].ptr < n
      BY <2>1, <2>2, <2>3 DEF IteratorAt
    <2>5. it[i].next # Nil => \A n \in Waiting' : Wanted(i, n)' => it[i].next <= n
      BY <2>1, <2>2, <2>3 DEF IteratorAt
    <2>6. QED
      BY <2>1, <2>4, <2>5 DEF IteratorAt
  <1>14. ASSUME NEW c \in Consumers
         PROVE  ConsumerAt(c)'
    <2>1. /\ ConsumerAt(c) /\ pc'[c] = pc[c] /\ UNCHANGED <<at, seek, back>>
          /\ Nxt(c)' = Nxt(c) /\ Nxt(c) \in Known /\ at[c] \in Known
          /\ pc[c] \in SeekPCs \cup CutPCs => seek[c] \in Existing
          /\ back[c] = "advance" \/ pc[c] = "take" => Nxt(c) \in Existing
      <3>1. ControlOf(c) /\ Nxt(c) \in Known /\ at[c] \in Known
        BY <1>1, Standing DEF Control
      <3>2. /\ pc[c] \in SeekPCs \cup CutPCs => seek[c] \in Existing
            /\ back[c] = "advance" \/ pc[c] = "take" => Nxt(c) \in Existing
        BY <1>1, <3>1, Standing, InNodes DEF ControlOf
      <3>3. QED
        BY <1>2, <3>1, <3>2 DEF Passing, SameConsumers, Nxt
    <2> HIDE DEF Nxt
    <2>2. pc[c] \in SeekPCs \cup CutPCs => \A n \in Waiting' : n <= at[c] \/ seek[c] + 1 <= n
      <3>1. pc[c] \in SeekPCs \cup CutPCs => seek[c] \in Int /\ seek[c] + 1 <= new
        BY <1>4, <1>5, <2>1
      <3>2. QED
        BY <1>8, <2>1, <3>1 DEF ConsumerAt, NoneBetween
    <2>3. QED
      BY <1>3, <1>9, <2>1, <2>2 DEF ConsumerAt, NoneBetween
  <1>15. ASSUME NEW q \in Producers
         PROVE  ProducerAt(q)'
    <2>1. CASE q = p
      <3>1. \A n \in Waiting' : n <= tail \/ new <= n
        BY <1>4, <1>8 DEF Passing, TailLast
      <3>2. QED
        BY <1>3, <2>1, <3>1 DEF ProducerAt, NoneBetween
    <2>2. CASE q # p
      <3>1. /\ pc'[q] = pc[q] /\ old'[q] = old[q] /\ mine'[q] = mine[q] /\ ProducerAt(q)
            /\ old[q] \in Known /\ mine[q] \in Known
        BY <1>1, <1>2, <2>2 DEF Passing, PointersTyped
      <3>2. pc[q] = "link" => \A n \in Waiting' : n <= old[q] \/ mine[q] <= n
        BY <1>10, <3>1 DEF ProducerAt
      <3>3. QED
        BY <3>1, <3>2 DEF ProducerAt, NoneBetween
    <2>3. QED
      BY <2>1, <2>2
  <1>16. QED
    BY <1>0, <1>8, <1>11, <1>12, <1>13, <1>14, <1>15 DEF Passing

(* ... links it to the one before, and counts it.                          *)
LEMMA EnqueuePasses ==
  ASSUME IInv, Passing, NEW p \in Producers, EnqueueStep(p)
  PROVE  Passing' /\ Waiting' = Waiting
  <1>1. Typed /\ Control /\ PointersTyped /\ NodesTyped
    BY DEF IInv, Typed
  <1>2. /\ SameConsumers
        /\ \A q \in Producers : q # p =>
             pc'[q] = pc[q] /\ old'[q] = old[q] /\ mine'[q] = mine[q]
    BY <1>1, ProducerLocal DEF ProducerStep
  <1>3. kind' = kind /\ tail' = tail /\ pc'[p] # "link"
    BY <1>1 DEF EnqueueStep, EnqueueLink, EnqueueCount, Go, PointersTyped
  <1>4. /\ SameRemoved
        /\ \A m \in Existing : node'[m].next = node[m].next \/ NoneBetween(m, node'[m].next)
    <2>1. CASE EnqueueLink(p)
      <3>0. PICK o, v : o = old[p] /\ v = mine[p]
        OBVIOUS
      <3>1. node' = [node EXCEPT ![o].next = v] /\ pc[p] = "link"
        BY <2>1, <3>0 DEF EnqueueLink
      <3>2. o \in Existing /\ v \in Known
        <4>1. PICK Q, K : Line(Q, K)
          BY DEF IInv, InOrder
        <4>2. QED
          BY <1>1, <3>0, <3>1, <4>1 DEF Line, InLine, PointersTyped
      <3>3. SameRemoved /\ \A m \in Nodes : node'[m].next = IF m = o THEN v ELSE node[m].next
        BY <1>1, <1>3, <3>1, <3>2, SetNext
      <3>4. NoneBetween(o, v)
        BY <3>0, <3>1 DEF Passing, ProducerAt
      <3>5. QED
        BY <1>1, <3>3, <3>4, InNodes
    <2>2. CASE EnqueueCount(p)
      BY <2>2 DEF EnqueueCount, SameRemoved
    <2>3. QED
      BY <2>1, <2>2 DEF EnqueueStep
  <1>5. LinksPass'
    BY <1>1, <1>3, <1>4, LinksFrame DEF SameRemoved
  <1>6. Waiting' = Waiting /\ \A i, n : Wanted(i, n)' = Wanted(i, n)
    <2>1. \A n \in 1..Len(kind) : n \in Nodes
      BY <1>1, Numbers, RCQueueAssumption DEF Nodes, PointersTyped
    <2>2. QED
      BY <1>3, <1>4, <2>1 DEF Waiting, SameRemoved, Wanted
  <1>7. TailLast'
    BY <1>3, <1>6 DEF Passing, TailLast
  <1>8. ASSUME NEW i \in Iterators
        PROVE  IteratorAt(i)'
    <2>1. IteratorAt(i) /\ it' = it
      BY <1>2 DEF Passing, SameConsumers
    <2>2. QED
      BY <1>6, <2>1 DEF IteratorAt
  <1>9. ASSUME NEW c \in Consumers
        PROVE  ConsumerAt(c)'
    <2>1. /\ ConsumerAt(c) /\ pc'[c] = pc[c] /\ UNCHANGED <<at, seek, back>>
          /\ Nxt(c)' = Nxt(c)
      BY <1>2 DEF Passing, SameConsumers, Nxt
    <2>2. back[c] = "advance" => Nxt(c) \in Nodes
      BY <1>1, Standing, InNodes DEF Control, ControlOf
    <2> HIDE DEF Nxt
    <2>3. QED
      BY <1>4, <1>6, <2>1, <2>2 DEF ConsumerAt, NoneBetween, SameRemoved
  <1>10. ASSUME NEW q \in Producers
         PROVE  ProducerAt(q)'
    <2>1. CASE q # p
      <3>1. pc'[q] = pc[q] /\ old'[q] = old[q] /\ mine'[q] = mine[q] /\ ProducerAt(q)
        BY <1>2, <2>1 DEF Passing
      <3>2. QED
        BY <1>6, <3>1 DEF ProducerAt, NoneBetween
    <2>2. QED
      BY <1>3, <2>1 DEF ProducerAt
  <1>11. QED
    BY <1>5, <1>6, <1>7, <1>8, <1>9, <1>10 DEF Passing

(* So nothing that an iterator wants is ever left behind it.               *)
LEMMA NextPasses ==
  ASSUME IInv, OneEach, Passing, Next
  PROVE  Passing'
  <1>1. CASE \E p \in Producers, v \in Values : EnqueueSwap(p, v)
    BY <1>1, EnqueueSwapPasses
  <1>2. CASE \E p \in Producers : EnqueueStep(p)
    BY <1>2, EnqueuePasses
  <1>3. ASSUME NEW c \in Consumers, LookupBegin(c) \/ CloseBegin(c) \/ LookupStep(c)
        PROVE  Passing'
    BY <1>3, WalkPasses, MovePasses DEF LookupStep
  <1>4. ASSUME NEW c \in Consumers, LeaveStep(c)
        PROVE  Passing'
    BY <1>4, LeavePasses, SeekPasses, CutPasses DEF LeaveStep
  <1>5. QED
    BY <1>1, <1>2, <1>3, <1>4 DEF Next

LEMMA InitPasses ==
  ASSUME Init
  PROVE  Passing
  <1>1. Waiting = {}
    <2>1. kind = <<>>
      BY DEF Init
    <2>2. QED
      BY <2>1 DEF Waiting
  <1>2. /\ \A i \in Iterators : it[i].ptr = Nil /\ it[i].next = Nil
        /\ \A c \in Consumers : pc[c] = "out" /\ back[c] = "out"
        /\ \A p \in Producers : pc[p] = "idle"
    BY RCQueueAssumption DEF Init
  <1>3. QED
    BY <1>1, <1>2 DEF Passing, LinksPass, TailLast, IteratorAt, ConsumerAt, ProducerAt,
                      NoneBetween, SeekPCs, CutPCs

LEMMA StutterPasses ==
  ASSUME Passing, UNCHANGED vars
  PROVE  Passing' /\ Waiting' = Waiting
  <1>1. UNCHANGED <<node, tail, kind, it, pc, old, mine, at, seek, back>>
    BY DEF vars, producing, clearing
  <1>2. Waiting' = Waiting /\ Existing' = Existing /\ \A i, n : Wanted(i, n)' = Wanted(i, n)
    BY <1>1 DEF Waiting, Existing, Wanted
  <1>3. /\ \A x, y : NoneBetween(x, y)' = NoneBetween(x, y)
        /\ \A c : Nxt(c)' = Nxt(c)
    BY <1>1, <1>2 DEF NoneBetween, Nxt
  <1>4. \A c \in Consumers : ConsumerAt(c)'
    <2> HIDE DEF Nxt
    <2>1. QED
      BY <1>1, <1>2, <1>3 DEF Passing, ConsumerAt
  <1>5. QED
    BY <1>1, <1>2, <1>3, <1>4 DEF Passing, LinksPass, TailLast, IteratorAt, ProducerAt
(* Take gets the oldest message its iterator wants: its next is wanted and *)
(* what is wanted does not wait before it.                                 *)
LEMMA TakeGets ==
  ASSUME IInv, Passing, NEW c \in Consumers, Take(c)
  PROVE  Pool!Get(Uses[c])
  <1>0. PICK m, i : m = Nxt(c) /\ i = Uses[c]
    OBVIOUS
  <1>1. Typed /\ Control /\ ControlOf(c)
    BY DEF IInv, Control
  <1>2. /\ pc[c] = "take" /\ kind' = kind /\ ~node[m].removed
        /\ node' = [node EXCEPT ![m].removed = TRUE]
        /\ got' = [got EXCEPT ![i] = m]
    BY <1>0 DEF Take, LookupUnchanged
  <1>3. /\ i \in Iterators /\ it[i].next = m
        /\ m \in Existing /\ m \in Nodes /\ m # Nil /\ m # Header
    BY <1>0, <1>1, <1>2, Standing, InNodes DEF ControlOf, Nxt
  <1>4. \A n \in Nodes : node'[n].removed <=> n = m \/ node[n].removed
    BY <1>1, <1>2, <1>3, SetRemoved
  <1>5. /\ m \in Waiting /\ m \in Int
        /\ \A n \in Waiting : n \in Int /\ n # Header
    BY <1>1, <1>2, <1>3, Numbers
  <1>6. Wanted(i, m) /\ \A n \in Waiting : Wanted(i, n) => m <= n
    BY <1>0, <1>2, <1>3 DEF Passing, ConsumerAt, IteratorAt
  <1>7. Waiting' = Waiting \ {m}
    <2>1. \A n \in 1..Len(kind) : n \in Nodes
      BY <1>1, Numbers, RCQueueAssumption DEF Nodes, Typed, PointersTyped
    <2>2. QED
      BY <1>2, <1>4, <2>1 DEF Waiting
  <1>8. PICK W : W = Pool!Wanted(i)
    OBVIOUS
  <1>9. \A n : n \in W <=> n \in Waiting /\ Wanted(i, n)
    BY <1>5, <1>8 DEF Pool!Wanted, Wanted
  <1>10. Pool!Min(W) = m
    <2>1. m \in W /\ \A n \in W : m <= n /\ n \in Int
      BY <1>5, <1>6, <1>9
    <2>2. \A x \in W : (\A n \in W : x <= n) => x = m
      BY <1>5, <2>1
    <2>3. QED
      BY <2>1, <2>2 DEF Pool!Min
  <1>11. W # {}
    BY <1>5, <1>6, <1>9
  <1>12. QED
    BY <1>0, <1>2, <1>7, <1>8, <1>10, <1>11 DEF Pool!Get

(* Every other step is an Enqueue or changes nothing of the pool.          *)
LEMMA StepsOfPool ==
  ASSUME IInv, OneEach, Passing, Next
  PROVE  Pool!Next \/ UNCHANGED <<Waiting, kind, got>>
  <1>1. Typed
    BY DEF IInv
  <1>2. ASSUME NEW p \in Producers, NEW v \in Values, EnqueueSwap(p, v)
        PROVE  Pool!Next
    <2>1. Waiting' = Waiting \cup {Len(kind) + 1}
      BY <1>2, EnqueueSwapPasses
    <2>2. kind' = Append(kind, v) /\ got' = got
      BY <1>2 DEF EnqueueSwap, history
    <2>3. Pool!Put(v)
      BY <2>1, <2>2 DEF Pool!Put
    <2>4. QED
      BY <2>3 DEF Pool!Next
  <1>3. ASSUME NEW p \in Producers, EnqueueStep(p)
        PROVE  UNCHANGED <<Waiting, kind, got>>
    <2>1. Waiting' = Waiting
      BY <1>3, EnqueuePasses
    <2>2. QED
      BY <1>3, <2>1 DEF EnqueueStep, EnqueueLink, EnqueueCount, history
  <1>4. ASSUME SameRemoved, kind' = kind
        PROVE  Waiting' = Waiting
    <2>1. \A n \in 1..Len(kind) : n \in Nodes
      BY <1>1, Numbers, RCQueueAssumption DEF Nodes, Typed, PointersTyped
    <2>2. QED
      BY <1>4, <2>1 DEF Waiting, SameRemoved
  <1>5. ASSUME NEW c \in Consumers, LookupBegin(c) \/ CloseBegin(c) \/ LookupStep(c)
        PROVE  Pool!Next \/ UNCHANGED <<Waiting, kind, got>>
    <2>1. CASE Take(c)
      <3>1. Uses[c] \in Iterators
        BY RCQueueAssumption
      <3>2. QED
        BY <2>1, <3>1, TakeGets DEF Pool!Next
    <2>2. CASE ~Take(c)
      <3>1. SameRemoved /\ kind' = kind
        BY <1>1, <1>5, <2>2, LookupKeeps DEF LookupBegin, CloseBegin, LookupStep, LookupAgain,
           LookupReadNext, LookupEnd, LookupPass, LookupTry, TakeFails, LookupTaken, LookupAdvance,
           CloseNext, CloseEnd, LookupHeader, LookupSetReading, LookupEnter, LookupUnsetReading,
           LookupUnchanged
      <3>2. got' = got
        BY <1>5, <2>2 DEF LookupBegin, CloseBegin, LookupStep, LookupAgain, LookupReadNext,
           LookupEnd, LookupPass, LookupTry, TakeFails, LookupTaken, LookupAdvance, CloseNext,
           CloseEnd, LookupHeader, LookupSetReading, LookupEnter, LookupUnsetReading, history
      <3>3. QED
        BY <1>4, <3>1, <3>2
    <2>3. QED
      BY <2>1, <2>2
  <1>6. ASSUME NEW c \in Consumers, LeaveStep(c)
        PROVE  UNCHANGED <<Waiting, kind, got>>
    <2>1. SameRemoved
      BY <1>1, <1>6, LeaveKeeps
    <2>2. kind' = kind /\ got' = got
      BY <1>6 DEF LeaveStep, LeaveNothing, LeaveLock, LeavePlain, LeaveDelete, ClearBegin,
         ClearSeek, ClearTail, ClearCut, ClearLink, ClearTurn, ClearDefer, ClearFree, ClearEnd,
         LeaveUnchanged, history
    <2>3. QED
      BY <1>4, <2>1, <2>2
  <1>7. QED
    BY <1>2, <1>3, <1>5, <1>6 DEF Next

(* The queue implements the message pool: each Lookup of RCIterator that   *)
(* succeeds takes the oldest of the waiting messages its iterator wants,   *)
(* and nobody takes it again, whatever Clear unlinks and turns back under  *)
(* the iterators meanwhile.                                                *)
THEOREM QueueIsMessagePool ==
  ASSUME OneEach
  PROVE  Spec => IsMessagePool
  <1>1. Init => Passing
    BY InitPasses
  <1>2. IInv /\ Passing /\ [Next]_vars => Passing'
    BY NextPasses, StutterPasses
  <1>3. Init => Pool!Init
    <2> SUFFICES ASSUME Init
                 PROVE  Pool!Init
      OBVIOUS
    <2>1. kind = <<>> /\ got = [i \in Iterators |-> 0]
      BY DEF Init
    <2>2. Waiting = {}
      BY <2>1 DEF Waiting
    <2>3. QED
      BY <2>1, <2>2 DEF Pool!Init
  <1>4. IInv /\ Passing /\ [Next]_vars => [Pool!Next]_Pool!vars
    <2>1. ASSUME IInv, Passing, Next
          PROVE  [Pool!Next]_Pool!vars
      BY <2>1, StepsOfPool DEF Pool!vars
    <2>2. ASSUME Passing, UNCHANGED vars
          PROVE  UNCHANGED Pool!vars
      <3>1. Waiting' = Waiting /\ kind' = kind /\ got' = got
        BY <2>2, StutterPasses DEF vars, history
      <3>2. QED
        BY <3>1 DEF Pool!vars
    <2>3. QED
      BY <2>1, <2>2
  <1>5. QED
    BY <1>1, <1>2, <1>3, <1>4, CountingHolds, PTL DEF Spec, IsMessagePool, Pool!Spec-----------------------------------------------------------------------------
(* Where the links end.                                                    *)

(* No links go round, and ...                                              *)
Closed(S) == \A m \in S : ~node[m].freed /\ node[m].next \in S
Acyclic   == \A S \in SUBSET Existing : Closed(S) => S = {}

(* ... only the tail, a node whose producer has not linked the next one    *)
(* yet and the last one of a chain that is cut off lead nowhere.           *)
IsLast(m) ==
  \/ m = tail
  \/ \E p \in Producers : pc[p] = "link" /\ old[p] = m
  \/ \E c \in Consumers : pc[c] \in CutPCs /\ seek[c] = m

LinkLast == \A m \in Existing : ~node[m].freed /\ Link(m) = Nil => IsLast(m)

Ending == Acyclic /\ LinkLast

(* Steps that keep links, cut them or free nodes make no circle.           *)
LEMMA AcyclicFrame ==
  ASSUME Acyclic,
         \A m \in Existing' : node'[m].next # Nil => m \in Existing,
         \A m \in Existing : ~node'[m].freed =>
           ~node[m].freed /\ node'[m].next \in {node[m].next, Nil},
         Typed'
  PROVE  Acyclic'
  <1> SUFFICES ASSUME NEW S \in SUBSET (Existing'),
                      \A m \in S : ~node'[m].freed /\ node'[m].next \in S
               PROVE  S = {}
    BY DEF Acyclic, Closed
  <1>1. Nil \notin Existing'
    BY DEF Existing, Nil
  <1>2. \A m \in S : m \in Existing /\ node'[m].next # Nil
    BY <1>1
  <1>3. S \in SUBSET Existing /\ Closed(S)
    BY <1>2 DEF Closed
  <1>4. QED
    BY <1>3 DEF Acyclic

(* A bounded set of naturals that is not empty has a greatest element: the *)
(* one that leaves the least to the bound.                                 *)
LEMMA GreatestNat ==
  ASSUME NEW A, NEW k \in Nat, A \subseteq 0..k, A # {}
  PROVE  \E x \in A : \A y \in A : y <= x
  <1> DEFINE Less == {ss \in Nat \X Nat : ss[1] < ss[2]}
             Left == {k - y : y \in A}
  <1>1. \A y \in A : y \in Nat /\ k - y \in Nat
    <2>1. \A y \in 0..k : y \in Nat /\ k - y \in Nat
      OBVIOUS
    <2>2. QED
      BY <2>1, Zenon
  <1>2. Left \subseteq Nat /\ Left # {}
    BY <1>1, Zenon
  <1>3. IsWellFoundedOn(Less, Nat)
    BY NatLessThanWellFounded DEF OpToRel
  <1>4. PICK l \in Left : \A m \in Left : ~ (<<m, l>> \in Less)
    <2> HIDE DEF Less, Left
    <2> QED BY <1>2, <1>3, WFMin
  <1>5. PICK x \in A : l = k - x
    BY <1>4, Zenon
  <1>6. ASSUME NEW y \in A PROVE y <= x
    <2>1. k - y \in Left /\ k - y \in Nat /\ k - x \in Nat /\ x \in Nat /\ y \in Nat
      BY <1>1, <1>5, Zenon
    <2>2. ~(k - y < k - x)
      BY <1>4, <1>5, <2>1
    <2>3. QED
      BY <2>1, <2>2
  <1>7. QED
    BY <1>5, <1>6

(* Nor does a step that sets the link of one node x to a node y of the     *)
(* queue, later than x if that is in the queue too: the last node of the   *)
(* queue that a circle went through would lead further in the queue, or to *)
(* a chain that is cut off and that nothing leads out of.                  *)
LEMMA NoCircle ==
  ASSUME IInv, Acyclic, NEW Q, NEW K, Line(Q, K), NEW x \in Existing, NEW y \in Q,
         x \in Q => x < y,
         \A d \in Consumers : pc[d] = "cutnext" => x \notin K[d],
         NEW S \in SUBSET Existing,
         \A m \in S : ~node[m].freed /\ (IF m = x THEN y ELSE node[m].next) \in S
  PROVE  S = {}
  <1>1. Typed /\ Control /\ Locks /\ InLine(Q)
    BY DEF IInv, Line
  <1>2. Nil \notin S
    BY DEF Existing, Nil
  <1>3. ASSUME S \cap Q # {}
        PROVE  FALSE
    <2>1. Len(kind) \in Nat /\ S \cap Q \subseteq 0..Len(kind)
      BY <1>1, Numbers DEF Existing
    <2>2. PICK b \in S \cap Q : \A m \in S \cap Q : m <= b
      BY <1>3, <2>1, GreatestNat
    <2>3. /\ b \in Existing /\ ~node[b].freed
          /\ \A m \in S : m \in Int
      BY <1>1, Numbers
    <2>4. b # x
      BY <1>1, <2>2, <2>3 DEF InLine
    <2>5. node[b].next \in S
      BY <2>2, <2>4
    <2>6. Link(b) # node[b].next
      <3>1. Link(b) \in Q => b < Link(b)
        BY <1>1, <2>2, InNodes DEF InLine
      <3>2. Link(b) \in Q \cup {Nil}
        BY <1>1, <2>2 DEF InLine
      <3>3. QED
        BY <1>2, <2>2, <2>3, <2>5, <3>1, <3>2
    <2>7. PICK d \in Consumers : Hides(d, b)
      BY <2>3, <2>6 DEF Link
    <2>8. pc[d] = "cutnext" /\ at[d] = b /\ node[b].next = nx[d]
      <3>1. Chain(d, Q, K[d])
        BY DEF Line
      <3>2. pc[d] = "turn" => seek[d] \notin Q
        BY <3>1 DEF Chain, CutPCs
      <3>3. QED
        BY <2>2, <2>7, <3>2 DEF Hides
    <2>9. /\ nx[d] \in K[d] /\ node[seek[d]].next = Nil /\ x \notin K[d]
          /\ \A m \in K[d] \ {seek[d]} : node[m].next \in K[d]
      BY <2>8 DEF Line, Chain, CutPCs
    <2>10. seek[d] \notin S \cap K[d]
      BY <1>2, <2>9
    <2>11. Closed(S \cap K[d])
      BY <2>9, <2>10 DEF Closed
    <2>12. QED
      BY <2>5, <2>8, <2>9, <2>11 DEF Acyclic
  <1>4. x \notin S
    BY <1>3
  <1>5. Closed(S)
    BY <1>4 DEF Closed
  <1>6. QED
    BY <1>5 DEF Acyclic
(* A step of a consumer that keeps the tail and the links of the nodes     *)
(* that stay, and cuts no chain off, keeps where the links end.            *)
LEMMA EndingFrame ==
  ASSUME IInv, Ending, NEW c \in Consumers, SameOthers(c), Typed', tail' = tail,
         pc[c] \notin CutPCs, pc'[c] \notin CutPCs,
         \A m \in Existing : ~node'[m].freed =>
           ~node[m].freed /\ node'[m].next = node[m].next
  PROVE  Ending'
  <1>1. Existing' = Existing
    BY DEF SameOthers, Existing
  <1>2. Acyclic'
    BY <1>1, AcyclicFrame DEF Ending
  <1>3. ASSUME NEW m \in Existing, ~node'[m].freed, Link(m)' = Nil
        PROVE  IsLast(m)'
    <2>1. m \in Nodes /\ ~node[m].freed /\ node'[m].next = node[m].next
      BY <1>3, InNodes DEF IInv
    <2>2. ~Hides(c, m) /\ ~Hides(c, m)'
      BY DEF Hides, CutPCs
    <2>3. Link(m) = Nil
      BY <1>3, <2>1, <2>2, LinkStays
    <2>4. IsLast(m)
      BY <2>1, <2>3 DEF Ending, LinkLast
    <2>5. \A p \in Producers : p \in Producers \cup (Consumers \ {c})
      OBVIOUS
    <2>6. QED
      BY <2>4, <2>5 DEF IsLast, SameOthers
  <1>4. QED
    BY <1>1, <1>2, <1>3 DEF Ending, LinkLast

(* Lookup sets no link, ...                                                *)
LEMMA LookupEnds ==
  ASSUME IInv, OneEach, Ending, NEW c \in Consumers, IInv',
         LookupBegin(c) \/ CloseBegin(c) \/ LookupStep(c)
  PROVE  Ending'
  <1>1. Typed /\ Control /\ PointersTyped /\ Typed'
    BY DEF IInv, Typed
  <1>2. SameOthers(c)
    BY <1>1, LookupLocal, LocalOthers
  <1>3. SameNext /\ SameFreed /\ tail' = tail
    BY <1>1, LookupKeeps
  <1>4. pc[c] \notin CutPCs /\ pc'[c] \notin CutPCs
    <2>1. c \in DOMAIN pc
      BY <1>1 DEF PointersTyped
    <2>2. QED
      BY <2>1 DEF Go, LeaveFor, LookupStep, LookupBegin, CloseBegin, LookupHeader, LookupAgain,
           LookupSetReading, LookupReadNext, LookupEnter, LookupEnd, LookupUnsetReading, LookupPass,
           LookupTry, TakeFails, Take, LookupTaken, LookupAdvance, CloseNext, CloseEnd, CutPCs
  <1>5. QED
    BY <1>1, <1>2, <1>3, <1>4, InNodes, EndingFrame DEF SameNext, SameFreed
(* ... nor do the steps of Leave and of Clear in front of the cut, and     *)
(* after it.                                                               *)
LEMMA LeaveEnds ==
  ASSUME IInv, OneEach, Ending, NEW c \in Consumers, IInv', LeaveStep(c),
         pc[c] \notin CutPCs, pc'[c] \notin CutPCs, ~ClearLink(c)
  PROVE  Ending'
  <1>1. Typed /\ Control /\ PointersTyped /\ Typed'
    BY DEF IInv, Typed
  <1>2. SameOthers(c)
    BY <1>1, LeaveLocal, LocalOthers
  <1>3. ~ClearCut(c) /\ ~ClearTurn(c)
    BY DEF ClearCut, ClearTurn, CutPCs
  <1>4. tail' = tail
    BY <1>1, LeaveKeeps DEF ClearTail, Go, CutPCs, PointersTyped
  <1>5. UsedKept
    BY <1>1, <1>3, LeaveKeeps
  <1>6. QED
    BY <1>1, <1>2, <1>4, <1>5, InNodes, EndingFrame DEF UsedKept

(* What the four steps around the cut have in common: they free nothing,   *)
(* and all other ends are what they were.                                  *)
LEMMA CutFrame ==
  ASSUME IInv, OneEach, LinkLast, NEW c \in Consumers, NEW a, NEW s, a = at[c], s = seek[c],
         ClearTail(c) \/ ClearCut(c) \/ ClearLink(c) \/ ClearTurn(c)
  PROVE  /\ Typed /\ Control /\ Locks /\ SameOthers(c) /\ Existing' = Existing /\ SameFreed
         /\ at'[c] = a /\ seek'[c] = s /\ nx'[c] = nx[c] /\ a # s
         /\ a \in Existing /\ s \in Existing /\ a \in Nodes /\ s \in Nodes /\ c \in DOMAIN pc
         /\ \A m \in Existing : m # a /\ m # s => node'[m].next = node[m].next
         /\ \A m \in Existing : m # a /\ m # s /\ ~node[m].freed /\ Link(m)' = Nil =>
              IsLast(m)'
         /\ \A Q, K, d : Line(Q, K) /\ d \in Consumers /\ d # c =>
              ~Hides(d, a)' /\ ~Hides(d, s)'
  <1>1. /\ Typed /\ Control /\ Locks /\ PointersTyped /\ LeaveStep(c) /\ NodesTyped
        /\ node \in [Nodes -> NodeSet]
    BY DEF IInv, Typed, LeaveStep, NodesTyped
  <1>2. SameOthers(c) /\ Existing' = Existing
    BY <1>1, LeaveLocal, LocalOthers DEF SameOthers, Existing
  <1>3. pc[c] \in SeekPCs \cup CutPCs /\ pc[c] \in LockPCs
    BY DEF ClearTail, ClearCut, ClearLink, ClearTurn, SeekPCs, CutPCs, LockPCs
  <1>4. a \in Existing /\ s \in Existing /\ a \in Nodes /\ s \in Nodes /\ c \in DOMAIN pc
    BY <1>1, <1>3, Standing, InNodes DEF PointersTyped
  <1>5. at'[c] = a /\ seek'[c] = s /\ nx'[c] = nx[c]
    BY DEF ClearTail, ClearCut, ClearLink, ClearTurn, LeaveUnchanged, clearing
  <1>6. /\ SameFreed
        /\ \A m \in Nodes : m # a /\ m # s => node'[m].next = node[m].next
    BY <1>1, <1>4 DEF ClearTail, ClearCut, ClearLink, ClearTurn, Refer, NodeSet, SameFreed
  <1>7. a # s
    <2>1. PICK Q, K : Line(Q, K)
      BY DEF IInv, InOrder
    <2>2. s \in K[c]
      BY <1>3, <2>1 DEF Line, Chain
    <2>3. QED
      BY <1>1, <1>3, <2>1, <2>2, Locked
  <1>8. ASSUME NEW m \in Existing, m # a, m # s, ~node[m].freed, Link(m)' = Nil
        PROVE  IsLast(m)'
    <2>1. m \in Nodes /\ node'[m].next = node[m].next /\ (node'[m].freed <=> node[m].freed)
      BY <1>1, <1>6, <1>8, InNodes DEF SameFreed
    <2>2. ~Hides(c, m) /\ ~Hides(c, m)'
      BY <1>5, <1>8 DEF Hides
    <2>3. Link(m) = Nil
      BY <1>2, <1>8, <2>1, <2>2, LinkStays
    <2>4. IsLast(m) /\ tail' \in {tail, a} /\ (tail' # tail => tail = s)
      BY <1>8, <2>3 DEF LinkLast, ClearTail, ClearCut, ClearLink, ClearTurn
    <2>5. \A p \in Producers : p \in Producers \cup (Consumers \ {c})
      OBVIOUS
    <2>6. QED
      BY <1>2, <1>8, <2>4, <2>5 DEF IsLast, SameOthers
  <1>9. ASSUME NEW Q, NEW K, NEW d \in Consumers, d # c, Line(Q, K)
        PROVE  ~Hides(d, a)' /\ ~Hides(d, s)'
    <2>1. s \in K[c] /\ Chain(d, Q, K[d]) /\ K[c] \cap K[d] = {}
      BY <1>3, <1>9 DEF Line, Chain
    <2>2. /\ pc[d] \in LockPCs => at[d] # a /\ at[d] # s
          /\ a \notin K[d] /\ node[s].removed
      BY <1>1, <1>3, <1>9, <2>1, Locked DEF Line, Chain, Locks
    <2>3. pc[d] = "turn" => seek[d] # a /\ seek[d] # s
      BY <2>1, <2>2 DEF Chain, CutPCs
    <2>4. pc'[d] = pc[d] /\ at'[d] = at[d] /\ seek'[d] = seek[d]
      BY <1>2, <1>9 DEF SameOthers
    <2>5. QED
      BY <2>2, <2>3, <2>4 DEF Hides, LockPCs
  <1>10. QED
    BY <1>1, <1>2, <1>4, <1>5, <1>6, <1>7, <1>8, <1>9, InNodes
(* The tail moves back to the locked node, whose link is cut from then on. *)
LEMMA ClearTailEnds ==
  ASSUME IInv, OneEach, Ending, NEW c \in Consumers, IInv', ClearTail(c)
  PROVE  Ending'
  <1>0. PICK a, s : a = at[c] /\ s = seek[c]
    OBVIOUS
  <1>1. CASE tail = s
    <2>1. /\ Typed /\ SameOthers(c) /\ Existing' = Existing /\ seek'[c] = s /\ a # s
          /\ c \in DOMAIN pc
          /\ \A m \in Existing : m # a /\ m # s /\ ~node[m].freed /\ Link(m)' = Nil =>
               IsLast(m)'
      BY <1>0, CutFrame DEF Ending
    <2>2. node' = node /\ tail' = a /\ pc'[c] = "cutnext" /\ Typed'
      BY <1>0, <1>1, <2>1 DEF ClearTail, Go, IInv
    <2>3. Acyclic'
      BY <2>1, <2>2, AcyclicFrame DEF Ending
    <2>4. IsLast(a)' /\ IsLast(s)'
      BY <2>1, <2>2 DEF IsLast, CutPCs
    <2>5. LinkLast'
      BY <2>1, <2>2, <2>4 DEF LinkLast
    <2>6. QED
      BY <2>3, <2>5 DEF Ending
  <1>2. CASE tail # s
    <2>1. Typed /\ PointersTyped
      BY DEF IInv, Typed
    <2>2. pc[c] = "cut" /\ pc'[c] = "cutlink"
      BY <1>0, <1>2, <2>1 DEF ClearTail, Go, PointersTyped
    <2>3. LeaveStep(c) /\ ~ClearLink(c)
      BY <2>2 DEF LeaveStep, ClearLink
    <2>4. QED
      BY <2>2, <2>3, LeaveEnds DEF CutPCs
  <1>3. QED
    BY <1>1, <1>2

(* The locked node leads nowhere where it did not before, or further.      *)
LEMMA ClearCutEnds ==
  ASSUME IInv, OneEach, Ending, NEW c \in Consumers, IInv', ClearCut(c)
  PROVE  Ending'
  <1>0. PICK a, s : a = at[c] /\ s = seek[c]
    OBVIOUS
  <1>1. /\ Typed /\ SameOthers(c) /\ Existing' = Existing /\ SameFreed /\ seek'[c] = s /\ a # s
        /\ at'[c] = a /\ nx'[c] = nx[c] /\ a \in Existing /\ a \in Nodes /\ c \in DOMAIN pc
        /\ \A m \in Existing : m # a /\ m # s => node'[m].next = node[m].next
        /\ \A m \in Existing : m # a /\ m # s /\ ~node[m].freed /\ Link(m)' = Nil =>
             IsLast(m)'
    BY <1>0, CutFrame DEF Ending
  <1>2. pc[c] = "cutnext" /\ pc'[c] = "turn" /\ tail' = tail
    BY <1>1 DEF ClearCut, Go
  <1>3. \A m \in Nodes : node'[m].next =
           IF m = a /\ node[m].next = nx[c] THEN Nil ELSE node[m].next
    <2>1. node \in [Nodes -> NodeSet]
      BY <1>1 DEF Typed, NodesTyped
    <2>2. QED
      BY <1>0, <1>1, <2>1 DEF ClearCut, NodeSet
  <1>4. Acyclic'
    <2>1. \A m \in Existing : (node'[m].freed <=> node[m].freed)
                              /\ node'[m].next \in {node[m].next, Nil}
      BY <1>1, <1>3, InNodes DEF SameFreed
    <2>2. \A m \in Existing' : node'[m].next # Nil => m \in Existing
      BY <1>1
    <2>3. Typed'
      BY DEF IInv
    <2>4. QED
      BY <2>1, <2>2, <2>3, AcyclicFrame DEF Ending
  <1>5. IsLast(s)'
    BY <1>1, <1>2 DEF IsLast, CutPCs
  <1>6. ASSUME ~node[a].freed, Link(a)' = Nil
        PROVE  IsLast(a)'
    <2>1. Link(a) = Nil
      <3>1. CASE node[a].next = nx[c]
        BY <1>0, <1>2, <3>1 DEF Link, Hides
      <3>2. CASE node[a].next # nx[c]
        <4>1. node'[a].next = node[a].next /\ (node'[a].freed <=> node[a].freed)
          BY <1>1, <1>3, <3>2 DEF SameFreed
        <4>2. ~Hides(c, a) /\ ~Hides(c, a)'
          BY <1>0, <1>1, <1>2, <3>2 DEF Hides
        <4>3. QED
          BY <1>1, <1>6, <4>1, <4>2, LinkStays
      <3>3. QED
        BY <3>1, <3>2
    <2>2. IsLast(a)
      BY <1>1, <1>6, <2>1 DEF Ending, LinkLast
    <2>3. \A p \in Producers : p \in Producers \cup (Consumers \ {c})
      OBVIOUS
    <2>4. QED
      BY <1>0, <1>1, <1>2, <2>2, <2>3 DEF IsLast, SameOthers
  <1>7. LinkLast'
    <2>1. \A m \in Existing : node'[m].freed <=> node[m].freed
      BY <1>1, InNodes DEF SameFreed
    <2>2. QED
      BY <1>1, <1>5, <1>6, <2>1 DEF LinkLast
  <1>8. QED
    BY <1>4, <1>7 DEF Ending

(* The locked node gets the link of the last removed one, further in the   *)
(* queue.                                                                  *)
LEMMA ClearLinkEnds ==
  ASSUME IInv, OneEach, Ending, NEW c \in Consumers, IInv', ClearLink(c)
  PROVE  Ending'
  <1>0. PICK a, s, y : a = at[c] /\ s = seek[c] /\ y = node[s].next
    OBVIOUS
  <1>1. PICK Q, K : Line(Q, K)
    BY DEF IInv, InOrder
  <1>2. /\ Typed /\ Control /\ Locks /\ SameOthers(c) /\ Existing' = Existing /\ SameFreed
        /\ seek'[c] = s /\ a # s
        /\ a \in Existing /\ s \in Existing /\ a \in Nodes /\ s \in Nodes /\ c \in DOMAIN pc
        /\ \A m \in Existing : m # a /\ m # s /\ ~node[m].freed /\ Link(m)' = Nil =>
             IsLast(m)'
        /\ \A d \in Consumers : d # c => ~Hides(d, a)'
    BY <1>0, <1>1, CutFrame DEF Ending
  <1>3. pc[c] = "cutlink" /\ pc'[c] = "turn" /\ y # Nil
    BY <1>0, <1>2 DEF ClearLink, Go
  <1>4. \A m \in Nodes : node'[m].next = IF m = a THEN y ELSE node[m].next
    <2>1. node \in [Nodes -> NodeSet]
      BY <1>2 DEF Typed, NodesTyped
    <2>2. QED
      BY <1>0, <1>2, <2>1 DEF ClearLink, NodeSet
  <1>5. y \in Q /\ a < y /\ \A d \in Consumers : a \notin K[d]
    <2>1. a \in Q /\ \A d \in Consumers : a \notin K[d]
      BY <1>0, <1>1, <1>2, <1>3, Locked DEF LockPCs
    <2>2. s \in K[c] /\ s \in Q /\ a < s
      BY <1>0, <1>1, <1>3 DEF Line, Chain, SeekPCs
    <2>3. Link(s) = y
      BY <1>0, <1>1, <1>2, <1>3, <2>2, ChainLink DEF SeekPCs
    <2>4. y \in Q /\ s < y
      BY <1>1, <1>3, <2>2, <2>3 DEF Line, InLine
    <2>5. a \in Int /\ s \in Int /\ y \in Int
      BY <1>1, <1>2, <2>4, Numbers DEF Line, InLine
    <2>6. QED
      BY <2>1, <2>2, <2>4, <2>5
  <1>6. Acyclic'
    <2> SUFFICES ASSUME NEW S \in SUBSET Existing,
                        \A m \in S : ~node'[m].freed /\ node'[m].next \in S
                 PROVE  S = {}
      BY <1>2 DEF Acyclic, Closed
    <2>1. \A m \in S : ~node[m].freed /\ (IF m = a THEN y ELSE node[m].next) \in S
      BY <1>2, <1>4, InNodes DEF SameFreed
    <2>2. QED
      BY <1>1, <1>2, <1>5, <2>1, NoCircle DEF Ending
  <1>7. IsLast(s)'
    BY <1>2, <1>3 DEF IsLast, CutPCs
  <1>8. ~node[a].freed => Link(a)' # Nil
    <2>1. ~Hides(c, a)'
      BY <1>2, <1>3 DEF Hides
    <2>2. node'[a].next = y /\ (node'[a].freed <=> node[a].freed)
      BY <1>2, <1>4 DEF SameFreed
    <2>3. QED
      BY <1>2, <1>3, <2>1, <2>2 DEF Link
  <1>9. LinkLast'
    <2>1. \A m \in Existing : node'[m].freed <=> node[m].freed
      BY <1>2, InNodes DEF SameFreed
    <2>2. QED
      BY <1>2, <1>7, <1>8, <2>1 DEF LinkLast
  <1>10. QED
    BY <1>6, <1>9 DEF Ending

(* The last removed node leads back to the locked one.                     *)
LEMMA ClearTurnEnds ==
  ASSUME IInv, OneEach, Ending, NEW c \in Consumers, IInv', ClearTurn(c)
  PROVE  Ending'
  <1>0. PICK a, s : a = at[c] /\ s = seek[c]
    OBVIOUS
  <1>1. PICK Q, K : Line(Q, K)
    BY DEF IInv, InOrder
  <1>2. /\ Typed /\ Control /\ Locks /\ SameOthers(c) /\ Existing' = Existing /\ SameFreed
        /\ seek'[c] = s /\ at'[c] = a /\ a # s
        /\ a \in Existing /\ s \in Existing /\ a \in Nodes /\ s \in Nodes /\ c \in DOMAIN pc
        /\ \A m \in Existing : m # a /\ m # s /\ ~node[m].freed /\ Link(m)' = Nil =>
             IsLast(m)'
        /\ \A d \in Consumers : d # c => ~Hides(d, s)'
    BY <1>0, <1>1, CutFrame DEF Ending
  <1>3. pc[c] = "turn" /\ pc'[c] = "defer" /\ tail' = tail
    BY <1>2 DEF ClearTurn, Go
  <1>4. \A m \in Nodes : node'[m].next = IF m = s THEN a ELSE node[m].next
    BY <1>0, <1>2, ClearTurnNode
  <1>5. /\ a \in Q /\ s \notin Q
        /\ \A d \in Consumers : pc[d] = "cutnext" => s \notin K[d]
    <2>1. a \in Q
      BY <1>0, <1>1, <1>2, <1>3, Locked DEF LockPCs
    <2>2. s \in K[c] /\ s \notin Q
      BY <1>0, <1>1, <1>3 DEF Line, Chain, CutPCs
    <2>3. QED
      BY <1>1, <1>3, <2>1, <2>2 DEF Line
  <1>6. Acyclic'
    <2> SUFFICES ASSUME NEW S \in SUBSET Existing,
                        \A m \in S : ~node'[m].freed /\ node'[m].next \in S
                 PROVE  S = {}
      BY <1>2 DEF Acyclic, Closed
    <2>1. \A m \in S : ~node[m].freed /\ (IF m = s THEN a ELSE node[m].next) \in S
      BY <1>2, <1>4, InNodes DEF SameFreed
    <2>2. QED
      BY <1>1, <1>2, <1>5, <2>1, NoCircle DEF Ending
  <1>7. ~node[s].freed => Link(s)' # Nil
    <2>1. ~Hides(c, s)'
      BY <1>3 DEF Hides
    <2>2. node'[s].next = a /\ (node'[s].freed <=> node[s].freed) /\ a # Nil
      BY <1>2, <1>4, InNodes DEF SameFreed
    <2>3. QED
      BY <1>2, <2>1, <2>2 DEF Link
  <1>8. ASSUME ~node[a].freed, Link(a)' = Nil
        PROVE  IsLast(a)'
    <2>1. node'[a].next = node[a].next /\ (node'[a].freed <=> node[a].freed)
      BY <1>2, <1>4 DEF SameFreed
    <2>2. ~Hides(c, a) /\ ~Hides(c, a)'
      BY <1>0, <1>2, <1>3 DEF Hides
    <2>3. Link(a) = Nil
      BY <1>2, <1>8, <2>1, <2>2, LinkStays
    <2>4. IsLast(a)
      BY <1>2, <1>8, <2>3 DEF Ending, LinkLast
    <2>5. \A p \in Producers : p \in Producers \cup (Consumers \ {c})
      OBVIOUS
    <2>6. QED
      BY <1>0, <1>2, <1>3, <2>4, <2>5 DEF IsLast, SameOthers
  <1>9. LinkLast'
    <2>1. \A m \in Existing : node'[m].freed <=> node[m].freed
      BY <1>2, InNodes DEF SameFreed
    <2>2. QED
      BY <1>2, <1>7, <1>8, <2>1 DEF LinkLast
  <1>10. QED
    BY <1>6, <1>9 DEF Ending
(* Enqueue leaves a new node at the end, and a gap that its producer       *)
(* closes.                                                                 *)
LEMMA EnqueueSwapEnds ==
  ASSUME IInv, Ending, NEW p \in Producers, NEW v \in Values, IInv', EnqueueSwap(p, v)
  PROVE  Ending'
  <1>0. PICK new : new = Len(kind) + 1
    OBVIOUS
  <1>1. Typed /\ Control /\ PointersTyped /\ NodesTyped /\ Typed'
    BY DEF IInv, Typed
  <1>2. /\ SameConsumers
        /\ \A q \in Producers : q # p =>
             pc'[q] = pc[q] /\ old'[q] = old[q] /\ mine'[q] = mine[q]
    BY <1>1, ProducerLocal DEF ProducerStep
  <1>3. /\ node' = node /\ old'[p] = tail /\ tail' = new /\ pc[p] = "idle" /\ pc'[p] = "link"
        /\ kind' = Append(kind, v) /\ new <= MaxNodes
    BY <1>0, <1>1 DEF EnqueueSwap, Go, PointersTyped
  <1>4. Len(kind') = new /\ Len(kind) \in Nat /\ Len(kind) + 1 = new
    BY <1>0, <1>1, <1>3, Numbers DEF PointersTyped
  <1>5. new \in Nodes /\ new \notin Existing /\ Existing' = Existing \cup {new}
    BY <1>3, <1>4 DEF Nodes, Existing
  <1>6. node[new].next = Nil
    BY <1>1, <1>5 DEF NodesTyped, NewNode
  <1>7. Acyclic'
    <2>1. /\ \A m \in Existing' : node'[m].next # Nil => m \in Existing
          /\ \A m \in Existing : (node'[m].freed <=> node[m].freed) /\ node'[m].next = node[m].next
      BY <1>3, <1>5, <1>6
    <2>2. QED
      BY <1>1, <2>1, AcyclicFrame DEF Ending
  <1>8. ASSUME NEW m \in Existing, ~node[m].freed, Link(m)' = Nil
        PROVE  IsLast(m)'
    <2>1. Link(m)' = Link(m)
      BY <1>2, <1>3 DEF SameConsumers, Link, Hides
    <2>2. IsLast(m)
      BY <1>8, <2>1 DEF Ending, LinkLast
    <2>3. \A q \in Producers : pc[q] = "link" => q # p
      BY <1>3
    <2>4. QED
      BY <1>2, <1>3, <2>2, <2>3 DEF IsLast, SameConsumers
  <1>9. IsLast(new)'
    BY <1>3 DEF IsLast
  <1>10. LinkLast'
    BY <1>3, <1>5, <1>8, <1>9 DEF LinkLast
  <1>11. QED
    BY <1>7, <1>10 DEF Ending

LEMMA EnqueueLinkEnds ==
  ASSUME IInv, Ending, NEW p \in Producers, IInv', EnqueueLink(p)
  PROVE  Ending'
  <1>0. PICK o, v : o = old[p] /\ v = mine[p]
    OBVIOUS
  <1>1. PICK Q, K : Line(Q, K)
    BY DEF IInv, InOrder
  <1>2. Typed /\ Control /\ PointersTyped /\ NodesTyped /\ Typed'
    BY DEF IInv, Typed
  <1>3. /\ SameConsumers
        /\ \A q \in Producers : q # p =>
             pc'[q] = pc[q] /\ old'[q] = old[q] /\ mine'[q] = mine[q]
    BY <1>2, ProducerLocal DEF ProducerStep, EnqueueStep
  <1>4. pc[p] = "link" /\ kind' = kind /\ tail' = tail
    BY DEF EnqueueLink
  <1>5. /\ o \in Q /\ v \in Q /\ o < v /\ o \in Existing /\ v \in Existing /\ o \in Nodes
        /\ ~node[o].freed /\ v # Nil
        /\ \A d \in Consumers : pc[d] \in CutPCs => K[d] \cap Q = {} /\ nx[d] \in K[d]
                                                    /\ seek[d] \in K[d]
    <2>1. o \in Q /\ v \in Q /\ o < v /\ Q \subseteq Existing /\ ~node[o].freed
      BY <1>0, <1>1, <1>4 DEF Line, InLine
    <2>2. QED
      BY <1>1, <1>2, <2>1, InNodes DEF Line, Chain
  <1>6. /\ SameFreed
        /\ \A m \in Nodes : node'[m].next = IF m = o THEN v ELSE node[m].next
    <2>1. node \in [Nodes -> NodeSet]
      BY <1>2 DEF NodesTyped
    <2>2. QED
      BY <1>0, <1>5, <2>1 DEF EnqueueLink, NodeSet, SameFreed
  <1>7. Existing' = Existing
    BY <1>4 DEF Existing
  <1>8. Acyclic'
    <2> SUFFICES ASSUME NEW S \in SUBSET Existing,
                        \A m \in S : ~node'[m].freed /\ node'[m].next \in S
                 PROVE  S = {}
      BY <1>7 DEF Acyclic, Closed
    <2>1. \A m \in S : ~node[m].freed /\ (IF m = o THEN v ELSE node[m].next) \in S
      BY <1>2, <1>6, InNodes DEF SameFreed
    <2>2. \A d \in Consumers : pc[d] = "cutnext" => o \notin K[d]
      BY <1>5 DEF CutPCs
    <2>3. o \in Existing /\ v \in Q /\ o < v /\ Acyclic
      BY <1>5 DEF Ending
    <2>4. QED
      BY <1>1, <2>1, <2>2, <2>3, NoCircle
  <1>9. Link(o)' # Nil
    <2>1. ASSUME NEW d \in Consumers
          PROVE  ~Hides(d, o)'
      <3>1. pc[d] \in CutPCs => seek[d] # o /\ nx[d] # v
        BY <1>5
      <3>2. node'[o].next = v
        BY <1>5, <1>6
      <3>3. QED
        BY <1>3, <3>1, <3>2 DEF Hides, SameConsumers, CutPCs
    <2>2. node'[o].next = v /\ ~node'[o].freed
      BY <1>5, <1>6 DEF SameFreed
    <2>3. QED
      BY <1>5, <2>1, <2>2 DEF Link
  <1>10. ASSUME NEW m \in Existing, ~node'[m].freed, Link(m)' = Nil
         PROVE  IsLast(m)'
    <2>1. m # o /\ ~node[m].freed
      BY <1>2, <1>6, <1>9, <1>10, InNodes DEF SameFreed
    <2>2. node'[m].next = node[m].next /\ (node'[m].freed <=> node[m].freed)
      BY <1>2, <1>6, <2>1, InNodes DEF SameFreed
    <2>3. Link(m)' = Link(m)
      BY <1>3, <2>2 DEF SameConsumers, Link, Hides
    <2>4. IsLast(m)
      BY <1>10, <2>1, <2>3 DEF Ending, LinkLast
    <2>5. QED
      BY <1>0, <1>3, <1>4, <2>1, <2>4 DEF IsLast, SameConsumers
  <1>11. QED
    BY <1>7, <1>8, <1>10 DEF Ending, LinkLast

LEMMA EnqueueCountEnds ==
  ASSUME IInv, Ending, NEW p \in Producers, IInv', EnqueueCount(p)
  PROVE  Ending'
  <1>1. Typed /\ Control /\ Typed'
    BY DEF IInv
  <1>2. /\ SameConsumers
        /\ \A q \in Producers : q # p =>
             pc'[q] = pc[q] /\ old'[q] = old[q] /\ mine'[q] = mine[q]
    BY <1>1, ProducerLocal DEF ProducerStep, EnqueueStep
  <1>3. pc[p] = "count" /\ node' = node /\ tail' = tail /\ Existing' = Existing
    BY DEF EnqueueCount, Existing
  <1>4. Acyclic'
    BY <1>1, <1>3, AcyclicFrame DEF Ending
  <1>5. ASSUME NEW m \in Existing, ~node[m].freed, Link(m)' = Nil
        PROVE  IsLast(m)'
    <2>1. Link(m)' = Link(m)
      BY <1>2, <1>3 DEF SameConsumers, Link, Hides
    <2>2. IsLast(m)
      BY <1>5, <2>1 DEF Ending, LinkLast
    <2>3. \A q \in Producers : pc[q] = "link" => q # p
      BY <1>3
    <2>4. QED
      BY <1>2, <1>3, <2>2, <2>3 DEF IsLast, SameConsumers
  <1>6. QED
    BY <1>3, <1>4, <1>5 DEF Ending, LinkLast
(* Where links end is kept by every step.                                  *)
LEMMA NextEnds ==
  ASSUME IInv, OneEach, Ending, IInv', Next
  PROVE  Ending'
  <1>1. CASE \E p \in Producers, v \in Values : EnqueueSwap(p, v)
    BY <1>1, EnqueueSwapEnds
  <1>2. CASE \E p \in Producers : EnqueueStep(p)
    BY <1>2, EnqueueLinkEnds, EnqueueCountEnds DEF EnqueueStep
  <1>3. ASSUME NEW c \in Consumers, LookupBegin(c) \/ CloseBegin(c) \/ LookupStep(c)
        PROVE  Ending'
    BY <1>3, LookupEnds
  <1>4. ASSUME NEW c \in Consumers, LeaveStep(c)
        PROVE  Ending'
    <2>1. CASE ClearTail(c) \/ ClearCut(c) \/ ClearLink(c) \/ ClearTurn(c)
      BY <2>1, ClearTailEnds, ClearCutEnds, ClearLinkEnds, ClearTurnEnds
    <2>2. CASE ~(ClearTail(c) \/ ClearCut(c) \/ ClearLink(c) \/ ClearTurn(c))
      <3>1. c \in DOMAIN pc /\ back[c] \in {"out", "advance", "close", "reset"}
        BY DEF IInv, Typed, PointersTyped
      <3>2. pc[c] \notin CutPCs /\ pc'[c] \notin CutPCs
        BY <1>4, <2>2, <3>1 DEF Go, CutPCs, LeaveStep, LeaveNothing, LeaveLock, LeavePlain,
             LeaveDelete, ClearBegin, ClearSeek, ClearDefer, ClearFree, ClearEnd
      <3>3. QED
        BY <1>4, <2>2, <3>2, LeaveEnds
    <2>3. QED
      BY <2>1, <2>2
  <1>5. QED
    BY <1>1, <1>2, <1>3, <1>4 DEF Next

LEMMA InitEnds ==
  ASSUME Init
  PROVE  Ending
  <1>1. Existing = {Header} /\ Header \in Nodes /\ tail = Header
    BY RCQueueAssumption DEF Init, Existing, Header, Nodes
  <1>2. node[Header].next = Nil
    BY <1>1 DEF Init, NewNode
  <1>3. Nil \notin Existing
    BY DEF Existing, Nil
  <1>4. Acyclic
    BY <1>1, <1>2, <1>3 DEF Acyclic, Closed
  <1>5. QED
    BY <1>1, <1>4 DEF Ending, LinkLast, IsLast

LEMMA StutterEnds ==
  ASSUME Ending, UNCHANGED vars
  PROVE  Ending'
  <1>1. UNCHANGED <<node, tail, kind, pc, old, at, nx, seek>>
    BY DEF vars, producing, clearing
  <1>2. Existing' = Existing /\ \A m : Link(m)' = Link(m) /\ IsLast(m)' = IsLast(m)
    BY <1>1 DEF Existing, Link, Hides, IsLast
  <1>3. QED
    BY <1>1, <1>2 DEF Ending, Acyclic, Closed, LinkLast

(* An iterator that is not being closed stands on a node that is not freed.*)
LEMMA PlaceHeld ==
  ASSUME IInv, OneEach, NEW i \in Iterators, ~Closing(i)
  PROVE  /\ Place(i) \in Existing /\ ~node[Place(i)].freed
         /\ Place(i) \in {Header, it[i].ptr, it[i].next}
         /\ Place(i) # Header => Place(i) = IF it[i].next = Nil THEN it[i].ptr ELSE it[i].next
  <1>1. /\ Typed /\ Control /\ Exact /\ Locks /\ Doom /\ Entering /\ PointersTyped
    BY DEF IInv, Typed
  <1>2. PICK Q, K : Line(Q, K)
    BY DEF IInv, InOrder
  <1>3. Header \in Existing /\ ~node[Header].freed
    BY <1>2 DEF Line, InLine
  <1>4. \A n \in Existing : node[n].remains > 0 => ~node[n].freed
    BY <1>1 DEF Doom
  <1>5. PICK x : x = IF it[i].next = Nil THEN it[i].ptr ELSE it[i].next
    OBVIOUS
  <1>6. it[i].ptr \in Known /\ it[i].next \in Known /\ x \in Known
    BY <1>1, <1>5 DEF PointersTyped
  <1>7. Place(i) = IF x = Nil THEN Header ELSE x
    <2>1. x \in Int /\ (x = Nil \/ x >= Header)
      BY <1>1, <1>6, Numbers DEF Known, Existing, Nil, Header
    <2>2. Place(i) = CHOOSE m \in {Header, x} : \A k \in {Header, x} : m >= k
      BY <1>5 DEF Place, Max
    <2>3. QED
      BY <2>1, <2>2 DEF Nil, Header
  <1>8. ASSUME NEW n \in Existing, Ptrs[i] = n \/ Nexts[i] = n
        PROVE  ~node[n].freed
    <2>1. Count(Ptrs, n) > 0 \/ Count(Nexts, n) > 0
      <3>1. DOMAIN Ptrs = Iterators /\ DOMAIN Nexts = Iterators
        BY DEF Ptrs, Nexts
      <3>2. QED
        BY <1>8, <3>1, Finite, CountPositive
    <2>2. node[n].remains > 0
      BY <1>1, <2>1, Counts DEF Exact, References
    <2>3. QED
      BY <1>4, <2>2
  <1>9. ASSUME NEW c \in Consumers, Uses[c] = i
        PROVE  /\ back[c] \in {"out", "advance"} /\ (back[c] = "advance" => it[i].next # Nil)
               /\ pc[c] = "enter" => back[c] = "out" /\ it[i].ptr # Nil
    <2>1. ControlOf(c) /\ back[c] \in {"out", "advance", "close", "reset"}
      BY <1>1 DEF Control, PointersTyped
    <2>2. back[c] \notin {"close", "reset"}
      BY <1>9 DEF Closing
    <2>3. QED
      BY <1>9, <2>1, <2>2 DEF ControlOf, Ptr, Nxt, ReadPCs, LeavePCs, LockPCs
  <1>10. ASSUME x # Nil
         PROVE  x \in Existing /\ ~node[x].freed
    <2>1. x \in Existing
      BY <1>1, <1>6, <1>10, InNodes
    <2>2. CASE it[i].next = Nil
      <3>1. Ptrs[i] = x
        BY <1>5, <1>9, <2>2 DEF Ptrs
      <3>2. QED
        BY <1>8, <2>1, <3>1
    <2>3. CASE it[i].next # Nil /\ \A c \in Consumers : Uses[c] = i => pc[c] # "enter"
      <3>1. Nexts[i] = x
        BY <1>5, <1>9, <2>3 DEF Nexts
      <3>2. QED
        BY <1>8, <2>1, <3>1
    <2>4. ASSUME NEW c \in Consumers, it[i].next # Nil, Uses[c] = i, pc[c] = "enter"
          PROVE  ~node[x].freed
      <3>1. PICK w : w = it[i].ptr
        OBVIOUS
      <3>2. \A d \in Consumers : Uses[d] = i => d = c
        BY <2>4 DEF OneEach
      <3>3. Ptrs[i] = w /\ w \in Existing
        BY <1>1, <1>6, <1>9, <2>4, <3>1, <3>2, InNodes DEF Ptrs
      <3>4. ~node[w].freed
        BY <1>8, <3>3
      <3>5. node[w].next = x
        BY <1>1, <1>5, <2>4, <3>1 DEF Entering, Ptr, Nxt
      <3>6. node[x].remains > 0
        BY <1>1, <1>2, <1>10, <3>3, <3>4, <3>5, HeldLink
      <3>7. QED
        BY <1>4, <2>1, <3>6
    <2>5. QED
      BY <2>1, <2>2, <2>3, <2>4
  <1>11. QED
    BY <1>3, <1>5, <1>7, <1>10

(* The links from there lead to all that the iterator wants: those that    *)
(* lead to earlier nodes only would have to go round.                      *)
LEMMA AllBehind ==
  ASSUME IInv, OneEach, Passing, Ending
  PROVE  NothingSkipped
  <1> SUFFICES ASSUME \A p \in Producers : pc[p] # "link",
                      \A c \in Consumers : pc[c] \notin Unlinking,
                      NEW i \in Iterators, ~Closing(i),
                      NEW n \in Waiting, Wanted(i, n),
                      NEW S \in SUBSET Nodes, Place(i) \in S,
                      \A k \in S : node[k].next \in S \cup {Nil}
               PROVE  n \in S
    <2>1. \A m \in Waiting : m \in Nodes
      BY Numbers DEF IInv
    <2>2. QED
      BY <2>1 DEF NothingSkipped, Behind
  <1>1. /\ Typed /\ Control /\ Exact /\ Locks /\ Doom
    BY DEF IInv
  <1>2. PICK Q, K : Line(Q, K)
    BY DEF IInv, InOrder
  <1>3. n \in Int /\ n > 0 /\ n <= tail
    BY <1>1, Numbers DEF Passing, TailLast
  <1>4. Place(i) \in Existing /\ ~node[Place(i)].freed /\ Place(i) <= n
    <2>1. /\ Place(i) \in Existing /\ ~node[Place(i)].freed
          /\ Place(i) # Header => Place(i) = IF it[i].next = Nil THEN it[i].ptr ELSE it[i].next
      BY PlaceHeld
    <2>2. Place(i) # Nil /\ Place(i) \in Int
      BY <1>1, <2>1, InNodes, Numbers
    <2>3. IteratorAt(i)
      BY DEF Passing
    <2>4. QED
      BY <1>3, <2>1, <2>2, <2>3 DEF IteratorAt, Header
  <1>5. SUFFICES ASSUME n \notin S PROVE FALSE
    OBVIOUS
  <1> DEFINE T == {m \in S : m \in Existing /\ m < n /\ ~node[m].freed}
  <1>6. Place(i) \in T
    BY <1>1, <1>3, <1>4, <1>5, Numbers
  <1>7. ASSUME NEW m \in T
        PROVE  ~node[m].freed /\ node[m].next \in T
    <2>1. m \in S /\ m \in Existing /\ m \in Int /\ m < n /\ ~node[m].freed
      BY <1>1, Numbers
    <2> HIDE DEF T
    <2>2. PICK y : y = node[m].next
      OBVIOUS
    <2>3. y # Nil
      <3>1. SUFFICES ASSUME y = Nil PROVE FALSE
        OBVIOUS
      <3>2. Link(m) = Nil
        BY <2>2, <3>1 DEF Link
      <3>3. IsLast(m)
        BY <2>1, <3>2 DEF Ending, LinkLast
      <3>4. m = tail
        BY <3>3 DEF IsLast, CutPCs, Unlinking
      <3>5. QED
        BY <1>3, <2>1, <3>4
    <2>4. y \in Existing /\ node[y].remains > 0
      BY <1>1, <1>2, <2>1, <2>2, <2>3, HeldLink
    <2>5. ~node[y].freed /\ y \in S /\ y # n /\ y \in Int
      BY <1>1, <1>5, <2>1, <2>2, <2>3, <2>4, Numbers DEF Doom
    <2>6. y < n
      <3>1. NoneBetween(m, y)
        BY <2>1, <2>2, <2>3 DEF Passing, LinksPass
      <3>2. QED
        BY <1>3, <2>1, <2>5, <3>1 DEF NoneBetween
    <2>7. QED
      BY <2>1, <2>2, <2>4, <2>5, <2>6 DEF T
  <1>8. T \in SUBSET Existing /\ T # {}
    BY <1>6
  <1> HIDE DEF T
  <1>9. Closed(T)
    BY <1>7 DEF Closed
  <1>10. QED
    BY <1>8, <1>9 DEF Ending, Acyclic

(* No message is lost (NothingSkipped): what is not consumed is found by   *)
(* following the links from every iterator that wants it, however its      *)
(* nodes were unlinked, turned back and freed before, for every number of  *)
(* producers, consumers, iterators and nodes.                              *)
THEOREM NothingIsSkipped ==
  ASSUME OneEach
  PROVE  Spec => []NothingSkipped
  <1>1. Init => IInv /\ Passing /\ Ending
    BY InitIInv, InitPasses, InitEnds
  <1>2. IInv /\ Passing /\ Ending /\ [Next]_vars => (IInv /\ Passing /\ Ending)'
    BY NextIInv, StutterIInv, NextPasses, StutterPasses, NextEnds, StutterEnds
  <1>3. IInv /\ Passing /\ Ending => NothingSkipped
    BY AllBehind
  <1>4. QED
    BY <1>1, <1>2, <1>3, PTL DEF Spec
=============================================================================
