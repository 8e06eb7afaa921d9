------------------------------- MODULE RCQueue -------------------------------
(***************************************************************************)
(* The lock-free queue of the message pool (RCQueue and RCIterator).       *)
(*                                                                         *)
(* A node carries a state: removed and writing flags, a number of readers  *)
(* and a number of remains, the references to it: one per link that leads  *)
(* to it and one per iterator that stands on it or next to it.  Consuming  *)
(* marks a node; the last iterator to leave the node in front unlinks the  *)
(* marked nodes behind it (Clear), turns the link of the last one back to  *)
(* that node, so that iterators still inside find their way, and frees     *)
(* those that nobody refers to.                                            *)
(*                                                                         *)
(* One action is one access of shared memory: a CAS loop, which decides on *)
(* the value it replaces, or a read, with the local steps that follow it.  *)
(* Memory is sequentially consistent and node numbers are not reused.      *)
(***************************************************************************)
EXTENDS Integers, FiniteSetsExt, Functions, Sequences

CONSTANTS
  Producers,
  Consumers,     \* the threads that call Lookup
  Iterators,
  Uses,          \* [Consumers -> Iterators]: the iterator each one calls
  Values, Wants, \* see MessagePool
  MaxNodes       \* bound: calls of Enqueue

ASSUME RCQueueAssumption ==
  /\ Uses \in [Consumers -> Iterators]
  /\ Wants \in [Iterators -> SUBSET Values]
  /\ MaxNodes \in Nat
  /\ Producers \cap Consumers = {}
  /\ IsFiniteSet(Producers) /\ IsFiniteSet(Consumers)
  /\ IsFiniteSet(Iterators)

VARIABLES
  node,      \* the nodes: node[Header] and one per Enqueue, in that order
  tail, size,
  kind,      \* the values of the nodes
  it,        \* iterator |-> [ptr, next]
  pc,
  old, mine, \* of a producer: the tail it replaced, its node
  at,        \* of a consumer: the node Leave works on,
  nx, seek,  \*   the locals next and seek of Clear,
  back,      \*   and what it does after Leave
  got,       \* iterator |-> what its last successful Lookup took, and
  due        \* consumer |-> what it wants of what waited when
             \* its Lookup began (history)

producing == <<old, mine>>
clearing  == <<nx, seek>>
history   == <<got, due>>
vars == <<node, tail, size, kind, it, pc, producing, at, clearing, back,
          history>>

-----------------------------------------------------------------------------
Header == 0
Nil    == -1
Nodes  == 0..MaxNodes
Refs   == Nodes \cup {Nil}

NewNode == [next |-> Nil, removed |-> FALSE, writing |-> FALSE, readers |-> 0,
            remains |-> 1, freed |-> FALSE]

ProducerPCs == {"idle", "link", "count"}
ConsumerPCs == {"out", "header", "loop", "read", "enter", "unset", "fail",
                "check", "take", "taken", "advance", "leave", "clear",
                "unlock", "seek", "cut", "cutnext", "cutlink", "turn",
                "defer", "free", "delete", "close", "reset"}

Go(t, place) == pc' = [pc EXCEPT ![t] = place]

Ptr(c)  == it[Uses[c]].ptr
Nxt(c)  == it[Uses[c]].next

Unlocked(n) == ~node[n].writing
LastToLeave(n) == ~node[n].removed /\ ~node[n].writing /\ node[n].readers = 0
                    /\ node[n].remains = 2   \* state == 2

Waiting == {n \in 1..Len(kind) : ~node[n].removed}

Refer(nodes, n) == [nodes EXCEPT ![n].remains = @ + 1]
Defer(nodes, n) == [nodes EXCEPT ![n].remains = IF @ > 0 THEN @ - 1 ELSE @]

Init ==
  /\ node = [n \in Nodes |-> NewNode]
  /\ tail = Header /\ size = 0
  /\ kind = <<>>
  /\ it = [i \in Iterators |-> [ptr |-> Nil, next |-> Nil]]
  /\ pc = [t \in Producers \cup Consumers |->
             IF t \in Producers THEN "idle" ELSE "out"]
  /\ old = [p \in Producers |-> Nil] /\ mine = [p \in Producers |-> Nil]
  /\ at = [c \in Consumers |-> Nil]
  /\ nx = [c \in Consumers |-> Nil] /\ seek = [c \in Consumers |-> Nil]
  /\ back = [c \in Consumers |-> "out"]
  /\ got = [i \in Iterators |-> 0]
  /\ due = [c \in Consumers |-> {}]

-----------------------------------------------------------------------------
(* Enqueue: swap the tail, then link the node behind the old one.          *)

EnqueueSwap(p, v) ==
  LET new == Len(kind) + 1 IN
  /\ pc[p] = "idle" /\ new <= MaxNodes
  /\ kind' = Append(kind, v)
  /\ tail' = new
  /\ old' = [old EXCEPT ![p] = tail] /\ mine' = [mine EXCEPT ![p] = new]
  /\ Go(p, "link")
  /\ UNCHANGED <<node, size, it, at, clearing, back, history>>

EnqueueLink(p) ==
  /\ pc[p] = "link"
  /\ node' = [node EXCEPT ![old[p]].next = mine[p]]
  /\ Go(p, "count")
  /\ UNCHANGED <<tail, size, kind, it, producing, at, clearing, back, history>>

EnqueueCount(p) ==
  /\ pc[p] = "count"
  /\ size' = size + 1
  /\ old' = [old EXCEPT ![p] = Nil] /\ mine' = [mine EXCEPT ![p] = Nil]
  /\ Go(p, "idle")
  /\ UNCHANGED <<node, tail, kind, it, at, clearing, back, history>>

-----------------------------------------------------------------------------
(* Lookup.                                                                 *)

LookupUnchanged == UNCHANGED <<tail, kind, producing, clearing>>

(* OnCompare; the header has no value, and the links can lead back to it.  *)
Wanted(i, n) == n # Header /\ kind[n] \in Wants[i]

LookupBegin(c) ==
  /\ pc[c] = "out"
  /\ due' = [due EXCEPT ![c] = {n \in Waiting \ Range(mine) : Wanted(Uses[c], n)}]
  /\ Go(c, IF Ptr(c) = Nil THEN "header" ELSE "loop")
  /\ LookupUnchanged /\ UNCHANGED <<node, size, it, at, back, got>>

(* Enter(header).                                                          *)
LookupHeader(c) ==
  /\ pc[c] = "header"
  /\ Unlocked(Header)
  /\ node' = Refer(node, Header)
  /\ it' = [it EXCEPT ![Uses[c]].ptr = Header]
  /\ Go(c, "loop")
  /\ LookupUnchanged /\ UNCHANGED <<size, at, back, history>>

(* The head of the loop, with a next left over from the last call ...      *)
LookupAgain(c) ==
  /\ pc[c] = "loop" /\ Nxt(c) # Nil
  /\ Go(c, "check")
  /\ LookupUnchanged /\ UNCHANGED <<node, size, it, at, back, history>>

(* ... or SetReading(ptr), which keeps the link of ptr as it is, ...       *)
LookupSetReading(c) ==
  /\ pc[c] = "loop" /\ Nxt(c) = Nil
  /\ Unlocked(Ptr(c))
  /\ node' = [node EXCEPT ![Ptr(c)].readers = @ + 1]
  /\ Go(c, "read")
  /\ LookupUnchanged /\ UNCHANGED <<size, it, at, back, history>>

LookupReadNext(c) ==
  /\ pc[c] = "read"
  /\ it' = [it EXCEPT ![Uses[c]].next = node[Ptr(c)].next]
  /\ Go(c, "enter")
  /\ LookupUnchanged /\ UNCHANGED <<node, size, at, back, history>>

(* ... Enter(next) ...                                                     *)
LookupEnter(c) ==
  /\ pc[c] = "enter" /\ Nxt(c) # Nil
  /\ Unlocked(Nxt(c))
  /\ node' = Refer(node, Nxt(c))
  /\ Go(c, "unset")
  /\ LookupUnchanged /\ UNCHANGED <<size, it, at, back, history>>

(* Mutant: without a next the iterator looks for one again.                *)
LookupEndNot(c) ==
  /\ pc[c] = "enter" /\ Nxt(c) = Nil
  /\ Go(c, "read")
  /\ LookupUnchanged /\ UNCHANGED <<node, size, it, at, back, history>>

LookupEnd(c) ==
  /\ pc[c] = "enter" /\ Nxt(c) = Nil
  /\ Go(c, "fail")
  /\ LookupUnchanged /\ UNCHANGED <<node, size, it, at, back, history>>

(* ... and UnsetReading(ptr); without a next the Lookup fails.             *)
LookupUnsetReading(c) ==
  /\ pc[c] \in {"unset", "fail"}
  /\ node' = [node EXCEPT ![Ptr(c)].readers = IF @ > 0 THEN @ - 1 ELSE @]
  /\ IF pc[c] = "unset"
       THEN Go(c, "check") /\ UNCHANGED due
       ELSE Go(c, "out") /\ due' = [due EXCEPT ![c] = {}]
  /\ LookupUnchanged /\ UNCHANGED <<size, it, at, back, got>>

LeaveFor(c, n, place) ==
  /\ at' = [at EXCEPT ![c] = n]
  /\ back' = [back EXCEPT ![c] = place]
  /\ Go(c, "leave")

(* A next that is consumed or not wanted is passed ...                     *)
LookupPass(c) ==
  /\ pc[c] = "check"
  /\ node[Nxt(c)].removed \/ ~Wanted(Uses[c], Nxt(c))
  /\ LeaveFor(c, Ptr(c), "advance")
  /\ LookupUnchanged /\ UNCHANGED <<node, size, it, history>>

LookupTry(c) ==
  /\ pc[c] = "check"
  /\ ~node[Nxt(c)].removed /\ Wanted(Uses[c], Nxt(c))
  /\ Go(c, "take")
  /\ LookupUnchanged /\ UNCHANGED <<node, size, it, at, back, history>>

(* ... as is one that Take finds removed by now; ...                       *)
TakeFails(c) ==
  /\ pc[c] = "take"
  /\ node[Nxt(c)].removed
  /\ LeaveFor(c, Ptr(c), "advance")
  /\ LookupUnchanged /\ UNCHANGED <<node, size, it, history>>

(* ... the others are taken, and the iterator stays where it is.           *)
(* Mutant: the CAS of Take does not look at the removed flag.              *)
TakeAgain(c) ==
  /\ pc[c] = "take"
  /\ Unlocked(Nxt(c))
  /\ node' = [node EXCEPT ![Nxt(c)].removed = TRUE]
  /\ got' = [got EXCEPT ![Uses[c]] = Nxt(c)] /\ due' = [due EXCEPT ![c] = {}]
  /\ Go(c, "taken")
  /\ LookupUnchanged /\ UNCHANGED <<size, it, at, back>>

Take(c) ==
  /\ pc[c] = "take"
  /\ ~node[Nxt(c)].removed /\ Unlocked(Nxt(c))
  /\ node' = [node EXCEPT ![Nxt(c)].removed = TRUE]
  /\ got' = [got EXCEPT ![Uses[c]] = Nxt(c)] /\ due' = [due EXCEPT ![c] = {}]
  /\ Go(c, "taken")
  /\ LookupUnchanged /\ UNCHANGED <<size, it, at, back>>

LookupTaken(c) ==
  /\ pc[c] = "taken"
  /\ size' = size - 1
  /\ Go(c, "out")
  /\ LookupUnchanged /\ UNCHANGED <<node, it, at, back, history>>

(* ptr = next; next = nullptr.                                             *)
LookupAdvance(c) ==
  /\ pc[c] = "advance"
  /\ it' = [it EXCEPT ![Uses[c]] = [ptr |-> Nxt(c), next |-> Nil]]
  /\ at' = [at EXCEPT ![c] = Nil] /\ back' = [back EXCEPT ![c] = "out"]
  /\ Go(c, "loop")
  /\ LookupUnchanged /\ UNCHANGED <<node, size, history>>

(* ~RCIterator, for an iterator no other thread uses; its place is taken   *)
(* by a new one.                                                           *)
CloseBegin(c) ==
  /\ pc[c] = "out"
  /\ \A d \in Consumers : Uses[d] = Uses[c] => d = c
  /\ Ptr(c) # Nil
  /\ LeaveFor(c, Ptr(c), "close")
  /\ LookupUnchanged /\ UNCHANGED <<node, size, it, history>>

CloseNext(c) ==
  /\ pc[c] = "close"
  /\ LeaveFor(c, Nxt(c), "reset")
  /\ LookupUnchanged /\ UNCHANGED <<node, size, it, history>>

CloseEnd(c) ==
  /\ pc[c] = "reset"
  /\ it' = [it EXCEPT ![Uses[c]] = [ptr |-> Nil, next |-> Nil]]
  /\ at' = [at EXCEPT ![c] = Nil] /\ back' = [back EXCEPT ![c] = "out"]
  /\ Go(c, "out")
  /\ LookupUnchanged /\ UNCHANGED <<node, size, history>>

-----------------------------------------------------------------------------
(* Leave(at[c]): give the reference back.                                  *)

LeaveUnchanged == UNCHANGED <<size, kind, it, producing, back, history>>

LeaveNothing(c) ==
  /\ pc[c] = "leave"
  /\ at[c] # Nil => node[at[c]].remains = 0
  /\ Go(c, back[c])
  /\ LeaveUnchanged /\ UNCHANGED <<node, tail, at, clearing>>

(* LockForClear: the last iterator on a node that is not consumed locks it *)
(* to clear what is behind it.                                             *)
LeaveLock(c) ==
  /\ pc[c] = "leave" /\ at[c] # Nil
  /\ LastToLeave(at[c])
  /\ node' = [node EXCEPT ![at[c]].writing = TRUE, ![at[c]].remains = @ - 1]
  /\ Go(c, "clear")
  /\ LeaveUnchanged /\ UNCHANGED <<tail, at, clearing>>

(* Others only count themselves out; a node without references is unlinked *)
(* and goes, with the reference it holds to the next one.                  *)
LeavePlain(c) ==
  /\ pc[c] = "leave" /\ at[c] # Nil
  /\ node[at[c]].remains > 0 /\ ~LastToLeave(at[c]) /\ Unlocked(at[c])
  /\ node' = Defer(node, at[c])
  /\ Go(c, IF node[at[c]].remains = 1 THEN "delete" ELSE back[c])
  /\ LeaveUnchanged /\ UNCHANGED <<tail, at, clearing>>

LeaveDelete(c) ==
  /\ pc[c] = "delete"
  /\ at' = [at EXCEPT ![c] = node[at[c]].next]
  /\ node' = [node EXCEPT ![at[c]].freed = TRUE]
  /\ Go(c, "leave")
  /\ LeaveUnchanged /\ UNCHANGED <<tail, clearing>>

IsRemoved(n) == n # Nil /\ node[n].removed

(* while (node->next && IS_REMOVED(node->next->state)) Clear(node);        *)
ClearBegin(c) ==
  LET n == node[at[c]].next IN
  /\ pc[c] = "clear"
  /\ IF IsRemoved(n)
       THEN /\ nx' = [nx EXCEPT ![c] = n] /\ seek' = [seek EXCEPT ![c] = n]
            /\ Go(c, "seek")
       ELSE /\ Go(c, "unlock")
            /\ UNCHANGED clearing
  /\ LeaveUnchanged /\ UNCHANGED <<node, tail, at>>

(* The last of the removed nodes behind it.                                *)
ClearSeek(c) ==
  LET n == node[seek[c]].next IN
  /\ pc[c] = "seek"
  /\ IF IsRemoved(n)
       THEN seek' = [seek EXCEPT ![c] = n] /\ UNCHANGED pc
       ELSE Go(c, "cut") /\ UNCHANGED seek
  /\ LeaveUnchanged /\ UNCHANGED <<node, tail, at, nx>>

(* If it is the tail, the tail moves back to the locked node ...           *)
ClearTail(c) ==
  /\ pc[c] = "cut"
  /\ IF tail = seek[c]
       THEN tail' = at[c] /\ Go(c, "cutnext")
       ELSE UNCHANGED tail /\ Go(c, "cutlink")
  /\ LeaveUnchanged /\ UNCHANGED <<node, at, clearing>>

(* ... which ends the queue unless a producer has linked to it already.    *)
(* Mutant: cuts off what a producer has linked since.                      *)
ClearCutBlindly(c) ==
  /\ pc[c] = "cutnext"
  /\ node' = [node EXCEPT ![at[c]].next = Nil]
  /\ Go(c, "turn")
  /\ LeaveUnchanged /\ UNCHANGED <<tail, at, clearing>>

ClearCut(c) ==
  /\ pc[c] = "cutnext"
  /\ node' = [node EXCEPT ![at[c]].next = IF @ = nx[c] THEN Nil ELSE @]
  /\ Go(c, "turn")
  /\ LeaveUnchanged /\ UNCHANGED <<tail, at, clearing>>

(* Otherwise the locked node gets the link of the last removed one, which  *)
(* a producer may still have to set.                                       *)
ClearLink(c) ==
  /\ pc[c] = "cutlink"
  /\ node[seek[c]].next # Nil
  /\ node' = [node EXCEPT ![at[c]].next = node[seek[c]].next]
  /\ Go(c, "turn")
  /\ LeaveUnchanged /\ UNCHANGED <<tail, at, clearing>>

(* Lock(seek), turn its link back, Refer(node), Unlock(seek): nobody can   *)
(* read the link of a locked node, so these are one action.                *)
(* Mutant: the link is turned without counting it.                         *)
ClearTurnUncounted(c) ==
  /\ pc[c] = "turn"
  /\ Unlocked(seek[c]) /\ node[seek[c]].readers = 0
  /\ node' = [node EXCEPT ![seek[c]].next = at[c]]
  /\ Go(c, "defer")
  /\ LeaveUnchanged /\ UNCHANGED <<tail, at, clearing>>

ClearTurn(c) ==
  /\ pc[c] = "turn"
  /\ Unlocked(seek[c]) /\ node[seek[c]].readers = 0
  /\ node' = Refer([node EXCEPT ![seek[c]].next = at[c]], at[c])
  /\ Go(c, "defer")
  /\ LeaveUnchanged /\ UNCHANGED <<tail, at, clearing>>

(* Give back the reference of the link that is gone, and free the nodes    *)
(* nobody refers to any more.                                              *)
(* Mutant: the reference of the link that is gone is kept.                 *)
ClearDeferNot(c) ==
  /\ pc[c] = "defer"
  /\ Go(c, "clear")
  /\ LeaveUnchanged /\ UNCHANGED <<node, tail, at, clearing>>

ClearDefer(c) ==
  LET unused == nx[c] # Nil /\ node[nx[c]].remains = 1 IN
  /\ pc[c] = "defer"
  /\ node' = IF nx[c] = Nil THEN node ELSE Defer(node, nx[c])
  /\ Go(c, IF unused THEN "free" ELSE "clear")
  /\ LeaveUnchanged /\ UNCHANGED <<tail, at, clearing>>

ClearFree(c) ==
  /\ pc[c] = "free"
  /\ nx' = [nx EXCEPT ![c] = node[nx[c]].next]
  /\ node' = [node EXCEPT ![nx[c]].next = Nil, ![nx[c]].freed = TRUE]
  /\ Go(c, "defer")
  /\ LeaveUnchanged /\ UNCHANGED <<tail, at, seek>>

(* UnlockForClear; its remains are not 0, so Leave is through.             *)
ClearEnd(c) ==
  /\ pc[c] = "unlock"
  /\ node' = [node EXCEPT ![at[c]].writing = FALSE]
  /\ nx' = [nx EXCEPT ![c] = Nil] /\ seek' = [seek EXCEPT ![c] = Nil]
  /\ Go(c, back[c])
  /\ LeaveUnchanged /\ UNCHANGED <<tail, at>>

-----------------------------------------------------------------------------
EnqueueStep(p) == EnqueueLink(p) \/ EnqueueCount(p)

LookupStep(c) ==
  \/ LookupHeader(c) \/ LookupAgain(c) \/ LookupSetReading(c)
  \/ LookupReadNext(c) \/ LookupEnter(c) \/ LookupEnd(c)
  \/ LookupUnsetReading(c) \/ LookupPass(c) \/ LookupTry(c) \/ TakeFails(c)
  \/ Take(c) \/ LookupTaken(c) \/ LookupAdvance(c)
  \/ CloseNext(c) \/ CloseEnd(c)

LeaveStep(c) ==
  \/ LeaveNothing(c) \/ LeaveLock(c) \/ LeavePlain(c) \/ LeaveDelete(c)
  \/ ClearBegin(c) \/ ClearSeek(c) \/ ClearTail(c) \/ ClearCut(c)
  \/ ClearLink(c) \/ ClearTurn(c) \/ ClearDefer(c) \/ ClearFree(c)
  \/ ClearEnd(c)

Next ==
  \/ \E p \in Producers, v \in Values : EnqueueSwap(p, v)
  \/ \E p \in Producers : EnqueueStep(p)
  \/ \E c \in Consumers : \/ LookupBegin(c) \/ CloseBegin(c)
                          \/ LookupStep(c) \/ LeaveStep(c)

(* Threads inside a call go on; nobody has to call.                        *)
Fairness ==
  /\ \A p \in Producers : WF_vars(EnqueueStep(p))
  /\ \A c \in Consumers : SF_vars(LookupStep(c) \/ LeaveStep(c))

Spec     == Init /\ [][Next]_vars
FairSpec == Spec /\ Fairness

-----------------------------------------------------------------------------
(* Type invariant.                                                         *)
TypeOK ==
  /\ node \in [Nodes -> [next : Refs, removed : BOOLEAN, writing : BOOLEAN,
                         readers : 0..Cardinality(Consumers),
                         remains : Nat, freed : BOOLEAN]]
  /\ tail \in Nodes
  /\ size \in -Cardinality(Consumers)..MaxNodes
  /\ kind \in Seq(Values) /\ Len(kind) <= MaxNodes
  /\ it \in [Iterators -> [ptr : Refs, next : Refs]]
  /\ \A p \in Producers : pc[p] \in ProducerPCs
  /\ \A c \in Consumers : pc[c] \in ConsumerPCs
  /\ old \in [Producers -> Refs] /\ mine \in [Producers -> Refs]
  /\ at \in [Consumers -> Refs]
  /\ nx \in [Consumers -> Refs] /\ seek \in [Consumers -> Refs]
  /\ back \in [Consumers -> {"out", "advance", "close", "reset"}]
  /\ got \in [Iterators -> Nodes]
  /\ due \in [Consumers -> SUBSET Nodes]

(* The nodes the next step of a thread reads or writes, where it does not  *)
(* test for nullptr itself.                                                *)
TouchedBy(t) ==
  CASE pc[t] = "link"                              -> {old[t]}
    [] pc[t] = "loop"                              -> IF Nxt(t) = Nil THEN {Ptr(t)} ELSE {}
    [] pc[t] \in {"read", "unset", "fail"}         -> {Ptr(t)}
    [] pc[t] \in {"check", "take"}                 -> {Nxt(t)}
    [] pc[t] \in {"enter"}                         -> {Nxt(t)} \ {Nil}
    [] pc[t] = "leave"                             -> {at[t]} \ {Nil}
    [] pc[t] \in {"delete", "clear", "unlock", "cutnext"} -> {at[t]}
    [] pc[t] = "seek"                              -> {seek[t]}
    [] pc[t] \in {"cutlink", "turn"}               -> {seek[t], at[t]}
    [] pc[t] = "defer"                             -> {nx[t]} \ {Nil}
    [] pc[t] = "free"                              -> {nx[t]}
    [] OTHER                                       -> {}

(* A node with no references may be freed and is not accessed any more     *)
(* (关键技术.md:183): no thread touches a node after its delete, and none   *)
(* deletes it a second time.                                               *)
NoUseAfterFree ==
  \A t \in Producers \cup Consumers :
    \A n \in TouchedBy(t) : n # Nil => ~node[n].freed

AtRest == (\A p \in Producers : pc[p] = "idle") /\ (\A c \in Consumers : pc[c] = "out")

(* At rest the remains of a node are the links to it plus the iterators on *)
(* it and next to it: a count too low frees a node in use, one too high    *)
(* never frees it.                                                         *)
RemainsExact ==
  AtRest => \A n \in 0..Len(kind) :
    LET links == {m \in 0..Len(kind) : ~node[m].freed /\ node[m].next = n}
        stays == {i \in Iterators : it[i].ptr = n}
        waits == {i \in Iterators : it[i].next = n}
    IN  ~node[n].freed =>
          node[n].remains = Cardinality(links) + Cardinality(stays)
                              + Cardinality(waits) + (IF n = Header THEN 1 ELSE 0)

(* The nodes that the links lead to from node n on: those of every set     *)
(* that has n and that no link leaves.                                     *)
Behind(n) ==
  {m \in Nodes : \A S \in SUBSET Nodes :
     n \in S /\ (\A k \in S : node[k].next \in S \cup {Nil}) => m \in S}

Place(i) == Max({Header, IF it[i].next = Nil THEN it[i].ptr ELSE it[i].next})
Closing(i) == \E c \in Consumers : Uses[c] = i /\ back[c] \in {"close", "reset"}
Unlinking == {"cutnext", "cutlink", "turn"}

(* While nobody links or unlinks no message is lost: each one that is not  *)
(* consumed is found by following the links from where an iterator that    *)
(* wants it stands, whatever was unlinked, turned back and freed before.   *)
NothingSkipped ==
  /\ \A p \in Producers : pc[p] # "link"
  /\ \A c \in Consumers : pc[c] \notin Unlinking
  => \A i \in {j \in Iterators : ~Closing(j)} : \A n \in Waiting :
       Wanted(i, n) => n \in Behind(Place(i))

(* "no consumed node, this lookup finishes with fail, return false as the  *)
(* result, which indicate the traverse has reached to the end" (RCQueue.h: *)
(* 594): nothing it wants was there when it began, and still is.           *)
FailsAtTheEnd ==
  \A c \in Consumers : pc[c] = "fail" =>
    due[c] \cap Waiting = {}

(* The queue is a message pool: the oldest wanted message is taken, once.  *)
Pool == INSTANCE MessagePool WITH waiting <- Waiting
IsMessagePool == Pool!Spec

(* Every Enqueue and every Lookup returns, also while others clear: no     *)
(* caller stays inside for ever.                                           *)
CallsReturn ==
  /\ \A p \in Producers : []<>(pc[p] = "idle")
  /\ \A c \in Consumers : []<>(pc[c] = "out")
=============================================================================
