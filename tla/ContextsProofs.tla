---------------------------- MODULE ContextsProofs ----------------------------
(***************************************************************************)
(* Proofs about the receiver registry and about the contexts that use it.  *)
(*                                                                         *)
(* First the registry, for every number of threads, topics and receivers,  *)
(* every nesting depth and every choice of what callbacks may call.  The   *)
(* safety of RemoveReceiver rests on one count: the multiplicity of a      *)
(* receiver in runningReceivers is the number of frames inside its         *)
(* OnReceive (Counted).  When the spin loop reads 0 there is no such       *)
(* frame, and none can appear, because ReceiveBegin looks the id up in the *)
(* lists the receiver has already left (Removing).                         *)
(*                                                                         *)
(* Then the contexts, for every number of contexts, clients, executors,    *)
(* topics and messages.  Three things have to be seen.  Who holds or       *)
(* awaits the mutex of a context is in user code or in the removal it has  *)
(* begun, so an executor between two receivers holds none (Holding).  And  *)
(* the index with which RemoveTopic comes back from UnSubscribe is still   *)
(* that of the subscription it has cancelled (Agreeing), since the mutex   *)
(* kept everybody else from the lists.  Last, a topic lists a context at   *)
(* most once, and what a dispatch has still to call has not been called    *)
(* for its message (OnceInv, which rests on the other invariant).          *)
(***************************************************************************)
EXTENDS Contexts, FiniteSetTheorems, SequenceTheorems, TLAPS

-----------------------------------------------------------------------------
(* Sequence facts.                                                         *)

(* A sequence over a set is one over every larger set.                     *)
LEMMA SeqWiden ==
  ASSUME NEW S, NEW T, S \subseteq T, NEW s \in Seq(S)
  PROVE  s \in Seq(T)
  <1>1. s \in [1..Len(s) -> S] /\ Len(s) \in Nat
    OBVIOUS
  <1>2. s \in [1..Len(s) -> T]
    BY <1>1
  <1>3. QED
    BY <1>1, <1>2

(* RemoveAt drops one position and keeps the order of the others.          *)
LEMMA RemoveAtSeq ==
  ASSUME NEW S, NEW s \in Seq(S), NEW j \in DOMAIN s
  PROVE  /\ RemoveAt(s, j) \in Seq(S)
         /\ Len(RemoveAt(s, j)) = Len(s) - 1
         /\ \A i \in 1..(Len(s) - 1) :
              RemoveAt(s, j)[i] = IF i < j THEN s[i] ELSE s[i + 1]
  <1> DEFINE a == SubSeq(s, 1, j - 1)
             b == SubSeq(s, j + 1, Len(s))
  <1>1. j \in 1..Len(s) /\ Len(s) \in Nat
    OBVIOUS
  <1>2. /\ a \in Seq(S) /\ Len(a) = j - 1
        /\ \A i \in 1..(j - 1) : a[i] = s[i]
    BY <1>1
  <1>3. /\ b \in Seq(S) /\ Len(b) = Len(s) - j
        /\ \A i \in 1..(Len(s) - j) : b[i] = s[j + i]
    BY <1>1
  <1>4. RemoveAt(s, j) = a \o b
    BY DEF RemoveAt
  <1> HIDE DEF a, b
  <1>5. QED
    BY <1>1, <1>2, <1>3, <1>4

(* What RemoveAt leaves of an increasing sequence.                         *)
LEMMA RemoveAtIncreasing ==
  ASSUME NEW s \in Seq(Nat), Increasing(s), NEW j \in DOMAIN s
  PROVE  /\ Increasing(RemoveAt(s, j))
         /\ ToSet(RemoveAt(s, j)) = ToSet(s) \ {s[j]}
  <1> DEFINE r == RemoveAt(s, j)
             n == Len(s)
  <1>1. /\ r \in Seq(Nat) /\ Len(r) = n - 1
        /\ \A i \in 1..(n - 1) : r[i] = IF i < j THEN s[i] ELSE s[i + 1]
    BY RemoveAtSeq
  <1>2. n \in Nat /\ j \in 1..n /\ DOMAIN s = 1..n /\ DOMAIN r = 1..(n - 1)
    BY <1>1
  <1>3. \A i \in 1..n : s[i] \in Nat
    OBVIOUS
  <1>4. \A i, k \in 1..n : i < k => s[i] < s[k]
    BY <1>2 DEF Increasing
  <1> HIDE DEF r, n
  <1>5. \A i \in 1..(n - 1) : i < j => r[i] = s[i] /\ i \in 1..n
    BY <1>1, <1>2
  <1>6. \A i \in 1..(n - 1) : ~(i < j) => r[i] = s[i + 1] /\ i + 1 \in 1..n
    BY <1>1, <1>2
  <1>7. Increasing(r)
    <2> SUFFICES ASSUME NEW i \in 1..(n - 1), NEW k \in 1..(n - 1), i < k
                 PROVE  r[i] < r[k]
      BY <1>2 DEF Increasing
    <2>1. CASE i < j /\ k < j
      BY <1>4, <1>5, <2>1
    <2>2. CASE i < j /\ ~(k < j)
      <3>1. i < k + 1
        BY <1>2
      <3>2. QED
        BY <1>4, <1>5, <1>6, <2>2, <3>1
    <2>3. CASE ~(i < j)
      <3>1. ~(k < j) /\ i + 1 < k + 1
        BY <1>2, <2>3
      <3>2. QED
        BY <1>4, <1>6, <2>3, <3>1
    <2>4. QED
      BY <2>1, <2>2, <2>3
  <1>8. ASSUME NEW x \in ToSet(r) PROVE x \in ToSet(s) \ {s[j]}
    <2>1. PICK i \in 1..(n - 1) : x = r[i]
      BY <1>2 DEF ToSet
    <2>2. PICK k \in 1..n : x = s[k] /\ k # j
      <3>1. CASE i < j
        BY <1>2, <1>5, <2>1, <3>1
      <3>2. CASE ~(i < j)
        <4>1. i + 1 # j
          BY <1>2, <3>2
        <4>2. QED
          BY <1>6, <2>1, <3>2, <4>1
      <3>3. QED
        BY <3>1, <3>2
    <2>3. s[k] # s[j]
      <3>1. k < j \/ j < k
        BY <1>2, <2>2
      <3>2. s[k] < s[j] \/ s[j] < s[k]
        BY <1>2, <1>4, <3>1
      <3>3. QED
        BY <1>2, <1>3, <3>2
    <2>4. QED
      BY <1>2, <2>2, <2>3 DEF ToSet
  <1>9. ASSUME NEW x \in ToSet(s) \ {s[j]} PROVE x \in ToSet(r)
    <2>1. PICK i \in 1..n : x = s[i] /\ i # j
      BY <1>2 DEF ToSet
    <2>2. \E k \in 1..(n - 1) : r[k] = x
      <3>1. CASE i < j
        <4>1. i \in 1..(n - 1)
          BY <1>2, <3>1
        <4>2. QED
          BY <1>5, <2>1, <3>1, <4>1
      <3>2. CASE ~(i < j)
        <4>1. i - 1 \in 1..(n - 1) /\ ~(i - 1 < j) /\ (i - 1) + 1 = i
          BY <1>2, <2>1, <3>2
        <4>2. QED
          BY <1>6, <2>1, <4>1
      <3>3. QED
        BY <3>1, <3>2
    <2>3. QED
      BY <1>2, <2>2 DEF ToSet
  <1>10. QED
    BY <1>7, <1>8, <1>9 DEF r

(* Appending an element larger than all the others.                        *)
LEMMA AppendIncreasing ==
  ASSUME NEW s \in Seq(Nat), Increasing(s),
         NEW x \in Nat, \A y \in ToSet(s) : y < x
  PROVE  /\ Increasing(Append(s, x))
         /\ ToSet(Append(s, x)) = ToSet(s) \cup {x}
  <1> DEFINE r == Append(s, x)
             n == Len(s)
  <1>1. /\ r \in Seq(Nat) /\ Len(r) = n + 1 /\ r[n + 1] = x
        /\ \A i \in 1..n : r[i] = s[i]
    OBVIOUS
  <1>2. n \in Nat /\ DOMAIN s = 1..n /\ DOMAIN r = 1..(n + 1)
    BY <1>1
  <1>3. \A i \in 1..n : s[i] \in Nat /\ s[i] < x
    BY DEF ToSet
  <1>4. \A i, k \in 1..n : i < k => s[i] < s[k]
    BY <1>2 DEF Increasing
  <1> HIDE DEF r, n
  <1>5. Increasing(r)
    <2> SUFFICES ASSUME NEW i \in 1..(n + 1), NEW k \in 1..(n + 1), i < k
                 PROVE  r[i] < r[k]
      BY <1>2 DEF Increasing
    <2>1. i \in 1..n
      BY <1>2
    <2>2. CASE k = n + 1
      BY <1>1, <1>3, <2>1, <2>2
    <2>3. CASE k # n + 1
      <3>1. k \in 1..n
        BY <1>2, <2>3
      <3>2. QED
        BY <1>1, <1>4, <2>1, <3>1
    <2>4. QED
      BY <2>2, <2>3
  <1>6. \A y : (\E k \in 1..(n + 1) : y = r[k]) <=> (y = x \/ \E i \in 1..n : y = s[i])
    <2>1. \A k \in 1..(n + 1) : k = n + 1 \/ k \in 1..n
      BY <1>2
    <2>2. n + 1 \in 1..(n + 1) /\ \A i \in 1..n : i \in 1..(n + 1)
      BY <1>2
    <2>3. QED
      BY <1>1, <2>1, <2>2
  <1>7. ToSet(r) = ToSet(s) \cup {x}
    BY <1>2, <1>6 DEF ToSet
  <1>8. QED
    BY <1>5, <1>7 DEF r

-----------------------------------------------------------------------------
(* The call stacks: each operation on a frame changes one slot.            *)

(* The empty frame is a frame, ...                                         *)
LEMMA NoFrameIsFrame == NoFrame \in Frames
  <1>1. 0 \in 0..MaxReceivers
    BY ReceiversAssumption
  <1>2. <<>> \in Seq(Ids)
    OBVIOUS
  <1>3. QED
    BY <1>1, <1>2 DEF NoFrame, Frames, FrameOps

(* ... and so is one that is about a receiver.                             *)
LEMMA ReceiverFrame ==
  ASSUME NEW op \in FrameOps, NEW id \in Ids
  PROVE  LET f == [NoFrame EXCEPT !.op = op, !.rec = id]
         IN  f \in Frames /\ f.op = op /\ f.rec = id
  <1>1. id \in 0..MaxReceivers
    BY ReceiversAssumption DEF Ids
  <1>2. QED
    BY <1>1, NoFrameIsFrame DEF Frames

(* The top frame of a stack that is not empty.                             *)
LEMMA TopSlot ==
  ASSUME TypeOK, NEW t \in Threads, depth[t] > 0
  PROVE  /\ depth[t] \in Depths
         /\ <<t, depth[t]>> \in Slots
         /\ Top(t) = frame[<<t, depth[t]>>]
         /\ Top(t) \in Frames
  <1>1. depth[t] \in Depths
    BY ReceiversAssumption DEF TypeOK, Depths
  <1>2. QED
    BY <1>1 DEF TypeOK, Slots, Top

(* Update changes the top frame, ...                                       *)
LEMMA UpdateSlot ==
  ASSUME TypeOK, NEW t \in Threads, depth[t] > 0, NEW f \in Frames, Update(t, f)
  PROVE  /\ frame' \in [Slots -> Frames]
         /\ depth' = depth
         /\ \A s \in Slots :
              frame'[s] = IF s = <<t, depth[t]>> THEN f ELSE frame[s]
  BY TopSlot DEF TypeOK, Update

(* ... Pop empties it, ...                                                 *)
LEMMA PopSlot ==
  ASSUME TypeOK, NEW t \in Threads, depth[t] > 0, Pop(t)
  PROVE  /\ frame' \in [Slots -> Frames]
         /\ depth' \in [Threads -> 0..MaxDepth]
         /\ \A u \in Threads : depth'[u] = IF u = t THEN depth[u] - 1 ELSE depth[u]
         /\ \A s \in Slots :
              frame'[s] = IF s = <<t, depth[t]>> THEN NoFrame ELSE frame[s]
  BY NoFrameIsFrame, TopSlot, ReceiversAssumption DEF TypeOK, Pop

(* ... and Push fills the one above.                                       *)
LEMMA PushSlot ==
  ASSUME TypeOK, NEW t \in Threads, NEW f \in Frames, Push(t, f)
  PROVE  /\ frame' \in [Slots -> Frames]
         /\ depth' \in [Threads -> 0..MaxDepth]
         /\ \A u \in Threads : depth'[u] = IF u = t THEN depth[u] + 1 ELSE depth[u]
         /\ <<t, depth[t] + 1>> \in Slots
         /\ \A s \in Slots :
              frame'[s] = IF s = <<t, depth[t] + 1>> THEN f ELSE frame[s]
  <1>1. <<t, depth[t] + 1>> \in Slots
    BY ReceiversAssumption DEF TypeOK, Push, Slots, Depths
  <1>2. QED
    BY <1>1, ReceiversAssumption DEF TypeOK, Push

(* Runner sets are finite, so they can be counted.                         *)
LEMMA RunnersFinite ==
  ASSUME NEW id \in Ids
  PROVE  IsFiniteSet(Runners(id))
  <1>1. IsFiniteSet(Depths)
    BY FS_Interval, ReceiversAssumption DEF Depths
  <1>2. IsFiniteSet(Slots)
    BY <1>1, FS_Product, ReceiversAssumption DEF Slots
  <1>3. QED
    BY <1>2, FS_Subset DEF Runners

-----------------------------------------------------------------------------
(* The inductive invariant.                                                *)

Removing == {"wait", "delete"}

(* The lists hold allocated receivers, each at most once; ids are fresh.   *)
Listed ==
  /\ \A topic \in Topics : Increasing(topicReceivers[topic])
  /\ \A topic \in Topics : \A id \in Subscribed(topic) :
       id <= receiverIdCounter /\ heap[id] = "live"
  /\ \A t1, t2 \in Topics : \A id \in Ids :
       id \in Subscribed(t1) /\ id \in Subscribed(t2) => t1 = t2
  /\ \A id \in Ids : id > receiverIdCounter => heap[id] = "none"

(* Above the top of a stack there is nothing.                              *)
Stacked == \A s \in Slots : s[2] > depth[s[1]] => frame[s] = NoFrame

(* A receiver in its callback is allocated.                                *)
Receiving ==
  \A s \in Slots : frame[s].op = "receive" =>
    frame[s].rec \in Ids /\ heap[frame[s].rec] = "live"

(* A receiver being removed is allocated, is in no list, and is removed by *)
(* one frame only; when that frame is about to delete, no callback runs.   *)
RemovingSafely ==
  /\ \A s \in Slots : frame[s].op \in Removing => frame[s].rec \in Ids
  /\ \A s \in Slots, id \in Ids :
       frame[s].op \in Removing /\ frame[s].rec = id =>
         /\ heap[id] = "live"
         /\ ~IsSubscribed(id)
         /\ \A r \in Slots :
              frame[r].op \in Removing /\ frame[r].rec = id => r = s
         /\ frame[s].op = "delete" => Runners(id) = {}

(* runningReceivers counts the callbacks in progress.                      *)
Counted == \A id \in Ids : runningReceivers[id] = Cardinality(Runners(id))

IInv ==
  TypeOK /\ Listed /\ Stacked /\ Receiving /\ RemovingSafely /\ Counted

(* The empty registry satisfies it.                                        *)
THEOREM InitIInv == Init => IInv
  <1> SUFFICES ASSUME Init PROVE IInv
    OBVIOUS
  <1>1. \A s \in Slots : frame[s] = NoFrame
    BY DEF Init
  <1>2. NoFrame.op = "idle"
    BY DEF NoFrame
  <1>3. TypeOK
    BY NoFrameIsFrame, ReceiversAssumption DEF Init, TypeOK, Ids
  <1>4. Listed
    BY DEF Init, Listed, Increasing, Subscribed, ToSet
  <1>5. Stacked
    BY <1>1 DEF Stacked
  <1>6. Receiving /\ RemovingSafely
    BY <1>1, <1>2 DEF Receiving, RemovingSafely, Removing
  <1>7. \A id \in Ids : Runners(id) = {}
    BY <1>1, <1>2 DEF Runners
  <1>8. Counted
    BY <1>7, FS_EmptySet DEF Counted, Init
  <1>9. QED
    BY <1>3, <1>4, <1>5, <1>6, <1>8 DEF IInv

(* A step that touches one frame, which is in no callback before or after, *)
(* leaves the runner sets alone.                                           *)
LEMMA RunnersSame ==
  ASSUME NEW s0 \in Slots, NEW f,
         \A s \in Slots : frame'[s] = IF s = s0 THEN f ELSE frame[s],
         frame[s0].op # "receive", f.op # "receive"
  PROVE  \A id : Runners(id)' = Runners(id)
  BY DEF Runners

(* AddReceiver and dispatch, ReceiveSkip and the returns do not touch the  *)
(* lists: what Listed says survives.                                       *)
LEMMA ListedSame ==
  ASSUME Listed, UNCHANGED <<topicReceivers, receiverIdCounter, heap>>
  PROVE  Listed'
  BY DEF Listed, Subscribed

(* The list of a topic holds ids in increasing order.                      *)
LEMMA ListTyped ==
  ASSUME TypeOK, Listed, NEW topic \in Topics
  PROVE  /\ topicReceivers[topic] \in Seq(Ids)
         /\ topicReceivers[topic] \in Seq(Nat)
         /\ Increasing(topicReceivers[topic])
         /\ \A id \in Subscribed(topic) : id \in Ids
  <1>1. topicReceivers[topic] \in Seq(Ids)
    BY DEF TypeOK
  <1>2. Ids \subseteq Nat
    BY DEF Ids
  <1>3. topicReceivers[topic] \in Seq(Nat)
    BY <1>1, <1>2, SeqWiden
  <1>4. \A id \in Subscribed(topic) : id \in Ids
    BY <1>1 DEF Subscribed, ToSet
  <1>5. QED
    BY <1>1, <1>3, <1>4 DEF Listed

(* AddReceiver: a new id at the end of one list.                           *)
LEMMA AddReceiverStep ==
  ASSUME IInv, NEW t \in Threads, NEW topic \in Topics, AddReceiver(t, topic)
  PROVE  IInv'
  <1> DEFINE id == receiverIdCounter + 1
  <1> USE DEF IInv
  <1>1. id \in Ids /\ receiverIdCounter \in Nat
    BY ReceiversAssumption DEF TypeOK, AddReceiver, Ids
  <1>2. /\ heap' = [heap EXCEPT ![id] = "live"]
        /\ heap[id] = "none"
        /\ receiverIdCounter' = id
        /\ UNCHANGED <<runningReceivers, acks, frame, depth>>
        /\ topicReceivers' = [topicReceivers EXCEPT ![topic] = Append(@, id)]
    BY <1>1 DEF AddReceiver, Listed
  <1>3. TypeOK'
    BY <1>1, <1>2 DEF TypeOK, AddReceiver, Ids
  <1>4. \A i \in Ids : heap[i] # "none" => heap'[i] = heap[i]
    BY <1>1, <1>2 DEF TypeOK
  <1>5. /\ Increasing(topicReceivers[topic])
        /\ topicReceivers[topic] \in Seq(Nat)
        /\ \A i \in Subscribed(topic) : i < id
    BY <1>1, ListTyped DEF Listed, Ids
  <1>6. /\ Increasing(topicReceivers'[topic])
        /\ Subscribed(topic)' = Subscribed(topic) \cup {id}
    BY <1>1, <1>2, <1>5, AppendIncreasing DEF Subscribed, TypeOK
  <1>7. \A o \in Topics : o # topic =>
          topicReceivers'[o] = topicReceivers[o] /\ Subscribed(o)' = Subscribed(o)
    BY <1>2 DEF Subscribed, TypeOK
  <1>8. \A o \in Topics : \A i \in Subscribed(o) : i \in Ids /\ i # id
    BY <1>1, <1>2 DEF Listed, Subscribed, TypeOK, ToSet
  <1>9. Listed'
    <2>1. \A o \in Topics : Increasing(topicReceivers[o])'
      BY <1>6, <1>7 DEF Listed, Increasing
    <2>2. \A o \in Topics : \A i \in Subscribed(o)' :
            i <= receiverIdCounter' /\ heap'[i] = "live"
      <3> SUFFICES ASSUME NEW o \in Topics, NEW i \in Subscribed(o)'
                   PROVE  i <= id /\ heap'[i] = "live"
        BY <1>2
      <3>1. CASE i = id
        BY <1>1, <1>2, <3>1 DEF TypeOK
      <3>2. CASE i # id
        <4>1. i \in Subscribed(o)
          BY <1>6, <1>7, <3>2
        <4>2. i \in Ids /\ i <= receiverIdCounter /\ heap[i] = "live"
          BY <1>8, <4>1 DEF Listed
        <4>3. QED
          BY <1>1, <1>4, <4>2 DEF Ids
      <3>3. QED
        BY <3>1, <3>2
    <2>3. \A o1, o2 \in Topics : \A i \in Ids :
            i \in Subscribed(o1)' /\ i \in Subscribed(o2)' => o1 = o2
      BY <1>6, <1>7, <1>8 DEF Listed
    <2>4. \A i \in Ids : i > receiverIdCounter' => heap'[i] = "none"
      BY <1>1, <1>2 DEF Listed, TypeOK, Ids
    <2>5. QED
      BY <2>1, <2>2, <2>3, <2>4 DEF Listed
  <1>10. Stacked'
    BY <1>2 DEF Stacked
  <1>11. Receiving'
    BY <1>2, <1>4 DEF Receiving
  <1>12. \A i \in Ids : Runners(i)' = Runners(i)
    BY <1>2 DEF Runners
  <1>13. RemovingSafely'
    <2>1. \A i \in Ids : heap[i] = "live" /\ ~IsSubscribed(i) => ~IsSubscribed(i)'
      BY <1>2, <1>6, <1>7 DEF IsSubscribed
    <2>2. QED
      BY <1>2, <1>4, <1>12, <2>1 DEF RemovingSafely
  <1>14. Counted'
    BY <1>2, <1>12 DEF Counted
  <1>15. QED
    BY <1>3, <1>9, <1>10, <1>11, <1>13, <1>14

(* The stack discipline is kept by the three operations on frames.         *)
LEMMA StackedKept ==
  ASSUME TypeOK, Stacked, NEW t \in Threads, NEW f \in Frames,
         \/ depth[t] > 0 /\ (Update(t, f) \/ Pop(t))
         \/ Push(t, f)
  PROVE  Stacked'
  <1> SUFFICES ASSUME NEW s \in Slots, s[2] > depth'[s[1]]
               PROVE  frame'[s] = NoFrame
    BY DEF Stacked
  <1>1. s[1] \in Threads /\ s[2] \in Nat /\ s = <<s[1], s[2]>>
    BY DEF Slots, Depths
  <1>2. depth[t] \in Nat /\ depth[s[1]] \in Nat
    BY <1>1 DEF TypeOK
  <1>3. CASE depth[t] > 0 /\ Update(t, f)
    BY <1>1, <1>3, UpdateSlot DEF Stacked
  <1>4. CASE depth[t] > 0 /\ Pop(t)
    <2>1. /\ depth'[s[1]] = IF s[1] = t THEN depth[t] - 1 ELSE depth[s[1]]
          /\ frame'[s] = IF s = <<t, depth[t]>> THEN NoFrame ELSE frame[s]
      BY <1>1, <1>4, PopSlot
    <2>2. CASE s = <<t, depth[t]>>
      BY <2>1, <2>2
    <2>3. CASE s # <<t, depth[t]>>
      <3>1. s[1] # t \/ s[2] # depth[t]
        BY <1>1, <2>3
      <3>2. s[2] > depth[s[1]]
        BY <1>1, <1>2, <2>1, <3>1
      <3>3. QED
        BY <2>1, <2>3, <3>2 DEF Stacked
    <2>4. QED
      BY <2>2, <2>3
  <1>5. CASE Push(t, f)
    <2>1. /\ depth'[s[1]] = IF s[1] = t THEN depth[t] + 1 ELSE depth[s[1]]
          /\ frame'[s] = IF s = <<t, depth[t] + 1>> THEN f ELSE frame[s]
      BY <1>1, <1>5, PushSlot
    <2>2. s # <<t, depth[t] + 1>>
      BY <1>1, <1>2, <2>1
    <2>3. s[2] > depth[s[1]]
      BY <1>1, <1>2, <2>1
    <2>4. QED
      BY <2>1, <2>2, <2>3 DEF Stacked
  <1>6. QED
    BY <1>3, <1>4, <1>5

(* A step that changes one frame only, and none that is in a callback or   *)
(* becomes a removal.                                                      *)
LEMMA QuietStep ==
  ASSUME IInv, NEW s0 \in Slots, NEW f,
         frame[s0].op # "receive", f.op \notin Removing \cup {"receive"},
         \A s \in Slots : frame'[s] = IF s = s0 THEN f ELSE frame[s],
         frame' \in [Slots -> Frames], depth' \in [Threads -> 0..MaxDepth],
         Stacked',
         UNCHANGED <<topicReceivers, runningReceivers, receiverIdCounter, heap,
                     acks>>
  PROVE  IInv'
  <1> USE DEF IInv
  <1>1. TypeOK'
    BY DEF TypeOK
  <1>2. Listed'
    BY ListedSame
  <1>3. Receiving'
    BY DEF Receiving, Removing
  <1>4. \A id : Runners(id)' = Runners(id)
    BY RunnersSame
  <1>5. \A id : IsSubscribed(id)' = IsSubscribed(id)
    BY DEF IsSubscribed, Subscribed
  <1>6. RemovingSafely'
    BY <1>4, <1>5 DEF RemovingSafely
  <1>7. Counted'
    BY <1>4 DEF Counted
  <1>8. QED
    BY <1>1, <1>2, <1>3, <1>6, <1>7

(* What At and InUserCode say about the slots.                             *)
LEMMA AtSlot ==
  ASSUME TypeOK, NEW t \in Threads, NEW op, At(t, op)
  PROVE  /\ depth[t] > 0
         /\ <<t, depth[t]>> \in Slots
         /\ frame[<<t, depth[t]>>] = Top(t)
         /\ Top(t) \in Frames
         /\ Top(t).op = op
  BY TopSlot DEF At

(* The slot above the top is empty.                                        *)
LEMMA PushedSlot ==
  ASSUME TypeOK, Stacked, NEW t \in Threads, NEW f, Push(t, f)
  PROVE  /\ <<t, depth[t] + 1>> \in Slots
         /\ frame[<<t, depth[t] + 1>>] = NoFrame
         /\ NoFrame.op = "idle"
  <1>1. <<t, depth[t] + 1>> \in Slots
    BY ReceiversAssumption DEF TypeOK, Push, Slots, Depths
  <1>2. depth[t] + 1 > depth[t]
    BY DEF TypeOK
  <1>3. QED
    BY <1>1, <1>2 DEF Stacked, NoFrame

(* FindReceiver looks up a wrapper.                                        *)
LEMMA FindReceiverStep ==
  ASSUME IInv, NEW t \in Threads, NEW id \in Ids, FindReceiver(t, id)
  PROVE  IInv'
  <1> DEFINE f == [NoFrame EXCEPT !.op = "found", !.rec = id]
  <1>1. TypeOK /\ Stacked
    BY DEF IInv
  <1>2. f \in Frames /\ f.op = "found"
    BY ReceiverFrame DEF FrameOps
  <1>3. Push(t, f)
    BY DEF FindReceiver
  <1> HIDE DEF f
  <1>4. Stacked'
    BY <1>1, <1>2, <1>3, StackedKept
  <1> DEFINE s0 == <<t, depth[t] + 1>>
  <1>5. /\ s0 \in Slots /\ frame[s0].op # "receive"
        /\ f.op \notin Removing \cup {"receive"}
    BY <1>1, <1>2, <1>3, PushedSlot DEF Removing
  <1>6. /\ frame' \in [Slots -> Frames] /\ depth' \in [Threads -> 0..MaxDepth]
        /\ \A s \in Slots : frame'[s] = IF s = s0 THEN f ELSE frame[s]
    BY <1>1, <1>2, <1>3, PushSlot
  <1>7. UNCHANGED <<topicReceivers, runningReceivers, receiverIdCounter, heap,
                    acks>>
    BY DEF FindReceiver
  <1> HIDE DEF s0
  <1>8. QED
    BY <1>4, <1>5, <1>6, <1>7, QuietStep

(* DispatchMessage takes its snapshot.                                     *)
LEMMA DispatchMessageStep ==
  ASSUME IInv, NEW t \in Threads, NEW topic \in Topics, DispatchMessage(t, topic)
  PROVE  IInv'
  <1> DEFINE f == [NoFrame EXCEPT !.op = "dispatch", !.topic = topic,
                                  !.ids = topicReceivers[topic],
                                  !.upto = receiverIdCounter]
  <1>1. TypeOK /\ Stacked
    BY DEF IInv
  <1>2. f \in Frames /\ f.op = "dispatch"
    <2>1. /\ topicReceivers[topic] \in Seq(Ids)
          /\ receiverIdCounter \in 0..MaxReceivers
      BY <1>1 DEF TypeOK
    <2>2. QED
      BY <2>1, NoFrameIsFrame DEF Frames, FrameOps
  <1>3. Push(t, f)
    BY DEF DispatchMessage
  <1> HIDE DEF f
  <1>4. Stacked'
    BY <1>1, <1>2, <1>3, StackedKept
  <1> DEFINE s0 == <<t, depth[t] + 1>>
  <1>5. /\ s0 \in Slots /\ frame[s0].op # "receive"
        /\ f.op \notin Removing \cup {"receive"}
    BY <1>1, <1>2, <1>3, PushedSlot DEF Removing
  <1>6. /\ frame' \in [Slots -> Frames] /\ depth' \in [Threads -> 0..MaxDepth]
        /\ \A s \in Slots : frame'[s] = IF s = s0 THEN f ELSE frame[s]
    BY <1>1, <1>2, <1>3, PushSlot
  <1>7. UNCHANGED <<topicReceivers, runningReceivers, receiverIdCounter, heap,
                    acks>>
    BY DEF DispatchMessage
  <1> HIDE DEF s0
  <1>8. QED
    BY <1>4, <1>5, <1>6, <1>7, QuietStep

(* An operation returns that holds no receiver.                            *)
LEMMA QuietPopStep ==
  ASSUME IInv, NEW t \in Threads, FindReturn(t) \/ DispatchReturn(t)
  PROVE  IInv'
  <1>1. TypeOK /\ Stacked
    BY DEF IInv
  <1>2. /\ At(t, "found") \/ At(t, "dispatch")
        /\ Pop(t)
        /\ UNCHANGED <<topicReceivers, runningReceivers, receiverIdCounter,
                       heap, acks>>
    BY DEF FindReturn, DispatchReturn
  <1>3. /\ depth[t] > 0
        /\ <<t, depth[t]>> \in Slots
        /\ frame[<<t, depth[t]>>].op # "receive"
    BY <1>1, <1>2, AtSlot
  <1>4. Stacked'
    BY <1>1, <1>2, <1>3, StackedKept, NoFrameIsFrame
  <1> DEFINE s0 == <<t, depth[t]>>
  <1>5. NoFrame.op \notin Removing \cup {"receive"}
    BY DEF NoFrame, Removing
  <1>6. /\ frame' \in [Slots -> Frames] /\ depth' \in [Threads -> 0..MaxDepth]
        /\ \A s \in Slots : frame'[s] = IF s = s0 THEN NoFrame ELSE frame[s]
    BY <1>1, <1>2, <1>3, PopSlot
  <1>7. s0 \in Slots /\ frame[s0].op # "receive"
    BY <1>3
  <1> HIDE DEF s0
  <1>8. QED
    BY <1>2, <1>4, <1>5, <1>6, <1>7, QuietStep

(* A receiver that is gone is passed over.                                 *)
LEMMA ReceiveSkipStep ==
  ASSUME IInv, NEW t \in Threads, ReceiveSkip(t)
  PROVE  IInv'
  <1> DEFINE f == [Top(t) EXCEPT !.ids = Tail(@)]
  <1>1. TypeOK /\ Stacked
    BY DEF IInv
  <1>2. /\ depth[t] > 0
        /\ <<t, depth[t]>> \in Slots
        /\ frame[<<t, depth[t]>>] = Top(t)
        /\ Top(t) \in Frames
        /\ Top(t).op = "dispatch"
    BY <1>1, AtSlot DEF ReceiveSkip
  <1>3. f \in Frames /\ f.op = "dispatch"
    <2>1. Top(t).ids \in Seq(Ids) /\ Top(t).ids # <<>>
      BY <1>2 DEF Frames, ReceiveSkip
    <2>2. Tail(Top(t).ids) \in Seq(Ids)
      BY <2>1
    <2>3. QED
      BY <1>2, <2>2 DEF Frames
  <1>4. Update(t, f)
    BY DEF ReceiveSkip
  <1> HIDE DEF f
  <1>5. Stacked'
    BY <1>1, <1>2, <1>3, <1>4, StackedKept
  <1>6. depth' \in [Threads -> 0..MaxDepth]
    BY <1>1, <1>4 DEF Update, TypeOK
  <1> DEFINE s0 == <<t, depth[t]>>
  <1>7. /\ s0 \in Slots /\ frame[s0].op # "receive"
        /\ f.op \notin Removing \cup {"receive"}
    BY <1>2, <1>3 DEF Removing
  <1>8. /\ frame' \in [Slots -> Frames]
        /\ \A s \in Slots : frame'[s] = IF s = s0 THEN f ELSE frame[s]
    BY <1>1, <1>2, <1>3, <1>4, UpdateSlot
  <1>9. UNCHANGED <<topicReceivers, runningReceivers, receiverIdCounter, heap,
                    acks>>
    BY DEF ReceiveSkip
  <1> HIDE DEF s0
  <1>10. QED
    BY <1>5, <1>6, <1>7, <1>8, <1>9, QuietStep

(* RemoveReceiver of an id nobody lists.                                   *)
LEMMA RemoveUnlistedStep ==
  ASSUME IInv, NEW t \in Threads, NEW id \in Ids, RemoveUnlisted(t, id)
  PROVE  IInv'
  <1> USE DEF IInv
  <1>1. UNCHANGED <<topicReceivers, runningReceivers, receiverIdCounter, heap,
                    frame, depth>>
    BY DEF RemoveUnlisted
  <1>2. acks' \in [Ids -> 0..2]
    BY DEF RemoveUnlisted, Acknowledge, TypeOK
  <1>3. TypeOK'
    BY <1>1, <1>2 DEF TypeOK
  <1>4. Listed' /\ Stacked' /\ Receiving'
    BY <1>1, ListedSame DEF Stacked, Receiving
  <1>5. /\ \A i : Runners(i)' = Runners(i)
        /\ \A i : IsSubscribed(i)' = IsSubscribed(i)
    BY <1>1 DEF Runners, IsSubscribed, Subscribed
  <1>6. RemovingSafely' /\ Counted'
    BY <1>1, <1>5 DEF RemovingSafely, Counted
  <1>7. QED
    BY <1>3, <1>4, <1>6

(* RemoveReceiver takes a listed id out of its list.                       *)
LEMMA RemoveListedStep ==
  ASSUME IInv, NEW t \in Threads, NEW id \in Ids, RemoveListed(t, id)
  PROVE  IInv'
  <1> DEFINE f  == [NoFrame EXCEPT !.op = "wait", !.rec = id]
             s0 == <<t, depth[t] + 1>>
  <1> USE DEF IInv
  <1>1. PICK topic \in Topics : \E j \in DOMAIN topicReceivers[topic] :
          /\ topicReceivers[topic][j] = id
          /\ topicReceivers' = [topicReceivers EXCEPT ![topic] = RemoveAt(@, j)]
    BY DEF RemoveListed
  <1>2. PICK j \in DOMAIN topicReceivers[topic] :
          /\ topicReceivers[topic][j] = id
          /\ topicReceivers' = [topicReceivers EXCEPT ![topic] = RemoveAt(@, j)]
    BY <1>1
  <1>3. /\ Push(t, f)
        /\ UNCHANGED <<runningReceivers, receiverIdCounter, heap, acks>>
    BY DEF RemoveListed
  <1>4. f \in Frames /\ f.op = "wait" /\ f.rec = id
    BY ReceiverFrame DEF FrameOps
  <1> HIDE DEF f
  <1>5. /\ s0 \in Slots /\ frame[s0].op = "idle"
    BY <1>3, PushedSlot
  <1>6. /\ frame' \in [Slots -> Frames] /\ depth' \in [Threads -> 0..MaxDepth]
        /\ \A s \in Slots : frame'[s] = IF s = s0 THEN f ELSE frame[s]
    BY <1>3, <1>4, PushSlot
  <1>7. Stacked'
    BY <1>3, <1>4, StackedKept
  <1> HIDE DEF s0
  <1>8. /\ topicReceivers[topic] \in Seq(Ids)
        /\ topicReceivers[topic] \in Seq(Nat)
        /\ Increasing(topicReceivers[topic])
    BY ListTyped
  <1>9. /\ topicReceivers'[topic] = RemoveAt(topicReceivers[topic], j)
        /\ \A o \in Topics : o # topic => topicReceivers'[o] = topicReceivers[o]
    BY <1>2 DEF TypeOK
  <1>10. /\ topicReceivers'[topic] \in Seq(Ids)
         /\ Increasing(topicReceivers'[topic])
         /\ Subscribed(topic)' = Subscribed(topic) \ {id}
    BY <1>2, <1>8, <1>9, RemoveAtSeq, RemoveAtIncreasing DEF Subscribed
  <1>11. \A o \in Topics : o # topic => Subscribed(o)' = Subscribed(o)
    BY <1>9 DEF Subscribed
  <1>12. id \in Subscribed(topic) /\ heap[id] = "live"
    BY <1>2 DEF Subscribed, ToSet, Listed
  <1>13. TypeOK'
    <2>1. topicReceivers' \in [Topics -> Seq(Ids)]
      BY <1>2, <1>9, <1>10 DEF TypeOK
    <2>2. QED
      BY <1>3, <1>6, <2>1 DEF TypeOK
  <1>14. Listed'
    <2>1. \A o \in Topics : Increasing(topicReceivers[o])'
      BY <1>9, <1>10 DEF Listed, Increasing
    <2>2. \A o \in Topics : Subscribed(o)' \subseteq Subscribed(o)
      BY <1>10, <1>11
    <2>3. QED
      BY <1>3, <2>1, <2>2 DEF Listed
  <1>15. Receiving'
    BY <1>3, <1>4, <1>6 DEF Receiving
  <1>16. \A i : Runners(i)' = Runners(i)
    BY <1>4, <1>5, <1>6, RunnersSame
  <1>17. /\ ~IsSubscribed(id)'
         /\ \A i : IsSubscribed(i)' => IsSubscribed(i)
    <2>1. \A o \in Topics : id \in Subscribed(o) => o = topic
      BY <1>12 DEF Listed
    <2>2. \A o \in Topics : id \notin Subscribed(o)'
      BY <1>10, <1>11, <2>1
    <2>3. \A o \in Topics : Subscribed(o)' \subseteq Subscribed(o)
      BY <1>10, <1>11
    <2>4. QED
      BY <2>2, <2>3 DEF IsSubscribed
  <1>18. \A s \in Slots : frame[s].op \in Removing => frame[s].rec # id
    BY <1>12 DEF RemovingSafely, IsSubscribed
  <1>19. RemovingSafely'
    <2>1. ASSUME NEW s \in Slots, frame'[s].op \in Removing
          PROVE  frame'[s].rec \in Ids
      BY <1>4, <1>6, <2>1 DEF RemovingSafely
    <2>2. ASSUME NEW s \in Slots, NEW i \in Ids,
                 frame'[s].op \in Removing, frame'[s].rec = i
          PROVE  /\ heap'[i] = "live"
                 /\ ~IsSubscribed(i)'
                 /\ \A r \in Slots :
                      frame'[r].op \in Removing /\ frame'[r].rec = i => r = s
                 /\ frame'[s].op = "delete" => Runners(i)' = {}
      <3>1. CASE s = s0
        <4>1. i = id /\ frame'[s].op = "wait"
          BY <1>4, <1>6, <2>2, <3>1
        <4>2. \A r \in Slots :
                frame'[r].op \in Removing /\ frame'[r].rec = id => r = s0
          BY <1>6, <1>18
        <4>3. QED
          BY <1>3, <1>12, <1>17, <3>1, <4>1, <4>2
      <3>2. CASE s # s0
        <4>1. frame'[s] = frame[s] /\ i # id
          BY <1>6, <1>18, <2>2, <3>2
        <4>2. /\ heap[i] = "live" /\ ~IsSubscribed(i)
              /\ \A r \in Slots :
                   frame[r].op \in Removing /\ frame[r].rec = i => r = s
              /\ frame[s].op = "delete" => Runners(i) = {}
          BY <2>2, <4>1 DEF RemovingSafely
        <4>3. \A r \in Slots :
                frame'[r].op \in Removing /\ frame'[r].rec = i => r = s
          BY <1>4, <1>6, <4>1, <4>2
        <4>4. QED
          BY <1>3, <1>16, <1>17, <4>1, <4>2, <4>3
      <3>3. QED
        BY <3>1, <3>2
    <2>3. QED
      BY <2>1, <2>2 DEF RemovingSafely
  <1>20. Counted'
    BY <1>3, <1>16 DEF Counted
  <1>21. QED
    BY <1>7, <1>13, <1>14, <1>15, <1>19, <1>20

(* The wait for the callbacks of a receiver is over.                       *)
LEMMA RemoveWaitStep ==
  ASSUME IInv, NEW t \in Threads, RemoveWait(t)
  PROVE  IInv'
  <1> DEFINE f  == [Top(t) EXCEPT !.op = "delete"]
             s0 == <<t, depth[t]>>
  <1> USE DEF IInv
  <1>1. /\ depth[t] > 0 /\ s0 \in Slots
        /\ frame[s0] = Top(t) /\ Top(t) \in Frames /\ Top(t).op = "wait"
    BY AtSlot DEF RemoveWait
  <1>2. f \in Frames /\ f.op = "delete" /\ f.rec = Top(t).rec
    BY <1>1 DEF Frames, FrameOps
  <1>3. /\ Update(t, f)
        /\ runningReceivers[Top(t).rec] = 0
        /\ UNCHANGED <<topicReceivers, runningReceivers, receiverIdCounter,
                       heap, acks>>
    BY DEF RemoveWait
  <1> HIDE DEF f
  <1>4. /\ frame' \in [Slots -> Frames] /\ depth' = depth
        /\ \A s \in Slots : frame'[s] = IF s = s0 THEN f ELSE frame[s]
    BY <1>1, <1>2, <1>3, UpdateSlot
  <1>5. Stacked'
    BY <1>1, <1>2, <1>3, StackedKept
  <1> HIDE DEF s0
  <1>6. TypeOK'
    BY <1>3, <1>4 DEF TypeOK
  <1>7. Listed'
    BY <1>3, ListedSame
  <1>8. Receiving'
    BY <1>2, <1>3, <1>4 DEF Receiving
  <1>9. \A i : Runners(i)' = Runners(i)
    BY <1>1, <1>2, <1>4, RunnersSame
  <1>10. \A i : IsSubscribed(i)' = IsSubscribed(i)
    BY <1>3 DEF IsSubscribed, Subscribed
  <1>11. \A i \in Ids : i = Top(t).rec => Runners(i) = {}
    <2>1. \A i \in Ids : IsFiniteSet(Runners(i))
      BY RunnersFinite
    <2>2. \A i \in Ids : i = Top(t).rec => Cardinality(Runners(i)) = 0
      BY <1>3 DEF Counted
    <2>3. QED
      BY <2>1, <2>2, FS_EmptySet
  <1>12. RemovingSafely'
    <2>1. \A s \in Slots : /\ frame'[s].op \in Removing <=> frame[s].op \in Removing
                           /\ frame'[s].rec = frame[s].rec
      BY <1>1, <1>2, <1>4 DEF Removing
    <2>2. \A s \in Slots : frame'[s].op = "delete" => s = s0 \/ frame[s].op = "delete"
      BY <1>4
    <2>3. QED
      BY <1>1, <1>3, <1>9, <1>10, <1>11, <2>1, <2>2 DEF RemovingSafely
  <1>13. Counted'
    BY <1>3, <1>9 DEF Counted
  <1>14. QED
    BY <1>5, <1>6, <1>7, <1>8, <1>12, <1>13

(* The wrapper is deleted.                                                 *)
LEMMA RemoveDeleteStep ==
  ASSUME IInv, NEW t \in Threads, RemoveDelete(t)
  PROVE  IInv'
  <1> DEFINE id == Top(t).rec
             s0 == <<t, depth[t]>>
  <1> USE DEF IInv
  <1>1. /\ depth[t] > 0 /\ s0 \in Slots
        /\ frame[s0] = Top(t) /\ Top(t) \in Frames /\ Top(t).op = "delete"
    BY AtSlot DEF RemoveDelete
  <1>2. /\ Pop(t)
        /\ heap' = [heap EXCEPT ![id] = "freed"]
        /\ acks' = Acknowledge(id)
        /\ UNCHANGED <<topicReceivers, runningReceivers, receiverIdCounter>>
    BY DEF RemoveDelete
  <1>3. /\ frame' \in [Slots -> Frames] /\ depth' \in [Threads -> 0..MaxDepth]
        /\ \A s \in Slots : frame'[s] = IF s = s0 THEN NoFrame ELSE frame[s]
    BY <1>1, <1>2, PopSlot
  <1>4. Stacked'
    BY <1>1, <1>2, NoFrameIsFrame, StackedKept
  <1>5. /\ id \in Ids /\ heap[id] = "live" /\ ~IsSubscribed(id)
        /\ \A r \in Slots : frame[r].op \in Removing /\ frame[r].rec = id => r = s0
        /\ Runners(id) = {}
    BY <1>1 DEF RemovingSafely, Removing
  <1>6. NoFrame.op = "idle"
    BY DEF NoFrame
  <1> HIDE DEF s0, id
  <1>7. TypeOK'
    <2>1. acks' \in [Ids -> 0..2]
      <3>1. /\ acks \in [Ids -> 0..2]
            /\ acks' = [acks EXCEPT ![id] = IF @ < 2 THEN @ + 1 ELSE @]
        BY <1>2 DEF Acknowledge, TypeOK
      <3>2. (IF acks[id] < 2 THEN acks[id] + 1 ELSE acks[id]) \in 0..2
        BY <1>5, <3>1
      <3>3. QED
        BY <1>5, <3>1, <3>2
    <2>2. heap' \in [Ids -> {"none", "live", "freed"}]
      BY <1>2 DEF TypeOK
    <2>3. QED
      BY <1>2, <1>3, <2>1, <2>2 DEF TypeOK
  <1>8. \A i \in Ids : i # id => heap'[i] = heap[i]
    BY <1>2 DEF TypeOK
  <1>9. /\ \A o \in Topics : Subscribed(o)' = Subscribed(o)
        /\ \A i : IsSubscribed(i)' = IsSubscribed(i)
    BY <1>2 DEF IsSubscribed, Subscribed
  <1>10. Listed'
    <2>1. \A o \in Topics : \A i \in Subscribed(o) : i \in Ids /\ i # id
      BY <1>5, ListTyped DEF IsSubscribed
    <2>2. id <= receiverIdCounter
      BY <1>5 DEF Listed, TypeOK, Ids
    <2>3. \A i \in Ids : i > receiverIdCounter => i # id
      BY <1>5, <2>2 DEF TypeOK, Ids
    <2>4. QED
      BY <1>2, <1>8, <1>9, <2>1, <2>3 DEF Listed
  <1>11. Receiving'
    <2>1. \A s \in Slots : frame[s].op = "receive" => frame[s].rec # id
      BY <1>5 DEF Runners
    <2>2. QED
      BY <1>3, <1>6, <1>8, <2>1 DEF Receiving
  <1>12. \A i : Runners(i)' = Runners(i)
    BY <1>1, <1>3, <1>6, RunnersSame
  <1>13. RemovingSafely'
    <2>1. \A s \in Slots : frame'[s].op \in Removing =>
            s # s0 /\ frame'[s] = frame[s] /\ frame[s].rec # id
      BY <1>3, <1>5, <1>6 DEF Removing
    <2>2. QED
      BY <1>8, <1>9, <1>12, <2>1 DEF RemovingSafely
  <1>14. Counted'
    BY <1>2, <1>12 DEF Counted
  <1>15. QED
    BY <1>4, <1>7, <1>10, <1>11, <1>13, <1>14

(* A callback begins.                                                      *)
LEMMA ReceiveBeginStep ==
  ASSUME IInv, NEW t \in Threads, ReceiveBegin(t)
  PROVE  IInv'
  <1> DEFINE id == Head(Top(t).ids)
             f  == [Top(t) EXCEPT !.op = "receive", !.rec = id, !.ids = Tail(@),
                                  !.called = Append(@, id)]
             s0 == <<t, depth[t]>>
  <1> USE DEF IInv
  <1>1. /\ depth[t] > 0 /\ s0 \in Slots
        /\ frame[s0] = Top(t) /\ Top(t) \in Frames /\ Top(t).op = "dispatch"
    BY AtSlot DEF ReceiveBegin
  <1>2. /\ Top(t).ids \in Seq(Ids) /\ Top(t).ids # <<>>
        /\ Top(t).called \in Seq(Ids)
    BY <1>1 DEF ReceiveBegin, Frames
  <1>3. id \in Ids /\ Tail(Top(t).ids) \in Seq(Ids)
    BY <1>2
  <1>4. f \in Frames /\ f.op = "receive" /\ f.rec = id
    <2>1. id \in 0..MaxReceivers
      BY <1>3, ReceiversAssumption DEF Ids
    <2>2. Append(Top(t).called, id) \in Seq(Ids)
      BY <1>2, <1>3
    <2>3. QED
      BY <1>1, <1>3, <2>1, <2>2 DEF Frames, FrameOps
  <1>5. /\ Update(t, f)
        /\ IsSubscribed(id)
        /\ runningReceivers' = [runningReceivers EXCEPT ![id] = @ + 1]
        /\ UNCHANGED <<topicReceivers, receiverIdCounter, heap, acks>>
    BY DEF ReceiveBegin, Listens, IsSubscribed
  <1> HIDE DEF f
  <1>6. /\ frame' \in [Slots -> Frames] /\ depth' = depth
        /\ \A s \in Slots : frame'[s] = IF s = s0 THEN f ELSE frame[s]
    BY <1>1, <1>4, <1>5, UpdateSlot
  <1>7. Stacked'
    BY <1>1, <1>4, <1>5, StackedKept
  <1> HIDE DEF s0, id
  <1>8. TypeOK'
    BY <1>3, <1>5, <1>6 DEF TypeOK
  <1>9. Listed'
    BY <1>5, ListedSame
  <1>10. heap[id] = "live"
    BY <1>5 DEF Listed, IsSubscribed
  <1>11. Receiving'
    BY <1>3, <1>4, <1>5, <1>6, <1>10 DEF Receiving
  <1>12. /\ \A i \in Ids : i = id =>
              Runners(i)' = Runners(i) \cup {s0} /\ s0 \notin Runners(i)
         /\ \A i \in Ids : i # id => Runners(i)' = Runners(i)
    BY <1>1, <1>4, <1>6 DEF Runners
  <1>13. \A i : IsSubscribed(i)' = IsSubscribed(i)
    BY <1>5 DEF IsSubscribed, Subscribed
  <1>14. RemovingSafely'
    <2>1. \A s \in Slots : frame'[s].op \in Removing =>
            s # s0 /\ frame'[s] = frame[s] /\ frame[s].rec \in Ids
      BY <1>4, <1>6 DEF RemovingSafely, Removing
    <2>2. \A s \in Slots : frame[s].op \in Removing /\ frame[s].rec \in Ids
            => frame[s].rec # id
      BY <1>5 DEF RemovingSafely
    <2>3. ASSUME NEW s \in Slots, NEW i \in Ids,
                 frame'[s].op \in Removing, frame'[s].rec = i
          PROVE  /\ heap'[i] = "live"
                 /\ ~IsSubscribed(i)'
                 /\ \A r \in Slots :
                      frame'[r].op \in Removing /\ frame'[r].rec = i => r = s
                 /\ frame'[s].op = "delete" => Runners(i)' = {}
      <3>1. /\ frame[s].op \in Removing /\ frame[s].rec = i
            /\ frame'[s] = frame[s] /\ i # id
        BY <2>1, <2>2, <2>3
      <3>2. /\ heap[i] = "live" /\ ~IsSubscribed(i)
            /\ \A r \in Slots :
                 frame[r].op \in Removing /\ frame[r].rec = i => r = s
            /\ frame[s].op = "delete" => Runners(i) = {}
        BY <3>1 DEF RemovingSafely
      <3>3. Runners(i)' = Runners(i)
        BY <1>12, <3>1
      <3>4. QED
        BY <1>5, <1>13, <2>1, <3>1, <3>2, <3>3
    <2>4. QED
      BY <2>1, <2>3 DEF RemovingSafely
  <1>15. Counted'
    <2>1. \A i \in Ids : i = id =>
            Cardinality(Runners(i)') = Cardinality(Runners(i)) + 1
      BY <1>12, RunnersFinite, FS_AddElement
    <2>2. \A i \in Ids : i = id => runningReceivers'[i] = runningReceivers[i] + 1
      BY <1>3, <1>5 DEF TypeOK
    <2>3. \A i \in Ids : i # id => runningReceivers'[i] = runningReceivers[i]
      BY <1>3, <1>5 DEF TypeOK
    <2>4. QED
      BY <1>12, <2>1, <2>2, <2>3 DEF Counted
  <1>16. QED
    BY <1>7, <1>8, <1>9, <1>11, <1>14, <1>15

(* A callback returns.                                                     *)
LEMMA ReceiveEndStep ==
  ASSUME IInv, NEW t \in Threads, ReceiveEnd(t)
  PROVE  IInv'
  <1> DEFINE id == Top(t).rec
             f  == [Top(t) EXCEPT !.op = "dispatch", !.rec = 0]
             s0 == <<t, depth[t]>>
  <1> USE DEF IInv
  <1>1. /\ depth[t] > 0 /\ s0 \in Slots
        /\ frame[s0] = Top(t) /\ Top(t) \in Frames /\ Top(t).op = "receive"
    BY AtSlot DEF ReceiveEnd
  <1>2. id \in Ids /\ s0 \in Runners(id)
    BY <1>1 DEF Receiving, Runners
  <1>3. f \in Frames /\ f.op = "dispatch"
    <2>1. 0 \in 0..MaxReceivers
      BY ReceiversAssumption
    <2>2. QED
      BY <1>1, <2>1 DEF Frames, FrameOps
  <1>4. /\ Update(t, f)
        /\ runningReceivers' = [runningReceivers EXCEPT
                                  ![id] = IF @ > 0 THEN @ - 1 ELSE @]
        /\ UNCHANGED <<topicReceivers, receiverIdCounter, heap, acks>>
    BY DEF ReceiveEnd
  <1> HIDE DEF f
  <1>5. /\ frame' \in [Slots -> Frames] /\ depth' = depth
        /\ \A s \in Slots : frame'[s] = IF s = s0 THEN f ELSE frame[s]
    BY <1>1, <1>3, <1>4, UpdateSlot
  <1>6. Stacked'
    BY <1>1, <1>3, <1>4, StackedKept
  <1> HIDE DEF s0, id
  <1>7. TypeOK'
    <2>1. runningReceivers' \in [Ids -> Nat]
      BY <1>2, <1>4 DEF TypeOK
    <2>2. QED
      BY <1>4, <1>5, <2>1 DEF TypeOK
  <1>8. Listed'
    BY <1>4, ListedSame
  <1>9. Receiving'
    BY <1>3, <1>4, <1>5 DEF Receiving
  <1>10. /\ \A i \in Ids : i = id =>
              Runners(i)' = Runners(i) \ {s0} /\ s0 \in Runners(i)
         /\ \A i \in Ids : i # id => Runners(i)' = Runners(i)
    BY <1>1, <1>2, <1>3, <1>5 DEF Runners
  <1>11. \A i : IsSubscribed(i)' = IsSubscribed(i)
    BY <1>4 DEF IsSubscribed, Subscribed
  <1>12. RemovingSafely'
    <2>1. \A s \in Slots : frame'[s].op \in Removing =>
            s # s0 /\ frame'[s] = frame[s]
      BY <1>3, <1>5 DEF Removing
    <2>2. \A i \in Ids : Runners(i) = {} => Runners(i)' = {}
      BY <1>10
    <2>3. QED
      BY <1>4, <1>11, <2>1, <2>2 DEF RemovingSafely
  <1>13. Counted'
    <2>1. ASSUME NEW i \in Ids, i = id
          PROVE  runningReceivers'[i] = Cardinality(Runners(i)')
      <3>1. /\ IsFiniteSet(Runners(i))
            /\ s0 \in Runners(i)
            /\ Runners(i)' = Runners(i) \ {s0}
        BY <1>10, <2>1, RunnersFinite
      <3>2. /\ Cardinality(Runners(i)') = Cardinality(Runners(i)) - 1
            /\ Cardinality(Runners(i)) # 0
            /\ Cardinality(Runners(i)) \in Nat
        BY <3>1, FS_RemoveElement, FS_EmptySet, FS_CardinalityType
      <3>3. runningReceivers[i] = Cardinality(Runners(i))
        BY DEF Counted
      <3>4. QED
        BY <1>2, <1>4, <2>1, <3>2, <3>3 DEF TypeOK
    <2>2. \A i \in Ids : i # id => runningReceivers'[i] = runningReceivers[i]
      BY <1>2, <1>4 DEF TypeOK
    <2>3. QED
      BY <1>10, <2>1, <2>2 DEF Counted
  <1>14. QED
    BY <1>6, <1>7, <1>8, <1>9, <1>12, <1>13

-----------------------------------------------------------------------------
(* Every step of the registry keeps the inductive invariant.               *)
THEOREM NextIInv == IInv /\ [Next]_vars => IInv'
  <1>1. ASSUME IInv, UNCHANGED vars PROVE IInv'
    <2>1. UNCHANGED <<topicReceivers, runningReceivers, receiverIdCounter,
                      heap, acks, frame, depth>>
      BY <1>1 DEF vars
    <2>2. /\ \A i : Runners(i)' = Runners(i)
          /\ \A i : IsSubscribed(i)' = IsSubscribed(i)
      BY <2>1 DEF Runners, IsSubscribed, Subscribed
    <2>3. TypeOK' /\ Listed' /\ Stacked' /\ Receiving'
      BY <1>1, <2>1, ListedSame DEF IInv, TypeOK, Stacked, Receiving
    <2>4. RemovingSafely' /\ Counted'
      BY <1>1, <2>1, <2>2 DEF IInv, RemovingSafely, Counted
    <2>5. QED
      BY <2>3, <2>4 DEF IInv
  <1>2. ASSUME IInv, NEW t \in Threads, UserCall(t) PROVE IInv'
    <2>1. \A id \in 1..receiverIdCounter : id \in Ids
      BY <1>2, ReceiversAssumption DEF IInv, TypeOK, Ids
    <2>2. QED
      BY <1>2, <2>1, AddReceiverStep, DispatchMessageStep, RemoveListedStep,
         RemoveUnlistedStep, FindReceiverStep DEF UserCall
  <1>3. ASSUME IInv, NEW t \in Threads, DispatcherStep(t) PROVE IInv'
    BY <1>3, RemoveWaitStep, RemoveDeleteStep, QuietPopStep, ReceiveBeginStep,
       ReceiveSkipStep DEF DispatcherStep
  <1>4. QED
    BY <1>1, <1>2, <1>3, ReceiveEndStep DEF Next

(* The strengthened invariant holds in every reachable state.              *)
THEOREM Invariance == Spec => []IInv
  BY InitIInv, NextIInv, PTL DEF Spec

(* TypeOK: the state of the registry keeps its type.                       *)
THEOREM TypeCorrect == Spec => []TypeOK
  <1>1. IInv => TypeOK
    BY DEF IInv
  <1>2. QED
    BY <1>1, Invariance, PTL

(* A callback never runs on a deleted wrapper: RemoveReceiver's wait is    *)
(* enough, however many threads dispatch, subscribe and unsubscribe and    *)
(* however deep callbacks nest.                                            *)
THEOREM ReceiverLiveness == Spec => []RunningReceiverIsLive
  <1>1. IInv => RunningReceiverIsLive
    <2> SUFFICES ASSUME IInv, NEW id \in Ids,
                        Runners(id) # {} \/ runningReceivers[id] > 0
                 PROVE  heap[id] = "live"
      BY DEF RunningReceiverIsLive
    <2>1. Runners(id) # {}
      <3>1. Runners(id) = {} => runningReceivers[id] = 0
        BY FS_EmptySet DEF IInv, Counted
      <3>2. QED
        BY <3>1
    <2>2. QED
      BY <2>1 DEF IInv, Receiving, Runners
  <1>2. QED
    BY <1>1, Invariance, PTL

(* No wrapper is deleted twice, and no list leads to a deleted one.        *)
THEOREM SingleDelete == Spec => []DeletedOnce
  <1>1. IInv => DeletedOnce
    BY DEF IInv, DeletedOnce, RemovingSafely, Removing, Listed
  <1>2. QED
    BY <1>1, Invariance, PTL

(* Once its removal has begun, a receiver starts no further callback:      *)
(* ReceiveBegin takes ids of the lists only, and a receiver being removed  *)
(* is in none of them.                                                     *)
THEOREM RemovalIsFinal == Spec => NoStartAfterRemoval
  <1> DEFINE Falls == \A s \in Slots : frame[s].op \in {"wait", "delete"} =>
                runningReceivers'[frame[s].rec] <= runningReceivers[frame[s].rec]
  <1>1. ASSUME IInv, Next PROVE Falls
    <2> SUFFICES ASSUME NEW s \in Slots, frame[s].op \in {"wait", "delete"}
                 PROVE  runningReceivers'[frame[s].rec]
                          <= runningReceivers[frame[s].rec]
      OBVIOUS
    <2> DEFINE id == frame[s].rec
    <2>1. /\ id \in Ids /\ ~IsSubscribed(id)
          /\ runningReceivers \in [Ids -> Nat]
      BY <1>1 DEF IInv, RemovingSafely, Removing, TypeOK
    <2> HIDE DEF id
    <2>2. \/ UNCHANGED runningReceivers
          \/ \E t \in Threads : ReceiveBegin(t) \/ ReceiveEnd(t)
      BY <1>1 DEF Next, UserCall, DispatcherStep, AddReceiver, DispatchMessage,
                  RemoveListed, RemoveUnlisted, FindReceiver, RemoveWait,
                  RemoveDelete, FindReturn, ReceiveSkip, DispatchReturn
    <2>3. CASE UNCHANGED runningReceivers
      BY <2>1, <2>3 DEF id
    <2>4. ASSUME NEW t \in Threads, ReceiveBegin(t)
          PROVE  runningReceivers'[id] <= runningReceivers[id]
      <3> DEFINE other == Head(Top(t).ids)
      <3>1. /\ IsSubscribed(other)
            /\ runningReceivers' = [runningReceivers EXCEPT ![other] = @ + 1]
        BY <2>4 DEF ReceiveBegin, Listens, IsSubscribed
      <3> HIDE DEF other
      <3>2. id # other
        BY <2>1, <3>1
      <3>3. QED
        BY <2>1, <3>1, <3>2
    <2>5. ASSUME NEW t \in Threads, ReceiveEnd(t)
          PROVE  runningReceivers'[id] <= runningReceivers[id]
      <3> DEFINE other == Top(t).rec
      <3>1. runningReceivers' = [runningReceivers EXCEPT
                                   ![other] = IF @ > 0 THEN @ - 1 ELSE @]
        BY <2>5 DEF ReceiveEnd
      <3> HIDE DEF other
      <3>2. CASE id = other
        BY <2>1, <3>1, <3>2
      <3>3. CASE id # other
        BY <2>1, <3>1, <3>3
      <3>4. QED
        BY <3>2, <3>3
    <2>6. QED
      BY <2>2, <2>3, <2>4, <2>5 DEF id
  <1>2. IInv /\ [Next]_vars => [Falls]_vars
    BY <1>1
  <1>3. QED
    BY <1>2, InitIInv, NextIInv, PTL DEF Spec, NoStartAfterRemoval

-----------------------------------------------------------------------------
(* The order of calls: what a dispatch has called and what it has still to *)
(* call is one increasing sequence of ids, from which ReceiveSkip takes an *)
(* element and in which ReceiveBegin moves the border.                     *)

(* Sequences cut in two.                                                   *)

(* The elements of a sequence with one more at its end.                    *)
LEMMA SetOfAppend ==
  ASSUME NEW S, NEW a \in Seq(S), NEW x \in S
  PROVE  ToSet(Append(a, x)) = ToSet(a) \cup {x}
  <1>1. /\ Append(a, x) \in Seq(S) /\ Len(Append(a, x)) = Len(a) + 1
        /\ Append(a, x)[Len(a) + 1] = x
        /\ \A i \in 1..Len(a) : Append(a, x)[i] = a[i]
    OBVIOUS
  <1>2. \A i \in 1..(Len(a) + 1) : i = Len(a) + 1 \/ i \in 1..Len(a)
    OBVIOUS
  <1>3. ASSUME NEW y \in ToSet(Append(a, x)) PROVE y \in ToSet(a) \cup {x}
    <2>1. PICK i \in 1..(Len(a) + 1) : y = Append(a, x)[i]
      BY <1>1 DEF ToSet
    <2>2. QED
      BY <1>1, <1>2, <2>1 DEF ToSet
  <1>4. x \in ToSet(Append(a, x))
    BY <1>1 DEF ToSet
  <1>5. ASSUME NEW y \in ToSet(a) PROVE y \in ToSet(Append(a, x))
    <2>1. PICK i \in 1..Len(a) : y = a[i]
      BY DEF ToSet
    <2>2. i \in 1..(Len(a) + 1) /\ Append(a, x)[i] = y
      BY <1>1, <2>1
    <2>3. QED
      BY <1>1, <2>2 DEF ToSet
  <1>6. QED
    BY <1>3, <1>4, <1>5

(* The elements of a sequence are its head and those of its tail.          *)
LEMMA SetOfTail ==
  ASSUME NEW S, NEW b \in Seq(S), b # <<>>
  PROVE  ToSet(b) = ToSet(Tail(b)) \cup {b[1]}
  <1>1. /\ Len(b) \in Nat /\ Len(b) > 0
        /\ Tail(b) \in Seq(S) /\ Len(Tail(b)) = Len(b) - 1
        /\ \A i \in 1..(Len(b) - 1) : Tail(b)[i] = b[i + 1]
    OBVIOUS
  <1> DEFINE d == Tail(b)
  <1>2. DOMAIN d = 1..(Len(b) - 1)
    BY <1>1
  <1>3. \A k \in 1..(Len(b) - 1) : d[k] = b[k + 1]
    BY <1>1
  <1> HIDE DEF d
  <1>4. ASSUME NEW y \in ToSet(b) PROVE y \in ToSet(d) \cup {b[1]}
    <2>1. PICK i \in 1..Len(b) : y = b[i]
      BY DEF ToSet
    <2>2. CASE i = 1
      BY <2>1, <2>2
    <2>3. CASE i # 1
      <3>1. i - 1 \in 1..(Len(b) - 1) /\ d[i - 1] = y
        BY <1>1, <1>3, <2>1, <2>3
      <3>2. PICK k \in DOMAIN d : d[k] = y
        BY <1>2, <3>1
      <3>3. y \in ToSet(d)
        BY <3>2 DEF ToSet
      <3>4. QED
        BY <3>3
    <2>4. QED
      BY <2>2, <2>3
  <1>5. b[1] \in ToSet(b)
    BY <1>1 DEF ToSet
  <1>6. ASSUME NEW y \in ToSet(d) PROVE y \in ToSet(b)
    <2>1. PICK i \in 1..(Len(b) - 1) : y = d[i]
      BY <1>2, <1>3 DEF ToSet
    <2>2. i + 1 \in 1..Len(b) /\ y = b[i + 1]
      BY <1>1, <1>3, <2>1
    <2>3. QED
      BY <2>2 DEF ToSet
  <1>7. QED
    BY <1>4, <1>5, <1>6 DEF d

(* The border between two parts moves by one element.                      *)
LEMMA BorderMoves ==
  ASSUME NEW S, NEW a \in Seq(S), NEW b \in Seq(S), b # <<>>
  PROVE  /\ Append(a, Head(b)) \o Tail(b) = a \o b
         /\ ToSet(Append(a, Head(b))) \cup ToSet(Tail(b)) = ToSet(a) \cup ToSet(b)
  <1> DEFINE n == Len(a)
             m == Len(b)
             l == Append(a, Head(b)) \o Tail(b)
             r == a \o b
  <1>1. /\ n \in Nat /\ m \in Nat /\ m > 0
        /\ Head(b) = b[1] /\ Tail(b) \in Seq(S) /\ Len(Tail(b)) = m - 1
        /\ \A i \in 1..(m - 1) : Tail(b)[i] = b[i + 1]
    OBVIOUS
  <1>2. /\ Append(a, Head(b)) \in Seq(S) /\ Len(Append(a, Head(b))) = n + 1
        /\ Append(a, Head(b))[n + 1] = b[1]
        /\ \A i \in 1..n : Append(a, Head(b))[i] = a[i]
    BY <1>1
  <1>3. l \in Seq(S) /\ r \in Seq(S) /\ Len(l) = n + m /\ Len(r) = n + m
    BY <1>1, <1>2
  <1>4. ASSUME NEW i \in 1..(n + m) PROVE l[i] = r[i]
    <2>1. CASE i \in 1..n
      BY <1>1, <1>2, <2>1
    <2>2. CASE i = n + 1
      BY <1>1, <1>2, <2>2
    <2>3. CASE i > n + 1
      <3>1. i - (n + 1) \in 1..(m - 1) /\ i - n \in 1..m /\ (i - (n + 1)) + 1 = i - n
        BY <1>1, <2>3
      <3>2. l[i] = Tail(b)[i - (n + 1)]
        BY <1>1, <1>2, <2>3
      <3>3. r[i] = b[i - n]
        BY <1>1, <2>3
      <3>4. QED
        BY <1>1, <3>1, <3>2, <3>3
    <2>4. QED
      BY <1>1, <2>1, <2>2, <2>3
  <1>5. l = r
    <2> HIDE DEF l, r, n, m
    <2>1. l = [i \in 1..(n + m) |-> l[i]] /\ r = [i \in 1..(n + m) |-> r[i]]
      BY <1>1, <1>3
    <2>2. QED
      BY <1>4, <2>1
  <1>6. ToSet(Append(a, Head(b))) = ToSet(a) \cup {b[1]}
    BY SetOfAppend, <1>1
  <1>7. ToSet(b) = ToSet(Tail(b)) \cup {b[1]}
    BY SetOfTail, <1>1
  <1>8. QED
    BY <1>5, <1>6, <1>7

(* Without the first element of the second part the whole still increases. *)
LEMMA TailIncreasing ==
  ASSUME NEW S \in SUBSET Nat, NEW a \in Seq(S), NEW b \in Seq(S), b # <<>>,
         Increasing(a \o b)
  PROVE  Increasing(a \o Tail(b))
  <1> DEFINE n == Len(a)
             m == Len(b)
             l == a \o Tail(b)
             r == a \o b
  <1>1. /\ n \in Nat /\ m \in Nat /\ m > 0
        /\ Tail(b) \in Seq(S) /\ Len(Tail(b)) = m - 1
        /\ \A i \in 1..(m - 1) : Tail(b)[i] = b[i + 1]
    OBVIOUS
  <1>2. DOMAIN l = 1..(n + m - 1) /\ DOMAIN r = 1..(n + m)
    BY <1>1
  <1>3. \A i \in 1..(n + m - 1) : l[i] = r[IF i <= n THEN i ELSE i + 1]
    <2> SUFFICES ASSUME NEW i \in 1..(n + m - 1)
                 PROVE  l[i] = r[IF i <= n THEN i ELSE i + 1]
      OBVIOUS
    <2>1. CASE i <= n
      BY <1>1, <2>1
    <2>2. CASE ~(i <= n)
      <3>1. /\ i - n \in 1..(m - 1) /\ (i + 1) - n \in 1..m /\ (i - n) + 1 = (i + 1) - n
            /\ i + 1 \in 1..(n + m)
        BY <1>1, <2>2
      <3>2. l[i] = Tail(b)[i - n]
        BY <1>1, <2>2
      <3>3. r[i + 1] = b[(i + 1) - n]
        BY <1>1, <2>2, <3>1
      <3>4. QED
        BY <1>1, <2>2, <3>1, <3>2, <3>3
    <2>3. QED
      BY <2>1, <2>2
  <1>4. \A i, k \in 1..(n + m) : i < k => r[i] < r[k]
    BY <1>2 DEF Increasing
  <1> HIDE DEF l, r, n, m
  <1>5. ASSUME NEW i \in 1..(n + m - 1), NEW k \in 1..(n + m - 1), i < k
        PROVE  l[i] < l[k]
    <2> DEFINE p == IF i <= n THEN i ELSE i + 1
               q == IF k <= n THEN k ELSE k + 1
    <2>1. p \in 1..(n + m) /\ q \in 1..(n + m) /\ p < q
      BY <1>1, <1>5
    <2>2. l[i] = r[p] /\ l[k] = r[q]
      BY <1>3
    <2> HIDE DEF p, q
    <2>3. QED
      BY <1>4, <2>1, <2>2
  <1>6. QED
    BY <1>2, <1>5 DEF Increasing, l

-----------------------------------------------------------------------------
(* The inductive invariant.                                                *)

(* A frame that dispatches a topic accounts for every receiver its         *)
(* snapshot held and the topic still holds.                                *)
Accounts(f) ==
  f.op \in {"dispatch", "receive"} =>
    /\ f.topic \in Topics
    /\ f.upto <= receiverIdCounter
    /\ \A id \in Subscribed(f.topic) :
         id <= f.upto => id \in ToSet(f.called) \cup ToSet(f.ids)

Accounted == \A s \in Slots : Accounts(frame[s])

OInv == IInv /\ CalledInOrder /\ Accounted

(* A step that changes one frame only and adds no subscription.            *)
LEMMA OrderStep ==
  ASSUME OInv, NEW s0 \in Slots, NEW f,
         \A s \in Slots : frame'[s] = IF s = s0 THEN f ELSE frame[s],
         \A topic \in Topics : Subscribed(topic)' \subseteq Subscribed(topic),
         receiverIdCounter' = receiverIdCounter,
         Increasing(f.called \o f.ids), Accounts(f)
  PROVE  CalledInOrder' /\ Accounted'
  <1>1. CalledInOrder'
    <2>1. ASSUME NEW s \in Slots
          PROVE  Increasing(frame'[s].called \o frame'[s].ids)
      BY DEF OInv, CalledInOrder
    <2>2. QED
      BY <2>1 DEF CalledInOrder
  <1>2. Accounted'
    <2> SUFFICES ASSUME NEW s \in Slots, frame'[s].op \in {"dispatch", "receive"}
                 PROVE  /\ frame'[s].topic \in Topics
                        /\ frame'[s].upto <= receiverIdCounter'
                        /\ \A id \in ToSet(topicReceivers'[frame'[s].topic]) :
                             id <= frame'[s].upto =>
                               id \in ToSet(frame'[s].called) \cup ToSet(frame'[s].ids)
      BY DEF Accounted, Accounts, Subscribed
    <2>1. PICK g : g = frame'[s]
      OBVIOUS
    <2>2. Accounts(g)
      BY <2>1 DEF OInv, Accounted
    <2>3. /\ g.topic \in Topics /\ g.upto <= receiverIdCounter
          /\ \A id \in Subscribed(g.topic) :
               id <= g.upto => id \in ToSet(g.called) \cup ToSet(g.ids)
      BY <2>1, <2>2 DEF Accounts
    <2>4. \A id \in ToSet(topicReceivers'[g.topic]) : id \in Subscribed(g.topic)
      BY <2>3 DEF Subscribed
    <2>5. QED
      BY <2>1, <2>3, <2>4
  <1>3. QED
    BY <1>1, <1>2

(* A frame that has no receivers to call.                                  *)
LEMMA EmptyFrame ==
  /\ NoFrame.op = "idle" /\ NoFrame.called = <<>> /\ NoFrame.ids = <<>>
  /\ Increasing(<<>> \o <<>>)
  BY DEF NoFrame, Increasing

(* The frames of FindReceiver and RemoveReceiver.                          *)
LEMMA OrderPush ==
  ASSUME OInv, NEW t \in Threads, NEW id \in Ids, NEW op \in {"found", "wait"},
         Push(t, [NoFrame EXCEPT !.op = op, !.rec = id]),
         \A topic \in Topics : Subscribed(topic)' \subseteq Subscribed(topic),
         receiverIdCounter' = receiverIdCounter
  PROVE  CalledInOrder' /\ Accounted'
  <1> DEFINE f  == [NoFrame EXCEPT !.op = op, !.rec = id]
             s0 == <<t, depth[t] + 1>>
  <1>1. f \in Frames
    BY ReceiverFrame DEF FrameOps
  <1>2. f.op = op /\ f.called = <<>> /\ f.ids = <<>>
    BY DEF NoFrame
  <1>3. Increasing(f.called \o f.ids)
    BY <1>2, EmptyFrame
  <1>4. Accounts(f)
    BY <1>2 DEF Accounts
  <1>5. s0 \in Slots /\ \A s \in Slots : frame'[s] = IF s = s0 THEN f ELSE frame[s]
    BY <1>1, PushSlot DEF OInv, IInv
  <1> HIDE DEF f, s0
  <1>6. QED
    BY <1>3, <1>4, <1>5, OrderStep

(* The ends of FindReceiver, RemoveReceiver and dispatchMessage.           *)
LEMMA OrderPop ==
  ASSUME OInv, NEW t \in Threads, depth[t] > 0, Pop(t),
         UNCHANGED <<topicReceivers, receiverIdCounter>>
  PROVE  CalledInOrder' /\ Accounted'
  <1> DEFINE s0 == <<t, depth[t]>>
  <1>1. s0 \in Slots /\ \A s \in Slots : frame'[s] = IF s = s0 THEN NoFrame ELSE frame[s]
    BY TopSlot, PopSlot DEF OInv, IInv
  <1>2. Increasing(NoFrame.called \o NoFrame.ids) /\ Accounts(NoFrame)
    BY EmptyFrame DEF Accounts
  <1>3. \A topic \in Topics : Subscribed(topic)' \subseteq Subscribed(topic)
    BY DEF Subscribed
  <1> HIDE DEF s0
  <1>4. QED
    BY <1>1, <1>2, <1>3, OrderStep

(* The new frame of a dispatch, or the frame of the step that goes on.     *)
LEMMA OrderUpdate ==
  ASSUME OInv, NEW t \in Threads, depth[t] > 0, NEW f \in Frames, Update(t, f),
         Increasing(f.called \o f.ids), Accounts(f),
         UNCHANGED <<topicReceivers, receiverIdCounter>>
  PROVE  CalledInOrder' /\ Accounted'
  <1> DEFINE s0 == <<t, depth[t]>>
  <1>1. s0 \in Slots /\ \A s \in Slots : frame'[s] = IF s = s0 THEN f ELSE frame[s]
    BY TopSlot, UpdateSlot DEF OInv, IInv
  <1>2. \A topic \in Topics : Subscribed(topic)' \subseteq Subscribed(topic)
    BY DEF Subscribed
  <1> HIDE DEF s0
  <1>3. QED
    BY <1>1, <1>2, OrderStep

(* The snapshot holds every receiver of the topic, oldest first.           *)
LEMMA DispatchMessageOrder ==
  ASSUME OInv, NEW t \in Threads, NEW topic \in Topics, DispatchMessage(t, topic)
  PROVE  CalledInOrder' /\ Accounted'
  <1> DEFINE f  == [NoFrame EXCEPT !.op = "dispatch", !.topic = topic,
                                   !.ids = topicReceivers[topic],
                                   !.upto = receiverIdCounter]
             s0 == <<t, depth[t] + 1>>
  <1>1. /\ topicReceivers[topic] \in Seq(Ids)
        /\ Increasing(topicReceivers[topic])
        /\ receiverIdCounter \in 0..MaxReceivers
    BY ListTyped DEF OInv, IInv, TypeOK
  <1>2. f \in Frames
    BY <1>1, NoFrameIsFrame DEF Frames, FrameOps
  <1>3. /\ f.topic = topic /\ f.upto = receiverIdCounter
        /\ f.called = <<>> /\ f.ids = topicReceivers[topic]
    BY DEF NoFrame
  <1>4. Push(t, f) /\ UNCHANGED <<topicReceivers, receiverIdCounter>>
    BY DEF DispatchMessage
  <1> HIDE DEF f
  <1>5. Increasing(f.called \o f.ids)
    <2>1. <<>> \o topicReceivers[topic] = topicReceivers[topic]
      BY <1>1
    <2>2. QED
      BY <1>1, <1>3, <2>1
  <1>6. Accounts(f)
    BY <1>1, <1>3 DEF Accounts, Subscribed
  <1>7. s0 \in Slots /\ \A s \in Slots : frame'[s] = IF s = s0 THEN f ELSE frame[s]
    BY <1>2, <1>4, PushSlot DEF OInv, IInv
  <1>8. \A o \in Topics : Subscribed(o)' \subseteq Subscribed(o)
    BY <1>4 DEF Subscribed
  <1> HIDE DEF s0
  <1>9. QED
    BY <1>4, <1>5, <1>6, <1>7, <1>8, OrderStep

(* A new receiver is younger than every snapshot.                          *)
LEMMA AddReceiverOrder ==
  ASSUME OInv, NEW t \in Threads, NEW topic \in Topics, AddReceiver(t, topic)
  PROVE  CalledInOrder' /\ Accounted'
  <1> DEFINE id == receiverIdCounter + 1
  <1>1. receiverIdCounter \in Nat /\ id \in Nat /\ receiverIdCounter' = id
    BY ReceiversAssumption DEF OInv, IInv, TypeOK, AddReceiver
  <1>2. /\ frame' = frame
        /\ topicReceivers' = [topicReceivers EXCEPT ![topic] = Append(@, id)]
    BY DEF AddReceiver
  <1>3. /\ topicReceivers[topic] \in Seq(Nat)
        /\ topicReceivers \in [Topics -> Seq(Ids)]
    BY ListTyped DEF OInv, IInv, TypeOK
  <1>4. \A o \in Topics : \A i \in ToSet(topicReceivers'[o]) :
          i \in ToSet(topicReceivers[o]) \/ i = id
    <2>1. ToSet(Append(topicReceivers[topic], id))
            = ToSet(topicReceivers[topic]) \cup {id}
      BY <1>1, <1>3, SetOfAppend
    <2>2. \A o \in Topics : topicReceivers'[o] =
            IF o = topic THEN Append(topicReceivers[topic], id) ELSE topicReceivers[o]
      BY <1>2, <1>3
    <2>3. QED
      BY <2>1, <2>2
  <1> HIDE DEF id
  <1>5. CalledInOrder'
    BY <1>2 DEF OInv, CalledInOrder
  <1>6. Accounted'
    <2> SUFFICES ASSUME NEW s \in Slots, frame[s].op \in {"dispatch", "receive"}
                 PROVE  /\ frame[s].topic \in Topics
                        /\ frame[s].upto <= receiverIdCounter'
                        /\ \A i \in ToSet(topicReceivers'[frame[s].topic]) :
                             i <= frame[s].upto =>
                               i \in ToSet(frame[s].called) \cup ToSet(frame[s].ids)
      BY <1>2 DEF Accounted, Accounts, Subscribed
    <2>1. /\ frame[s].topic \in Topics
          /\ frame[s].upto <= receiverIdCounter
          /\ \A i \in ToSet(topicReceivers[frame[s].topic]) :
               i <= frame[s].upto =>
                 i \in ToSet(frame[s].called) \cup ToSet(frame[s].ids)
      BY DEF OInv, Accounted, Accounts, Subscribed
    <2>2. frame[s].upto \in Nat
      BY ReceiversAssumption DEF OInv, IInv, TypeOK, Frames
    <2>3. id = receiverIdCounter + 1
      BY DEF id
    <2>4. frame[s].upto <= id /\ ~(id <= frame[s].upto)
      BY <1>1, <2>1, <2>2, <2>3
    <2>5. QED
      BY <1>1, <1>4, <2>1, <2>4
  <1>7. QED
    BY <1>5, <1>6

(* What the frame of a dispatch holds.                                     *)
LEMMA DispatchFrame ==
  ASSUME OInv, NEW t \in Threads, NEW op \in {"dispatch", "receive"}, At(t, op)
  PROVE  /\ depth[t] > 0
         /\ Top(t) \in Frames /\ Top(t).op = op
         /\ Top(t).called \in Seq(Ids) /\ Top(t).ids \in Seq(Ids)
         /\ Increasing(Top(t).called \o Top(t).ids)
         /\ Top(t).topic \in Topics
         /\ Top(t).upto <= receiverIdCounter
         /\ \A id \in Subscribed(Top(t).topic) :
              id <= Top(t).upto =>
                id \in ToSet(Top(t).called) \cup ToSet(Top(t).ids)
  <1>1. /\ depth[t] > 0 /\ <<t, depth[t]>> \in Slots
        /\ frame[<<t, depth[t]>>] = Top(t)
        /\ Top(t) \in Frames /\ Top(t).op = op
    BY AtSlot DEF OInv, IInv
  <1>2. Top(t).called \in Seq(Ids) /\ Top(t).ids \in Seq(Ids)
    BY <1>1 DEF Frames
  <1>3. Increasing(Top(t).called \o Top(t).ids)
    BY <1>1 DEF OInv, CalledInOrder
  <1>4. Accounts(Top(t))
    BY <1>1 DEF OInv, Accounted
  <1>5. QED
    BY <1>1, <1>2, <1>3, <1>4 DEF Accounts

(* The next receiver of the snapshot is called.                            *)
LEMMA ReceiveBeginOrder ==
  ASSUME OInv, NEW t \in Threads, ReceiveBegin(t)
  PROVE  CalledInOrder' /\ Accounted'
  <1> DEFINE g  == Top(t)
             id == Head(g.ids)
             f  == [g EXCEPT !.op = "receive", !.rec = id, !.ids = Tail(@),
                             !.called = Append(@, id)]
  <1>1. /\ At(t, "dispatch") /\ g.ids # <<>>
        /\ Update(t, f)
        /\ UNCHANGED <<topicReceivers, receiverIdCounter>>
    BY DEF ReceiveBegin
  <1>2. /\ depth[t] > 0 /\ g \in Frames
        /\ g.called \in Seq(Ids) /\ g.ids \in Seq(Ids)
        /\ Increasing(g.called \o g.ids)
        /\ g.topic \in Topics /\ g.upto <= receiverIdCounter
        /\ \A i \in Subscribed(g.topic) :
             i <= g.upto => i \in ToSet(g.called) \cup ToSet(g.ids)
    BY <1>1, DispatchFrame
  <1> HIDE DEF g
  <1>3. id \in Ids /\ id \in 0..MaxReceivers
    BY <1>1, <1>2, ReceiversAssumption DEF Ids
  <1>4. /\ f \in Frames
        /\ f.called = Append(g.called, Head(g.ids)) /\ f.ids = Tail(g.ids)
        /\ f.topic = g.topic /\ f.upto = g.upto
    <2>1. Append(g.called, id) \in Seq(Ids) /\ Tail(g.ids) \in Seq(Ids)
      BY <1>1, <1>2, <1>3
    <2>2. QED
      BY <1>2, <1>3, <2>1 DEF Frames, FrameOps
  <1>5. /\ f.called \o f.ids = g.called \o g.ids
        /\ ToSet(f.called) \cup ToSet(f.ids) = ToSet(g.called) \cup ToSet(g.ids)
    <2>1. /\ Append(g.called, Head(g.ids)) \o Tail(g.ids) = g.called \o g.ids
          /\ ToSet(Append(g.called, Head(g.ids))) \cup ToSet(Tail(g.ids))
               = ToSet(g.called) \cup ToSet(g.ids)
      <3>1. \A a, b \in Seq(Ids) : b # <<>> =>
              /\ Append(a, Head(b)) \o Tail(b) = a \o b
              /\ ToSet(Append(a, Head(b))) \cup ToSet(Tail(b)) = ToSet(a) \cup ToSet(b)
        BY BorderMoves
      <3>2. QED
        BY <1>1, <1>2, <3>1
    <2> HIDE DEF f
    <2>2. QED
      BY <1>4, <2>1
  <1> HIDE DEF f
  <1>6. Accounts(f)
    BY <1>2, <1>4, <1>5 DEF Accounts
  <1>7. QED
    BY <1>1, <1>2, <1>4, <1>5, <1>6, OrderUpdate

(* A receiver that has left the topic is passed over.                      *)
LEMMA ReceiveSkipOrder ==
  ASSUME OInv, NEW t \in Threads, ReceiveSkip(t)
  PROVE  CalledInOrder' /\ Accounted'
  <1> DEFINE g == Top(t)
             f == [g EXCEPT !.ids = Tail(@)]
  <1>1. /\ At(t, "dispatch") /\ g.ids # <<>>
        /\ ~Listens(g.topic, Head(g.ids))
        /\ Update(t, f)
        /\ UNCHANGED <<topicReceivers, receiverIdCounter>>
    BY DEF ReceiveSkip
  <1>2. /\ depth[t] > 0 /\ g \in Frames
        /\ g.called \in Seq(Ids) /\ g.ids \in Seq(Ids)
        /\ Increasing(g.called \o g.ids)
        /\ g.topic \in Topics /\ g.upto <= receiverIdCounter
        /\ \A i \in Subscribed(g.topic) :
             i <= g.upto => i \in ToSet(g.called) \cup ToSet(g.ids)
    BY <1>1, DispatchFrame
  <1> HIDE DEF g
  <1>3. /\ f \in Frames /\ f.called = g.called /\ f.ids = Tail(g.ids)
        /\ f.topic = g.topic /\ f.upto = g.upto
    <2>1. Tail(g.ids) \in Seq(Ids)
      BY <1>1, <1>2
    <2>2. QED
      BY <1>2, <2>1 DEF Frames
  <1>4. Increasing(f.called \o f.ids)
    <2>1. Ids \in SUBSET Nat
      BY DEF Ids
    <2>2. QED
      BY <1>1, <1>2, <1>3, <2>1, TailIncreasing
  <1>5. ToSet(g.ids) = ToSet(Tail(g.ids)) \cup {Head(g.ids)}
    BY <1>1, <1>2, SetOfTail
  <1>6. Head(g.ids) \notin Subscribed(g.topic)
    BY <1>1, <1>2 DEF Listens
  <1> HIDE DEF f
  <1>7. Accounts(f)
    BY <1>2, <1>3, <1>5, <1>6 DEF Accounts
  <1>8. QED
    BY <1>1, <1>2, <1>3, <1>4, <1>7, OrderUpdate

(* The end of a callback leaves both parts of the sequence alone.          *)
LEMMA ReceiveEndOrder ==
  ASSUME OInv, NEW t \in Threads, ReceiveEnd(t)
  PROVE  CalledInOrder' /\ Accounted'
  <1> DEFINE g == Top(t)
             f == [g EXCEPT !.op = "dispatch", !.rec = 0]
  <1>1. /\ At(t, "receive")
        /\ Update(t, f)
        /\ UNCHANGED <<topicReceivers, receiverIdCounter>>
    BY DEF ReceiveEnd
  <1>2. /\ depth[t] > 0 /\ g \in Frames
        /\ Increasing(g.called \o g.ids)
        /\ g.topic \in Topics /\ g.upto <= receiverIdCounter
        /\ \A i \in Subscribed(g.topic) :
             i <= g.upto => i \in ToSet(g.called) \cup ToSet(g.ids)
    BY <1>1, DispatchFrame
  <1> HIDE DEF g
  <1>3. /\ f \in Frames /\ f.called = g.called /\ f.ids = g.ids
        /\ f.topic = g.topic /\ f.upto = g.upto
    <2>1. 0 \in 0..MaxReceivers
      BY ReceiversAssumption
    <2>2. QED
      BY <1>2, <2>1 DEF Frames, FrameOps
  <1> HIDE DEF f
  <1>4. Accounts(f)
    BY <1>2, <1>3 DEF Accounts
  <1>5. QED
    BY <1>1, <1>2, <1>3, <1>4, OrderUpdate

(* RemoveReceiver goes on: its frame dispatches nothing.                   *)
LEMMA RemoveWaitOrder ==
  ASSUME OInv, NEW t \in Threads, RemoveWait(t)
  PROVE  CalledInOrder' /\ Accounted'
  <1> DEFINE g == Top(t)
             f == [g EXCEPT !.op = "delete"]
  <1>1. /\ Update(t, f) /\ UNCHANGED <<topicReceivers, receiverIdCounter>>
    BY DEF RemoveWait
  <1>2. /\ depth[t] > 0 /\ <<t, depth[t]>> \in Slots
        /\ frame[<<t, depth[t]>>] = g /\ g \in Frames
    BY AtSlot DEF RemoveWait, OInv, IInv
  <1>3. Increasing(g.called \o g.ids)
    BY <1>2 DEF OInv, CalledInOrder
  <1> HIDE DEF g
  <1>4. f \in Frames /\ f.op = "delete" /\ f.called = g.called /\ f.ids = g.ids
    BY <1>2 DEF Frames, FrameOps
  <1> HIDE DEF f
  <1>5. Accounts(f)
    BY <1>4 DEF Accounts
  <1>6. QED
    BY <1>1, <1>2, <1>3, <1>4, <1>5, OrderUpdate

(* RemoveReceiver takes an id out of one list.                             *)
LEMMA RemoveListedOrder ==
  ASSUME OInv, NEW t \in Threads, NEW id \in Ids, RemoveListed(t, id)
  PROVE  CalledInOrder' /\ Accounted'
  <1>1. PICK topic \in Topics : \E j \in DOMAIN topicReceivers[topic] :
          topicReceivers' = [topicReceivers EXCEPT ![topic] = RemoveAt(@, j)]
    BY DEF RemoveListed
  <1>2. PICK j \in DOMAIN topicReceivers[topic] :
          topicReceivers' = [topicReceivers EXCEPT ![topic] = RemoveAt(@, j)]
    BY <1>1
  <1>3. /\ topicReceivers \in [Topics -> Seq(Ids)]
        /\ topicReceivers[topic] \in Seq(Nat)
        /\ Increasing(topicReceivers[topic])
    BY ListTyped DEF OInv, IInv, TypeOK
  <1>4. ToSet(RemoveAt(topicReceivers[topic], j)) \subseteq ToSet(topicReceivers[topic])
    BY <1>2, <1>3, RemoveAtIncreasing
  <1>5. \A o \in Topics : Subscribed(o)' \subseteq Subscribed(o)
    <2>1. \A o \in Topics : topicReceivers'[o] =
            IF o = topic THEN RemoveAt(topicReceivers[topic], j) ELSE topicReceivers[o]
      BY <1>2, <1>3
    <2>2. QED
      BY <1>4, <2>1 DEF Subscribed
  <1>6. Push(t, [NoFrame EXCEPT !.op = "wait", !.rec = id]) /\ UNCHANGED receiverIdCounter
    BY DEF RemoveListed
  <1>7. QED
    BY <1>5, <1>6, OrderPush

-----------------------------------------------------------------------------
(* Every step keeps the order and the account of every dispatch.           *)
THEOREM OrderStepInv == OInv /\ [Next]_vars => OInv'
  <1>1. ASSUME OInv, UNCHANGED vars PROVE CalledInOrder' /\ Accounted'
    BY <1>1 DEF OInv, CalledInOrder, Accounted, Accounts, Subscribed, vars
  <1>2. ASSUME OInv, NEW t \in Threads, UserCall(t)
        PROVE  CalledInOrder' /\ Accounted'
    <2>1. \A id \in 1..receiverIdCounter : id \in Ids
      BY <1>2, ReceiversAssumption DEF OInv, IInv, TypeOK, Ids
    <2>2. ASSUME NEW id \in Ids, FindReceiver(t, id)
          PROVE  CalledInOrder' /\ Accounted'
      BY <1>2, <2>2, OrderPush DEF FindReceiver, Subscribed
    <2>3. ASSUME NEW id \in Ids, RemoveUnlisted(t, id)
          PROVE  CalledInOrder' /\ Accounted'
      BY <1>2, <2>3 DEF RemoveUnlisted, OInv, CalledInOrder, Accounted, Accounts,
                        Subscribed
    <2>4. QED
      BY <1>2, <2>1, <2>2, <2>3, AddReceiverOrder, DispatchMessageOrder,
         RemoveListedOrder DEF UserCall
  <1>3. ASSUME OInv, NEW t \in Threads, DispatcherStep(t)
        PROVE  CalledInOrder' /\ Accounted'
    <2>1. CASE RemoveDelete(t) \/ FindReturn(t) \/ DispatchReturn(t)
      <3>1. Pop(t) /\ UNCHANGED <<topicReceivers, receiverIdCounter>>
        BY <2>1 DEF RemoveDelete, FindReturn, DispatchReturn
      <3>2. depth[t] > 0
        BY <2>1 DEF RemoveDelete, FindReturn, DispatchReturn, At
      <3>3. QED
        BY <1>3, <3>1, <3>2, OrderPop
    <2>2. QED
      BY <1>3, <2>1, RemoveWaitOrder, ReceiveBeginOrder, ReceiveSkipOrder
         DEF DispatcherStep
  <1>4. ASSUME OInv, [Next]_vars PROVE CalledInOrder' /\ Accounted'
    BY <1>1, <1>2, <1>3, <1>4, ReceiveEndOrder DEF Next
  <1>5. QED
    BY <1>4, NextIInv DEF OInv

(* The order and the account hold in every reachable state.                *)
THEOREM OrderInvariance == Spec => []OInv
  <1>1. Init => OInv
    <2> SUFFICES ASSUME Init PROVE CalledInOrder /\ Accounted
      BY InitIInv DEF OInv
    <2>1. \A s \in Slots : frame[s] = NoFrame
      BY DEF Init
    <2>2. QED
      BY <2>1, EmptyFrame DEF CalledInOrder, Accounted, Accounts
  <1>2. QED
    BY <1>1, OrderStepInv, PTL DEF Spec

(* CalledInOrder: a dispatch calls the receivers of its topic oldest first *)
(* and none of them twice, whatever is subscribed, removed or dispatched   *)
(* by other threads or by the callbacks themselves.                        *)
THEOREM OrderOfCalls == Spec => []CalledInOrder
  <1>1. OInv => CalledInOrder
    BY DEF OInv
  <1>2. QED
    BY <1>1, OrderInvariance, PTL

(* NobodyMissed: a receiver that was subscribed when a dispatch started    *)
(* and that is subscribed still has been called or will be.                *)
THEOREM NoneMissed == Spec => []NobodyMissed
  <1>1. OInv => NobodyMissed
    BY DEF OInv, Accounted, Accounts, NobodyMissed
  <1>2. QED
    BY <1>1, OrderInvariance, PTL

-----------------------------------------------------------------------------
(* The inductive invariant.                                                *)

Stages == {"idle", "picked", "topic", "report", "sent"}

(* The contexts, the pool and the executors keep their types, and what     *)
(* waits or has been picked has a topic; who has the mutex has an index.   *)
CTypeOK ==
  /\ topicList      \in [Contexts -> Seq(Names)]
  /\ subscriberList \in [Contexts -> Seq(Ids)]
  /\ picker         \in [Contexts -> Seq(Names) \cup {None}]
  /\ mutex          \in [Contexts -> Threads \cup {None}]
  /\ index          \in [Contexts -> Nat]
  /\ alive          \in [Contexts -> BOOLEAN]
  /\ owner          \in [Ids -> Contexts \cup {None}]
  /\ topicOf        \in Seq(Names)
  /\ pool           \in Seq(DOMAIN topicOf)
  /\ stage          \in [Threads -> Stages]
  /\ current        \in [Threads -> Nat]
  /\ request        \in [Threads -> Contexts \cup {None}]
  /\ \A t \in Threads : stage[t] = "picked" => current[t] \in DOMAIN topicOf
  /\ \A c \in Contexts : mutex[c] # None => index[c] > 0

(* Only executors dispatch, one message at a time: a dispatch is the       *)
(* lowest frame, and between dispatches the stack is empty.                *)
Staged ==
  /\ \A t \in Threads : t \notin Executors => stage[t] = "idle"
  /\ \A t \in Executors : stage[t] \notin {"topic", "sent"} => depth[t] = 0
  /\ \A t \in Threads, d \in Depths :
       frame[<<t, d>>].op \in {"dispatch", "receive"} => d = 1

(* Thread t is in the UnSubscribe of a RemoveTopic.                        *)
Deleting(t) == At(t, "wait") \/ At(t, "delete")

Busy(t) == request[t] # None \/ \E c \in Contexts : mutex[c] = t

(* Who holds or awaits a mutex is in user code or in its removal, and      *)
(* holds one mutex at most.                                                *)
Holding ==
  /\ \A t \in Executors : Busy(t) => depth[t] > 0
  /\ \A t \in Threads : Busy(t) => ~At(t, "dispatch")
  /\ \A t \in Threads : request[t] # None =>
       ~Deleting(t) /\ \A c \in Contexts : mutex[c] # t
  /\ \A c1, c2 \in Contexts : mutex[c1] = mutex[c2] /\ mutex[c1] # None => c1 = c2

(* The subscriptions of the contexts: every live wrapper is one of them,   *)
(* and they are listed in the order of their ids.                          *)
Owning ==
  /\ \A id \in Ids : heap[id] = "live" =>
       owner[id] \in Contexts /\ id \in ToSet(subscriberList[owner[id]])
  /\ \A c \in Contexts : \A i \in DOMAIN subscriberList[c] :
       /\ owner[subscriberList[c][i]] = c
       /\ subscriberList[c][i] <= receiverIdCounter
  /\ \A c \in Contexts : Increasing(subscriberList[c])

(* The lists of c agree with each other and with the registry ...          *)
Agrees(c) ==
  /\ Len(subscriberList[c]) = Len(topicList[c])
  /\ \A i \in DOMAIN topicList[c] : Listens(topicList[c][i], subscriberList[c][i])
  /\ picker[c] \in {None, topicList[c]}

(* ... but for the subscription thread t is removing.                      *)
AgreesBut(c, t) ==
  /\ index[c] \in DOMAIN subscriberList[c]
  /\ Top(t).rec = subscriberList[c][index[c]]
  /\ Len(subscriberList[c]) = Len(topicList[c]) + 1
  /\ \A i \in DOMAIN topicList[c] :
       Listens(topicList[c][i], subscriberList[c][IF i < index[c] THEN i ELSE i + 1])

Agreeing == \A c \in Contexts :
  /\ mutex[c] = None => Agrees(c)
  /\ \A t \in Threads : mutex[c] = t =>
       IF Deleting(t) THEN AgreesBut(c, t) ELSE Agrees(c)

(* Contexts are destroyed when they have no topics and nobody uses them.   *)
Destroyed == ~DestroyAnytime =>
  \A c \in Contexts : ~alive[c] =>
    /\ subscriberList[c] = <<>>
    /\ mutex[c] = None
    /\ \A t \in Threads : request[t] # c

CInv == CTypeOK /\ Staged /\ Holding /\ Owning /\ Agreeing /\ Destroyed

(* Of the registry and of the contexts together.                           *)
CIInv == IInv /\ CInv

(* The initial state.                                                      *)
LEMMA InitCIInv == CInit => CIInv
  <1> SUFFICES ASSUME CInit PROVE CIInv
    OBVIOUS
  <1>1. IInv
    BY InitIInv DEF CInit
  <1>2. NoFrame.op = "idle" /\ \A s \in Slots : frame[s] = NoFrame
    BY DEF CInit, Init, NoFrame
  <1>3. \A t \in Threads : depth[t] = 0 /\ request[t] = None
    BY DEF CInit, Init
  <1>4. CTypeOK
    BY ContextsAssumption DEF CInit, CTypeOK, Stages, NoId
  <1>5. Staged
    BY <1>2, ContextsAssumption DEF CInit, Init, Staged, Slots
  <1>6. Holding
    BY <1>3, ContextsAssumption DEF CInit, Holding, Busy, At
  <1>7. Owning
    BY DEF CInit, Init, Owning, Increasing
  <1>8. Agreeing
    BY ContextsAssumption DEF CInit, Agreeing, Agrees
  <1>9. Destroyed
    BY DEF CInit, Destroyed
  <1>10. QED
    BY <1>1, <1>4, <1>5, <1>6, <1>7, <1>8, <1>9 DEF CIInv, CInv

-----------------------------------------------------------------------------
(* What a step leaves alone.                                               *)

(* A change of one frame of thread t is nothing to the other threads.      *)
LEMMA OtherThreads ==
  ASSUME TypeOK, NEW t \in Threads, NEW d, NEW f,
         \A s \in Slots : frame'[s] = IF s = <<t, d>> THEN f ELSE frame[s],
         \A u \in Threads : u # t => depth'[u] = depth[u]
  PROVE  \A u \in Threads : u # t =>
           /\ Deleting(u)' <=> Deleting(u)
           /\ At(u, "dispatch")' <=> At(u, "dispatch")
           /\ depth[u] > 0 => Top(u)' = Top(u)
  <1> SUFFICES ASSUME NEW u \in Threads, u # t
               PROVE  /\ Deleting(u)' <=> Deleting(u)
                      /\ At(u, "dispatch")' <=> At(u, "dispatch")
                      /\ depth[u] > 0 => Top(u)' = Top(u)
    OBVIOUS
  <1>1. depth'[u] = depth[u]
    OBVIOUS
  <1>2. depth[u] > 0 => Top(u)' = Top(u)
    <2>1. depth[u] > 0 => <<u, depth[u]>> \in Slots
      BY TopSlot
    <2>2. QED
      BY <1>1, <2>1 DEF Top
  <1>3. QED
    BY <1>1, <1>2 DEF Deleting, At

(* What the owners and subscriptions are depends on these variables only.  *)
LEMMA OwningSame ==
  ASSUME Owning, UNCHANGED <<heap, owner, subscriberList, receiverIdCounter>>
  PROVE  Owning'
  BY DEF Owning

(* A destroyed context stays unused if nobody begins to ask for it.        *)
LEMMA DestroyedSame ==
  ASSUME Destroyed, UNCHANGED <<alive, subscriberList, mutex>>,
         \A u \in Threads : request'[u] \in {request[u], None}
  PROVE  Destroyed'
  BY ContextsAssumption DEF Destroyed

(* A context whose lists a step leaves alone keeps agreeing, if its        *)
(* subscriptions stay in the lists of the registry.                        *)
LEMMA AgreesKept ==
  ASSUME CTypeOK, NEW c \in Contexts,
         topicList'[c] = topicList[c], subscriberList'[c] = subscriberList[c],
         picker'[c] = picker[c], Agrees(c),
         \A i \in DOMAIN subscriberList[c] : \A topic :
           Listens(topic, subscriberList[c][i]) => Listens(topic, subscriberList[c][i])'
  PROVE  Agrees(c)'
  <1>1. DOMAIN topicList[c] = DOMAIN subscriberList[c]
    BY DEF Agrees, CTypeOK
  <1>2. QED
    BY <1>1 DEF Agrees

(* The same while one of its subscriptions is being removed.               *)
LEMMA AgreesButKept ==
  ASSUME CTypeOK, NEW c \in Contexts, NEW t \in Threads,
         topicList'[c] = topicList[c], subscriberList'[c] = subscriberList[c],
         index'[c] = index[c], Top(t)'.rec = Top(t).rec, AgreesBut(c, t),
         \A i \in DOMAIN subscriberList[c] : \A topic :
           Listens(topic, subscriberList[c][i]) => Listens(topic, subscriberList[c][i])'
  PROVE  AgreesBut(c, t)'
  <1>1. /\ DOMAIN topicList[c] = 1..Len(topicList[c]) /\ Len(topicList[c]) \in Nat
        /\ DOMAIN subscriberList[c] = 1..(Len(topicList[c]) + 1)
    BY DEF AgreesBut, CTypeOK
  <1>2. \A i \in DOMAIN topicList[c] :
          (IF i < index[c] THEN i ELSE i + 1) \in DOMAIN subscriberList[c]
    BY <1>1
  <1>3. QED
    BY <1>2 DEF AgreesBut

(* A step that changes the stacks of threads without a mutex only, or none *)
(* that matters, and no list.                                              *)
LEMMA StackStep ==
  ASSUME CIInv,
         UNCHANGED <<topicReceivers, receiverIdCounter, heap, lists, owner, request>>,
         \A u \in Threads : Busy(u) =>
           /\ depth'[u] = depth[u]
           /\ Deleting(u)' <=> Deleting(u)
           /\ At(u, "dispatch")' <=> At(u, "dispatch")
           /\ Deleting(u) => Top(u)'.rec = Top(u).rec
  PROVE  Holding' /\ Owning' /\ Agreeing' /\ Destroyed'
  <1>1. UNCHANGED <<topicList, subscriberList, picker, mutex, index, alive>>
    BY DEF lists
  <1>2. \A u : Busy(u)' <=> Busy(u)
    BY <1>1 DEF Busy
  <1>3. Holding'
    <2>1. \A u \in Executors : Busy(u) => depth'[u] > 0
      BY ContextsAssumption DEF CIInv, CInv, Holding
    <2>2. \A u \in Threads : request[u] # None => Busy(u)
      BY DEF Busy
    <2>3. QED
      BY <1>1, <1>2, <2>1, <2>2 DEF CIInv, CInv, Holding
  <1>4. Owning'
    BY <1>1, OwningSame DEF CIInv, CInv
  <1>5. Destroyed'
    BY <1>1, DestroyedSame DEF CIInv, CInv
  <1>6. Agreeing'
    <2> SUFFICES ASSUME NEW c \in Contexts
                 PROVE  /\ mutex[c] = None => Agrees(c)'
                        /\ \A t \in Threads : mutex[c] = t =>
                             IF Deleting(t)' THEN AgreesBut(c, t)' ELSE Agrees(c)'
      BY <1>1 DEF Agreeing
    <2>1. \A topic, id : Listens(topic, id)' <=> Listens(topic, id)
      BY DEF Listens, Subscribed
    <2>2. CTypeOK /\ Agreeing
      BY DEF CIInv, CInv
    <2>3. Agrees(c) => Agrees(c)'
      BY <1>1, <2>1, <2>2, AgreesKept
    <2>4. ASSUME NEW t \in Threads, mutex[c] = t
          PROVE  IF Deleting(t)' THEN AgreesBut(c, t)' ELSE Agrees(c)'
      <3>1. /\ Deleting(t)' <=> Deleting(t)
            /\ Deleting(t) => Top(t)'.rec = Top(t).rec
        BY <2>4 DEF Busy
      <3>2. CASE Deleting(t)
        BY <1>1, <2>1, <2>2, <2>4, <3>1, <3>2, AgreesButKept DEF Agreeing
      <3>3. CASE ~Deleting(t)
        BY <2>2, <2>3, <2>4, <3>1, <3>3 DEF Agreeing
      <3>4. QED
        BY <3>2, <3>3
    <2>5. QED
      BY <2>2, <2>3, <2>4 DEF Agreeing
  <1>7. QED
    BY <1>3, <1>4, <1>5, <1>6
-----------------------------------------------------------------------------
(* The steps, one lemma for each.                                          *)

(* Lock: user code asks for the mutex.                                     *)
LEMMA LockStep ==
  ASSUME CIInv, NEW t \in Threads, NEW c \in Contexts, Lock(t, c)
  PROVE  CInv'
  <1> USE DEF CIInv, CInv
  <1>1. /\ request' = [request EXCEPT ![t] = c] /\ UserRuns(t) /\ alive[c]
        /\ UNCHANGED <<topicReceivers, receiverIdCounter, heap, frame, depth>>
        /\ UNCHANGED <<topicList, subscriberList, picker, mutex, index, alive, owner>>
        /\ UNCHANGED <<stage, current, pool, topicOf>>
    BY DEF Lock, vars, contextVars, lists, executorVars, poolVars
  <1>2. CTypeOK'
    BY <1>1 DEF CTypeOK
  <1>3. Staged'
    BY <1>1 DEF Staged
  <1>4. \A u : /\ Deleting(u)' <=> Deleting(u)
               /\ At(u, "dispatch")' <=> At(u, "dispatch")
               /\ Top(u)' = Top(u)
    BY <1>1 DEF Deleting, At, Top
  <1>5. Holding'
    <2>1. \A u : u # t => (Busy(u)' <=> Busy(u)) /\ request'[u] = request[u]
      BY <1>1 DEF Busy, CTypeOK
    <2>2. /\ t \in Executors => depth[t] > 0
          /\ ~At(t, "dispatch") /\ ~Deleting(t)
          /\ \A c2 \in Contexts : mutex[c2] # t
      BY <1>1 DEF UserRuns, At, Deleting, IInv, TypeOK
    <2>3. QED
      BY <1>1, <1>4, <2>1, <2>2, ContextsAssumption DEF Holding
  <1>6. Owning'
    BY <1>1, OwningSame
  <1>7. Agreeing'
    <2>1. \A topic, id : Listens(topic, id)' <=> Listens(topic, id)
      BY <1>1 DEF Listens, Subscribed
    <2>2. \A d \in Contexts : /\ Agrees(d)' <=> Agrees(d)
                              /\ \A u \in Threads : AgreesBut(d, u)' <=> AgreesBut(d, u)
      BY <1>1, <1>4, <2>1 DEF Agrees, AgreesBut
    <2>3. QED
      BY <1>1, <1>4, <2>2 DEF Agreeing
  <1>8. Destroyed'
    BY <1>1 DEF Destroyed, CTypeOK
  <1>9. QED
    BY <1>2, <1>3, <1>5, <1>6, <1>7, <1>8

(* A step that ends the wait for the mutex of c, or the hold of one, and   *)
(* starts neither.                                                         *)
LEMMA GiveBack ==
  ASSUME CIInv, NEW t \in Threads, UNCHANGED <<frame, depth>>,
         CTypeOK',
         \A u \in Threads : request'[u] \in {request[u], None},
         \A d \in Contexts : mutex'[d] \in {mutex[d], None}
  PROVE  Holding'
  <1>1. \A u : /\ Deleting(u)' <=> Deleting(u)
               /\ At(u, "dispatch")' <=> At(u, "dispatch")
    BY DEF Deleting, At, Top
  <1>2. \A u \in Threads : Busy(u)' => Busy(u)
    BY ContextsAssumption DEF Busy
  <1>3. QED
    BY <1>1, <1>2, ContextsAssumption DEF Holding, CIInv, CInv

(* The mutex is given back at once.                                        *)
LEMMA NothingToDoStep ==
  ASSUME CIInv, NEW t \in Threads, NEW c \in Contexts, NothingToDo(t, c)
  PROVE  CInv'
  <1> USE DEF CIInv, CInv
  <1>1. /\ request' = [request EXCEPT ![t] = None]
        /\ UNCHANGED <<topicReceivers, receiverIdCounter, heap, frame, depth>>
        /\ UNCHANGED <<topicList, subscriberList, picker, mutex, index, alive, owner>>
        /\ UNCHANGED <<stage, current, pool, topicOf>>
    BY DEF NothingToDo, Locked, vars, contextVars, lists, executorVars, poolVars
  <1>2. CTypeOK'
    BY <1>1 DEF CTypeOK
  <1>3. Staged'
    BY <1>1 DEF Staged
  <1>4. \A u \in Threads : request'[u] \in {request[u], None}
    BY <1>1 DEF CTypeOK
  <1>5. Holding'
    BY <1>1, <1>2, <1>4, GiveBack
  <1>6. Owning' /\ Destroyed'
    BY <1>1, <1>4, OwningSame, DestroyedSame
  <1>7. Agreeing'
    <2>1. \A u : (Deleting(u)' <=> Deleting(u)) /\ Top(u)' = Top(u)
      BY <1>1 DEF Deleting, At, Top
    <2>2. \A topic, id : Listens(topic, id)' <=> Listens(topic, id)
      BY <1>1 DEF Listens, Subscribed
    <2>3. \A d \in Contexts : /\ Agrees(d)' <=> Agrees(d)
                              /\ \A u \in Threads : AgreesBut(d, u)' <=> AgreesBut(d, u)
      BY <1>1, <2>1, <2>2 DEF Agrees, AgreesBut
    <2>4. QED
      BY <1>1, <2>1, <2>3 DEF Agreeing
  <1>8. QED
    BY <1>2, <1>3, <1>5, <1>6, <1>7

(* The new subscription comes to the end of both lists.                    *)
LEMMA AddTopicStep ==
  ASSUME CIInv, NEW t \in Threads, NEW c \in Contexts, NEW topic \in Names,
         AddTopic(t, c, topic)
  PROVE  CInv'
  <1> USE DEF CIInv, CInv
  <1> DEFINE id == receiverIdCounter + 1
  <1>1. /\ request' = [request EXCEPT ![t] = None]
        /\ request[t] = c /\ mutex[c] = None
        /\ topicList' = [topicList EXCEPT ![c] = Append(@, topic)]
        /\ subscriberList' = [subscriberList EXCEPT ![c] = Append(@, id)]
        /\ owner' = [owner EXCEPT ![id] = c]
        /\ picker' = [picker EXCEPT ![c] = None]
        /\ receiverIdCounter < MaxReceivers
        /\ receiverIdCounter' = id
        /\ topicReceivers' = [topicReceivers EXCEPT ![topic] = Append(@, id)]
        /\ heap' = [heap EXCEPT ![id] = "live"]
        /\ UNCHANGED <<frame, depth, mutex, index, alive, stage, current, pool, topicOf>>
    BY DEF AddTopic, AddReceiver, Locked, executorVars, poolVars
  <1>2. id \in Ids /\ id \in Nat /\ topic \in Topics /\ receiverIdCounter \in Nat
    BY <1>1, ReceiversAssumption, ContextsAssumption DEF IInv, TypeOK, Ids
  <1> HIDE DEF id
  <1>3. CTypeOK'
    <2>1. topicList' \in [Contexts -> Seq(Names)] /\ subscriberList' \in [Contexts -> Seq(Ids)]
      BY <1>1, <1>2 DEF CTypeOK
    <2>2. QED
      BY <1>1, <1>2, <2>1 DEF CTypeOK
  <1>4. Staged'
    BY <1>1 DEF Staged
  <1>5. \A u \in Threads : request'[u] \in {request[u], None}
    BY <1>1 DEF CTypeOK
  <1>6. Holding'
    BY <1>1, <1>3, <1>5, GiveBack
  <1>7. /\ subscriberList[c] \in Seq(Ids) /\ subscriberList[c] \in Seq(Nat)
        /\ subscriberList'[c] = Append(subscriberList[c], id)
        /\ \A d \in Contexts : d # c => subscriberList'[d] = subscriberList[d]
    <2>1. Ids \subseteq Nat
      BY DEF Ids
    <2>2. subscriberList[c] \in Seq(Ids)
      BY DEF CTypeOK
    <2>3. QED
      BY <1>1, <2>1, <2>2, SeqWiden DEF CTypeOK
  <1>8. \A y \in ToSet(subscriberList[c]) : y < id
    <2>1. \A i \in DOMAIN subscriberList[c] : subscriberList[c][i] <= receiverIdCounter
      BY DEF Owning
    <2>2. QED
      BY <1>2, <1>7, <2>1 DEF id, ToSet, Ids
  <1>9. /\ Increasing(subscriberList'[c])
        /\ ToSet(subscriberList'[c]) = ToSet(subscriberList[c]) \cup {id}
    BY <1>2, <1>7, <1>8, AppendIncreasing DEF Owning
  <1>10. Owning'
    <2>1. \A x \in Ids : x # id => heap'[x] = heap[x] /\ owner'[x] = owner[x]
      BY <1>1 DEF CTypeOK, IInv, TypeOK
    <2>2. owner'[id] = c
      BY <1>1, <1>2 DEF CTypeOK
    <2>3. \A x \in Ids : heap'[x] = "live" =>
            owner'[x] \in Contexts /\ x \in ToSet(subscriberList'[owner'[x]])
      BY <1>7, <1>9, <2>1, <2>2 DEF Owning
    <2>4. ASSUME NEW d \in Contexts, NEW i \in DOMAIN subscriberList'[d]
          PROVE  owner'[subscriberList'[d][i]] = d /\ subscriberList'[d][i] <= id
      <3> DEFINE x == subscriberList'[d][i]
      <3>1. CASE x = id /\ d = c
        BY <1>2, <2>2, <3>1
      <3>2. CASE i \in DOMAIN subscriberList[d] /\ x = subscriberList[d][i]
        <4>1. x \in Ids /\ owner[x] = d /\ x <= receiverIdCounter
          BY <3>2 DEF CTypeOK, Owning
        <4>2. x # id /\ x <= id
          BY <1>2, <4>1 DEF id, Ids
        <4>3. QED
          BY <2>1, <4>1, <4>2
      <3>3. d # c => i \in DOMAIN subscriberList[d] /\ x = subscriberList[d][i]
        BY <1>7
      <3>4. d = c => (x = id \/ (i \in DOMAIN subscriberList[d] /\ x = subscriberList[d][i]))
        BY <1>7
      <3>5. QED
        BY <3>1, <3>2, <3>3, <3>4
    <2>5. \A d \in Contexts : Increasing(subscriberList'[d])
      BY <1>7, <1>9 DEF Owning
    <2>6. QED
      BY <1>1, <2>3, <2>4, <2>5 DEF Owning
  <1>11. \A other, x : Listens(other, x) => Listens(other, x)'
    <2> SUFFICES ASSUME NEW other \in Topics, NEW x, x \in Subscribed(other)
                 PROVE  x \in Subscribed(other)'
      BY DEF Listens
    <2>1. topicReceivers[other] \in Seq(Ids)
      BY DEF IInv, TypeOK
    <2>2. CASE other = topic
      <3>1. topicReceivers'[other] = Append(topicReceivers[other], id)
        BY <1>1, <2>2 DEF IInv, TypeOK
      <3>2. \A i \in DOMAIN topicReceivers[other] :
              /\ i \in DOMAIN topicReceivers'[other]
              /\ topicReceivers'[other][i] = topicReceivers[other][i]
        BY <2>1, <3>1, <1>2
      <3>3. QED
        BY <3>2 DEF Subscribed, ToSet
    <2>3. CASE other # topic
      BY <1>1, <2>3 DEF Subscribed, IInv, TypeOK
    <2>4. QED
      BY <2>2, <2>3
  <1>12. id \in ToSet(topicReceivers'[topic])
    <2>1. topicReceivers[topic] \in Seq(Ids) /\ topicReceivers'[topic] = Append(topicReceivers[topic], id)
      BY <1>1, <1>2 DEF IInv, TypeOK
    <2>2. /\ Len(topicReceivers[topic]) + 1 \in DOMAIN topicReceivers'[topic]
          /\ topicReceivers'[topic][Len(topicReceivers[topic]) + 1] = id
      BY <1>2, <2>1
    <2>3. QED
      BY <2>2 DEF ToSet
  <1>13. Agrees(c)'
    <2>1. Agrees(c)
      BY <1>1 DEF Agreeing
    <2>2. /\ topicList[c] \in Seq(Names) /\ topicList'[c] = Append(topicList[c], topic)
          /\ picker'[c] = None
      BY <1>1 DEF CTypeOK
    <2>3. Len(subscriberList'[c]) = Len(topicList'[c])
      BY <1>7, <2>1, <2>2 DEF Agrees
    <2>4. ASSUME NEW i \in DOMAIN topicList'[c]
          PROVE  /\ topicList'[c][i] \in Topics
                 /\ subscriberList'[c][i] \in ToSet(topicReceivers'[topicList'[c][i]])
      <3>1. CASE i = Len(topicList[c]) + 1
        <4>1. topicList'[c][i] = topic /\ subscriberList'[c][i] = id
          BY <1>7, <2>1, <2>2, <3>1 DEF Agrees
        <4>2. QED
          BY <1>2, <1>12, <4>1
      <3>2. CASE i # Len(topicList[c]) + 1
        <4>1. /\ i \in DOMAIN topicList[c]
              /\ topicList'[c][i] = topicList[c][i]
              /\ subscriberList'[c][i] = subscriberList[c][i]
          BY <1>7, <2>1, <2>2, <3>2 DEF Agrees
        <4>2. Listens(topicList[c][i], subscriberList[c][i])
          BY <2>1, <4>1 DEF Agrees
        <4>3. \A other, x : Listens(other, x) => x \in ToSet(topicReceivers'[other])
          BY <1>11 DEF Listens, Subscribed
        <4>4. QED
          BY <4>1, <4>2, <4>3 DEF Listens
      <3>3. QED
        BY <3>1, <3>2
    <2>5. QED
      BY <2>2, <2>3, <2>4 DEF Agrees, Listens, Subscribed
  <1>14. Agreeing'
    <2> SUFFICES ASSUME NEW d \in Contexts
                 PROVE  /\ mutex'[d] = None => Agrees(d)'
                        /\ \A u \in Threads : mutex'[d] = u =>
                             IF Deleting(u)' THEN AgreesBut(d, u)' ELSE Agrees(d)'
      BY DEF Agreeing
    <2>1. \A u : (Deleting(u)' <=> Deleting(u)) /\ Top(u)' = Top(u)
      BY <1>1 DEF Deleting, At, Top
    <2>2. CASE d = c
      BY <1>1, <1>13, <2>2, ContextsAssumption
    <2>3. CASE d # c
      <3>1. /\ topicList'[d] = topicList[d] /\ subscriberList'[d] = subscriberList[d]
            /\ picker'[d] = picker[d] /\ index'[d] = index[d] /\ mutex'[d] = mutex[d]
        BY <1>1, <2>3 DEF CTypeOK
      <3>2. Agrees(d) => Agrees(d)'
        BY <1>11, <3>1, AgreesKept
      <3>3. \A u \in Threads : AgreesBut(d, u) => AgreesBut(d, u)'
        BY <1>11, <2>1, <3>1, AgreesButKept
      <3>4. QED
        BY <2>1, <3>1, <3>2, <3>3 DEF Agreeing
    <2>4. QED
      BY <2>2, <2>3
  <1>15. Destroyed'
    <2> SUFFICES ASSUME ~DestroyAnytime, NEW d \in Contexts, ~alive[d]
                 PROVE  /\ subscriberList'[d] = <<>>
                        /\ mutex[d] = None
                        /\ \A u \in Threads : request'[u] # d
      BY <1>1 DEF Destroyed
    <2>1. d # c
      BY <1>1 DEF Destroyed
    <2>2. \A u \in Threads : request'[u] # d
      BY <1>5, ContextsAssumption DEF Destroyed
    <2>3. QED
      BY <1>7, <2>1, <2>2 DEF Destroyed
  <1>16. QED
    BY <1>3, <1>4, <1>6, <1>10, <1>14, <1>15

(* The topic leaves its list, and the subscription the registry.           *)
LEMMA RemoveTopicStep ==
  ASSUME CIInv, NEW t \in Threads, NEW c \in Contexts, NEW i \in DOMAIN topicList[c],
         RemoveTopic(t, c, i)
  PROVE  CInv'
  <1> USE DEF CIInv, CInv
  <1>1. /\ request' = [request EXCEPT ![t] = None]
        /\ request[t] = c /\ mutex[c] = None
        /\ topicList' = [topicList EXCEPT ![c] = RemoveAt(@, i)]
        /\ mutex' = [mutex EXCEPT ![c] = t]
        /\ index' = [index EXCEPT ![c] = i]
        /\ RemoveListed(t, subscriberList[c][i])
        /\ UNCHANGED <<receiverIdCounter, heap, subscriberList, picker, alive, owner>>
        /\ UNCHANGED <<stage, current, pool, topicOf>>
    BY DEF RemoveTopic, RemoveListed, Locked, executorVars, poolVars
  <1>2. Agrees(c)
    BY <1>1 DEF Agreeing
  <1>3. /\ topicList[c] \in Seq(Names) /\ Len(topicList[c]) \in Nat
        /\ i \in 1..Len(topicList[c]) /\ DOMAIN topicList[c] = 1..Len(topicList[c])
        /\ DOMAIN subscriberList[c] = 1..Len(topicList[c])
    BY <1>2 DEF CTypeOK, Agrees
  <1>4. PICK id \in Ids : id = subscriberList[c][i]
    BY <1>3 DEF CTypeOK
  <1>5. /\ topicList'[c] \in Seq(Names)
        /\ Len(topicList'[c]) = Len(topicList[c]) - 1
        /\ \A k \in 1..(Len(topicList[c]) - 1) :
             topicList'[c][k] = topicList[c][IF k < i THEN k ELSE k + 1]
    <2>1. topicList'[c] = RemoveAt(topicList[c], i)
      BY <1>1 DEF CTypeOK
    <2>2. QED
      BY <1>3, <2>1, RemoveAtSeq
  <1> DEFINE f == [NoFrame EXCEPT !.op = "wait", !.rec = id]
             s0 == <<t, depth[t] + 1>>
  <1>6. /\ f \in Frames /\ f.op = "wait" /\ f.rec = id
        /\ Push(t, f)
    BY <1>1, <1>4, ReceiverFrame DEF FrameOps, RemoveListed
  <1> HIDE DEF f
  <1>7. /\ \A u \in Threads : depth'[u] = IF u = t THEN depth[u] + 1 ELSE depth[u]
        /\ s0 \in Slots
        /\ \A s \in Slots : frame'[s] = IF s = s0 THEN f ELSE frame[s]
    BY <1>6, PushSlot DEF IInv
  <1>8. depth'[t] > 0 /\ Top(t)' = f /\ depth[t] \in Nat
    <2>1. depth[t] \in Nat /\ depth'[t] = depth[t] + 1
      BY <1>7 DEF IInv, TypeOK
    <2>2. Top(t)' = frame'[s0]
      BY <2>1 DEF Top
    <2>3. QED
      BY <1>7, <2>1, <2>2
  <1>9. /\ Deleting(t)' /\ ~At(t, "dispatch")' /\ Top(t)'.rec = id
    BY <1>6, <1>8 DEF Deleting, At
  <1>10. \A u \in Threads : u # t =>
           /\ Deleting(u)' <=> Deleting(u)
           /\ At(u, "dispatch")' <=> At(u, "dispatch")
           /\ depth[u] > 0 => Top(u)' = Top(u)
    BY <1>7, OtherThreads DEF IInv
  <1>11. CTypeOK'
    <2>1. topicList' \in [Contexts -> Seq(Names)]
      BY <1>1, <1>5 DEF CTypeOK
    <2>2. /\ index' \in [Contexts -> Nat]
          /\ \A d \in Contexts : mutex'[d] # None => index'[d] > 0
      BY <1>1, <1>3 DEF CTypeOK
    <2>3. QED
      BY <1>1, <2>1, <2>2 DEF CTypeOK
  <1>12. Staged'
    <2>1. t \in Executors => depth[t] > 0
      BY <1>1, ContextsAssumption DEF Holding, Busy
    <2>2. \A u \in Executors : stage[u] \notin {"topic", "sent"} => depth'[u] = 0
      BY <1>7, <2>1, ContextsAssumption DEF Staged, IInv, TypeOK
    <2>3. \A u \in Threads, d \in Depths :
            frame'[<<u, d>>].op \in {"dispatch", "receive"} => d = 1
      <3> SUFFICES ASSUME NEW u \in Threads, NEW d \in Depths,
                          frame'[<<u, d>>].op \in {"dispatch", "receive"}
                   PROVE  d = 1
        OBVIOUS
      <3>1. <<u, d>> \in Slots
        BY DEF Slots
      <3>2. frame'[<<u, d>>] = frame[<<u, d>>]
        BY <1>6, <1>7, <3>1
      <3>3. QED
        BY <3>2 DEF Staged
    <2>4. QED
      BY <1>1, <2>2, <2>3 DEF Staged
  <1>13. \A d \in Contexts : d # c => mutex'[d] = mutex[d] /\ mutex[d] # t
    BY <1>1, ContextsAssumption DEF CTypeOK, Holding
  <1>14. mutex'[c] = t
    BY <1>1 DEF CTypeOK
  <1>15. Holding'
    <2>1. \A u \in Threads : u # t =>
            /\ request'[u] = request[u]
            /\ \A d \in Contexts : mutex'[d] = u => mutex[d] = u
            /\ Busy(u)' => Busy(u)
      BY <1>1, <1>13, <1>14 DEF CTypeOK, Busy
    <2>2. request'[t] = None
      BY <1>1 DEF CTypeOK
    <2>3. \A u \in Executors : Busy(u)' => depth'[u] > 0
      BY <1>7, <1>8, <2>1, ContextsAssumption DEF Holding
    <2>4. \A u \in Threads : Busy(u)' => ~At(u, "dispatch")'
      BY <1>9, <1>10, <2>1 DEF Holding
    <2>5. \A u \in Threads : request'[u] # None =>
            ~Deleting(u)' /\ \A d \in Contexts : mutex'[d] # u
      BY <1>10, <2>1, <2>2 DEF Holding
    <2>6. \A c1, c2 \in Contexts : mutex'[c1] = mutex'[c2] /\ mutex'[c1] # None => c1 = c2
      BY <1>13, <1>14 DEF Holding
    <2>7. QED
      BY <2>3, <2>4, <2>5, <2>6 DEF Holding
  <1>16. Owning'
    BY <1>1, OwningSame
  <1>17. \A topic, x : Listens(topic, x) /\ x # id => x \in ToSet(topicReceivers'[topic])
    <2> SUFFICES ASSUME NEW topic \in Topics, NEW x, x \in Subscribed(topic), x # id
                 PROVE  x \in ToSet(topicReceivers'[topic])
      BY DEF Listens
    <2>1. PICK left \in Topics : \E j \in DOMAIN topicReceivers[left] :
            /\ topicReceivers[left][j] = id
            /\ topicReceivers' = [topicReceivers EXCEPT ![left] = RemoveAt(@, j)]
      BY <1>1, <1>4 DEF RemoveListed
    <2>2. PICK j \in DOMAIN topicReceivers[left] :
            /\ topicReceivers[left][j] = id
            /\ topicReceivers' = [topicReceivers EXCEPT ![left] = RemoveAt(@, j)]
      BY <2>1
    <2>3. CASE topic = left
      <3>1. topicReceivers[left] \in Seq(Nat) /\ Increasing(topicReceivers[left])
        BY ListTyped DEF IInv
      <3>2. topicReceivers'[left] = RemoveAt(topicReceivers[left], j)
        BY <2>2 DEF IInv, TypeOK
      <3>3. ToSet(topicReceivers'[left]) = ToSet(topicReceivers[left]) \ {id}
        BY <2>2, <3>1, <3>2, RemoveAtIncreasing
      <3>4. QED
        BY <2>3, <3>3 DEF Subscribed
    <2>4. CASE topic # left
      BY <2>2, <2>4 DEF Subscribed, IInv, TypeOK
    <2>5. QED
      BY <2>3, <2>4
  <1>18. \A d \in Contexts : \A k \in DOMAIN subscriberList[d] :
           subscriberList[d][k] = id => d = c /\ k = i
    <2> SUFFICES ASSUME NEW d \in Contexts, NEW k \in DOMAIN subscriberList[d],
                        subscriberList[d][k] = id
                 PROVE  d = c /\ k = i
      OBVIOUS
    <2>1. d = c
      BY <1>3, <1>4 DEF Owning
    <2>2. ~(k < i) /\ ~(i < k)
      BY <1>3, <1>4, <2>1 DEF Owning, Increasing, Ids
    <2>3. QED
      BY <1>3, <2>1, <2>2
  <1>19. AgreesBut(c, t)'
    <2>1. index'[c] = i /\ subscriberList'[c] = subscriberList[c]
      BY <1>1 DEF CTypeOK
    <2>2. /\ index'[c] \in DOMAIN subscriberList'[c]
          /\ Top(t)'.rec = subscriberList'[c][index'[c]]
          /\ Len(subscriberList'[c]) = Len(topicList'[c]) + 1
      BY <1>2, <1>3, <1>4, <1>5, <1>9, <2>1 DEF Agrees
    <2>3. ASSUME NEW k \in DOMAIN topicList'[c]
          PROVE  LET x == subscriberList[c][IF k < i THEN k ELSE k + 1] IN
                   topicList'[c][k] \in Topics /\ x \in ToSet(topicReceivers'[topicList'[c][k]])
      <3> DEFINE h == IF k < i THEN k ELSE k + 1
      <3>1. k \in 1..(Len(topicList[c]) - 1)
        BY <1>3, <1>5
      <3>2. h \in 1..Len(topicList[c]) /\ h # i /\ topicList'[c][k] = topicList[c][h]
        BY <1>3, <1>5, <3>1
      <3> HIDE DEF h
      <3>3. Listens(topicList[c][h], subscriberList[c][h]) /\ subscriberList[c][h] # id
        BY <1>2, <1>3, <1>18, <3>2 DEF Agrees
      <3>4. /\ topicList[c][h] \in Topics
            /\ subscriberList[c][h] \in ToSet(topicReceivers'[topicList[c][h]])
        BY <1>17, <3>3 DEF Listens
      <3>5. QED
        BY <3>2, <3>4 DEF h
    <2>4. QED
      BY <2>1, <2>2, <2>3 DEF AgreesBut, Listens, Subscribed
  <1>20. Agreeing'
    <2> SUFFICES ASSUME NEW d \in Contexts
                 PROVE  /\ mutex'[d] = None => Agrees(d)'
                        /\ \A u \in Threads : mutex'[d] = u =>
                             IF Deleting(u)' THEN AgreesBut(d, u)' ELSE Agrees(d)'
      BY DEF Agreeing
    <2>1. CASE d = c
      BY <1>9, <1>14, <1>19, <2>1, ContextsAssumption
    <2>2. CASE d # c
      <3>1. /\ topicList'[d] = topicList[d] /\ subscriberList'[d] = subscriberList[d]
            /\ picker'[d] = picker[d] /\ index'[d] = index[d] /\ mutex'[d] = mutex[d]
        BY <1>1, <2>2 DEF CTypeOK
      <3>2. \A k \in DOMAIN subscriberList[d] : \A topic :
              Listens(topic, subscriberList[d][k]) => Listens(topic, subscriberList[d][k])'
        <4>1. \A topic, x : Listens(topic, x) /\ x # id => Listens(topic, x)'
          BY <1>17 DEF Listens, Subscribed
        <4>2. QED
          BY <1>18, <2>2, <3>1, <4>1
      <3>3. Agrees(d) => Agrees(d)'
        BY <3>1, <3>2, AgreesKept
      <3>4. ASSUME NEW u \in Threads, mutex'[d] = u
            PROVE  IF Deleting(u)' THEN AgreesBut(d, u)' ELSE Agrees(d)'
        <4>1. u # t /\ mutex[d] = u
          BY <1>13, <2>2, <3>4
        <4>2. CASE Deleting(u)
          <5>1. Top(u)'.rec = Top(u).rec
            BY <1>10, <4>1, <4>2 DEF Deleting, At
          <5>2. AgreesBut(d, u)
            BY <4>1, <4>2 DEF Agreeing
          <5>3. AgreesBut(d, u)'
            BY <3>1, <3>2, <5>1, <5>2, AgreesButKept
          <5>4. QED
            BY <1>10, <4>1, <4>2, <5>3
        <4>3. CASE ~Deleting(u)
          BY <1>10, <3>3, <4>1, <4>3 DEF Agreeing
        <4>4. QED
          BY <4>2, <4>3
      <3>5. QED
        BY <3>1, <3>3, <3>4 DEF Agreeing
    <2>3. QED
      BY <2>1, <2>2
  <1>21. Destroyed'
    <2>1. \A u \in Threads : request'[u] \in {request[u], None}
      BY <1>1 DEF CTypeOK
    <2>2. \A d \in Contexts : ~DestroyAnytime /\ ~alive[d] => d # c
      BY <1>1 DEF Destroyed
    <2>3. QED
      BY <1>1, <1>13, <2>1, <2>2, ContextsAssumption DEF Destroyed
  <1>22. QED
    BY <1>11, <1>12, <1>15, <1>16, <1>20, <1>21

(* The spin of UnSubscribe ends.                                           *)
LEMMA RemoveTopicWaitStep ==
  ASSUME CIInv, NEW t \in Threads, RemoveTopicWait(t)
  PROVE  CInv'
  <1> USE DEF CIInv, CInv
  <1> DEFINE f == [Top(t) EXCEPT !.op = "delete"]
             s0 == <<t, depth[t]>>
  <1>1. /\ At(t, "wait") /\ Update(t, f)
        /\ UNCHANGED <<topicReceivers, receiverIdCounter, heap>>
        /\ UNCHANGED <<lists, owner, request, stage, current, pool, topicOf>>
    BY DEF RemoveTopicWait, RemoveWait, cvars, contextVars, executorVars, poolVars
  <1>2. depth[t] > 0 /\ s0 \in Slots /\ Top(t) = frame[s0] /\ Top(t) \in Frames /\ Top(t).op = "wait"
    BY <1>1, AtSlot DEF IInv
  <1>3. f \in Frames /\ f.op = "delete" /\ f.rec = Top(t).rec
    BY <1>2 DEF Frames, FrameOps
  <1> HIDE DEF f
  <1>4. depth' = depth /\ \A s \in Slots : frame'[s] = IF s = s0 THEN f ELSE frame[s]
    BY <1>1, <1>2, <1>3, UpdateSlot DEF IInv
  <1>5. Top(t)' = f
    BY <1>2, <1>4 DEF Top
  <1>6. \A u \in Threads :
          /\ depth'[u] = depth[u]
          /\ Deleting(u)' <=> Deleting(u)
          /\ At(u, "dispatch")' <=> At(u, "dispatch")
          /\ Deleting(u) => Top(u)'.rec = Top(u).rec
    <2>1. ASSUME NEW u \in Threads, u # t
          PROVE  /\ Deleting(u)' <=> Deleting(u)
                 /\ At(u, "dispatch")' <=> At(u, "dispatch")
                 /\ Deleting(u) => Top(u)'.rec = Top(u).rec
      <3>1. /\ Deleting(u)' <=> Deleting(u)
            /\ At(u, "dispatch")' <=> At(u, "dispatch")
            /\ depth[u] > 0 => Top(u)' = Top(u)
        BY <1>4, <2>1, OtherThreads DEF IInv
      <3>2. Deleting(u) => depth[u] > 0
        BY DEF Deleting, At
      <3>3. QED
        BY <3>1, <3>2
    <2>2. /\ Deleting(t)' /\ Deleting(t)
          /\ ~At(t, "dispatch")' /\ ~At(t, "dispatch")
      BY <1>2, <1>3, <1>4, <1>5 DEF Deleting, At
    <2>3. QED
      BY <1>3, <1>4, <1>5, <2>1, <2>2
  <1>7. Holding' /\ Owning' /\ Agreeing' /\ Destroyed'
    BY <1>1, <1>6, StackStep
  <1>8. CTypeOK'
    BY <1>1 DEF CTypeOK, lists
  <1>9. Staged'
    <2>1. \A u \in Threads, d \in Depths :
            frame'[<<u, d>>].op \in {"dispatch", "receive"} => d = 1
      <3> SUFFICES ASSUME NEW u \in Threads, NEW d \in Depths,
                          frame'[<<u, d>>].op \in {"dispatch", "receive"}
                   PROVE  d = 1
        OBVIOUS
      <3>1. <<u, d>> \in Slots
        BY DEF Slots
      <3>2. frame'[<<u, d>>] = frame[<<u, d>>]
        BY <1>3, <1>4, <3>1
      <3>3. QED
        BY <3>2 DEF Staged
    <2>2. QED
      BY <1>1, <1>4, <2>1 DEF Staged
  <1>10. QED
    BY <1>7, <1>8, <1>9

(* UnSubscribe returns, and the id leaves its list.                        *)
LEMMA RemoveTopicEndStep ==
  ASSUME CIInv, NEW t \in Threads, NEW c \in Contexts, RemoveTopicEnd(t, c)
  PROVE  CInv'
  <1> USE DEF CIInv, CInv
  <1> DEFINE s0 == <<t, depth[t]>>
  <1>1. /\ mutex[c] = t /\ At(t, "delete") /\ Pop(t)
        /\ heap' = [heap EXCEPT ![Top(t).rec] = "freed"]
        /\ subscriberList' = [subscriberList EXCEPT ![c] = RemoveAt(@, index[c])]
        /\ picker' = [picker EXCEPT ![c] = None]
        /\ mutex' = [mutex EXCEPT ![c] = None]
        /\ index' = [index EXCEPT ![c] = 0]
        /\ UNCHANGED <<topicReceivers, receiverIdCounter, topicList, alive, owner>>
        /\ UNCHANGED <<stage, current, pool, topicOf, request>>
    BY DEF RemoveTopicEnd, RemoveDelete, executorVars, poolVars
  <1>2. AgreesBut(c, t)
    BY <1>1 DEF Agreeing, Deleting
  <1>3. PICK k \in Nat : k = index[c]
    BY DEF CTypeOK
  <1>4. PICK n \in Nat : n = Len(topicList[c])
    BY DEF CTypeOK
  <1>5. /\ subscriberList[c] \in Seq(Ids) /\ subscriberList[c] \in Seq(Nat)
        /\ Len(subscriberList[c]) = n + 1
        /\ DOMAIN subscriberList[c] = 1..(n + 1) /\ k \in 1..(n + 1)
        /\ DOMAIN topicList[c] = 1..n
    <2>1. Ids \subseteq Nat
      BY DEF Ids
    <2>2. subscriberList[c] \in Seq(Ids)
      BY DEF CTypeOK
    <2>3. QED
      BY <1>2, <1>3, <1>4, <2>1, <2>2, SeqWiden DEF AgreesBut, CTypeOK
  <1>6. PICK id \in Ids : id = subscriberList[c][k] /\ id = Top(t).rec
    BY <1>2, <1>3, <1>5 DEF AgreesBut
  <1>7. /\ subscriberList'[c] = RemoveAt(subscriberList[c], k)
        /\ \A d \in Contexts : d # c =>
             /\ subscriberList'[d] = subscriberList[d] /\ mutex'[d] = mutex[d]
             /\ index'[d] = index[d] /\ picker'[d] = picker[d]
        /\ mutex'[c] = None /\ picker'[c] = None
    BY <1>1, <1>3 DEF CTypeOK
  <1>8. /\ subscriberList'[c] \in Seq(Ids) /\ Len(subscriberList'[c]) = n
        /\ DOMAIN subscriberList'[c] = 1..n
        /\ \A i \in 1..n :
             subscriberList'[c][i] = subscriberList[c][IF i < k THEN i ELSE i + 1]
    <2>1. /\ subscriberList'[c] \in Seq(Ids)
          /\ Len(subscriberList'[c]) = (n + 1) - 1
          /\ \A i \in 1..((n + 1) - 1) :
               subscriberList'[c][i] = IF i < k THEN subscriberList[c][i]
                                                ELSE subscriberList[c][i + 1]
      <3> DEFINE s == subscriberList[c]
      <3>1. s \in Seq(Ids) /\ k \in DOMAIN s /\ Len(s) = n + 1
        BY <1>5
      <3> HIDE DEF s
      <3>2. /\ RemoveAt(s, k) \in Seq(Ids) /\ Len(RemoveAt(s, k)) = (n + 1) - 1
            /\ \A i \in 1..((n + 1) - 1) :
                 RemoveAt(s, k)[i] = IF i < k THEN s[i] ELSE s[i + 1]
        BY <3>1, RemoveAtSeq
      <3>3. QED
        BY <1>7, <3>2 DEF s
    <2>2. QED
      BY <2>1
  <1>9. /\ Increasing(subscriberList'[c])
        /\ ToSet(subscriberList'[c]) = ToSet(subscriberList[c]) \ {id}
    <2> DEFINE s == subscriberList[c]
    <2>1. s \in Seq(Nat) /\ k \in DOMAIN s /\ Increasing(s) /\ s[k] = id
      BY <1>5, <1>6 DEF Owning
    <2> HIDE DEF s
    <2>2. /\ Increasing(RemoveAt(s, k))
          /\ ToSet(RemoveAt(s, k)) = ToSet(s) \ {id}
      BY <2>1, RemoveAtIncreasing
    <2>3. QED
      BY <1>7, <2>2 DEF s
  <1>10. /\ depth[t] > 0 /\ s0 \in Slots
         /\ depth' \in [Threads -> 0..MaxDepth]
         /\ \A u \in Threads : depth'[u] = IF u = t THEN depth[u] - 1 ELSE depth[u]
         /\ \A s \in Slots : frame'[s] = IF s = s0 THEN NoFrame ELSE frame[s]
    BY <1>1, AtSlot, PopSlot DEF IInv
  <1>11. \A u \in Threads : u # t =>
           /\ Deleting(u)' <=> Deleting(u)
           /\ At(u, "dispatch")' <=> At(u, "dispatch")
           /\ depth[u] > 0 => Top(u)' = Top(u)
    BY <1>10, OtherThreads DEF IInv
  <1>12. /\ \A d \in Contexts : mutex'[d] # t
         /\ request[t] = None
    BY <1>1, <1>7, ContextsAssumption DEF Holding
  <1>13. CTypeOK'
    <2>1. subscriberList' \in [Contexts -> Seq(Ids)]
      BY <1>1, <1>8 DEF CTypeOK
    <2>2. QED
      BY <1>1, <2>1 DEF CTypeOK
  <1>14. Staged'
    <2>1. \A u \in Executors : stage[u] \notin {"topic", "sent"} => depth'[u] = 0
      <3>1. t \in Executors => stage[t] \in {"topic", "sent"}
        BY <1>10 DEF Staged
      <3>2. QED
        BY <1>10, <3>1, ContextsAssumption DEF Staged
    <2>2. NoFrame.op = "idle"
      BY DEF NoFrame
    <2>3. \A u \in Threads, d \in Depths :
            frame'[<<u, d>>].op \in {"dispatch", "receive"} => d = 1
      <3> SUFFICES ASSUME NEW u \in Threads, NEW d \in Depths,
                          frame'[<<u, d>>].op \in {"dispatch", "receive"}
                   PROVE  d = 1
        OBVIOUS
      <3>1. <<u, d>> \in Slots
        BY DEF Slots
      <3>2. frame'[<<u, d>>] = frame[<<u, d>>]
        BY <1>10, <2>2, <3>1
      <3>3. QED
        BY <3>2 DEF Staged
    <2>4. QED
      BY <1>1, <2>1, <2>3 DEF Staged
  <1>15. Holding'
    <2>1. \A u \in Threads : Busy(u)' => u # t /\ Busy(u)
      BY <1>1, <1>7, <1>12, ContextsAssumption DEF Busy
    <2>2. \A u \in Executors : Busy(u)' => depth'[u] > 0
      BY <1>10, <2>1, ContextsAssumption DEF Holding
    <2>3. \A u \in Threads : Busy(u)' => ~At(u, "dispatch")'
      BY <1>11, <2>1 DEF Holding
    <2>4. \A u \in Threads : request'[u] # None =>
            ~Deleting(u)' /\ \A d \in Contexts : mutex'[d] # u
      BY <1>1, <1>7, <1>11, <1>12, ContextsAssumption DEF Holding
    <2>5. \A c1, c2 \in Contexts : mutex'[c1] = mutex'[c2] /\ mutex'[c1] # None => c1 = c2
      BY <1>7 DEF Holding
    <2>6. QED
      BY <2>2, <2>3, <2>4, <2>5 DEF Holding
  <1>16. Owning'
    <2>1. \A x \in Ids : heap'[x] = "live" => x # id /\ heap[x] = "live"
      BY <1>1, <1>6 DEF IInv, TypeOK
    <2>2. \A x \in Ids : heap'[x] = "live" =>
            owner[x] \in Contexts /\ x \in ToSet(subscriberList'[owner[x]])
      BY <1>7, <1>9, <2>1 DEF Owning
    <2>3. ASSUME NEW d \in Contexts, NEW i \in DOMAIN subscriberList'[d]
          PROVE  \E j \in DOMAIN subscriberList[d] :
                   subscriberList'[d][i] = subscriberList[d][j]
      <3>1. CASE d = c
        <4>1. i \in 1..n /\ (IF i < k THEN i ELSE i + 1) \in 1..(n + 1)
          BY <1>8, <2>3, <3>1
        <4>2. QED
          BY <1>5, <1>8, <3>1, <4>1
      <3>2. CASE d # c
        BY <1>7, <2>3, <3>2
      <3>3. QED
        BY <3>1, <3>2
    <2>4. \A d \in Contexts : \A i \in DOMAIN subscriberList'[d] :
            /\ owner[subscriberList'[d][i]] = d
            /\ subscriberList'[d][i] <= receiverIdCounter
      BY <2>3 DEF Owning
    <2>5. \A d \in Contexts : Increasing(subscriberList'[d])
      BY <1>7, <1>9 DEF Owning
    <2>6. QED
      BY <1>1, <2>2, <2>4, <2>5 DEF Owning
  <1>17. \A topic, x : Listens(topic, x)' <=> Listens(topic, x)
    BY <1>1 DEF Listens, Subscribed
  <1>18. Agrees(c)'
    <2>1. ASSUME NEW i \in 1..n
          PROVE  Listens(topicList[c][i], subscriberList'[c][i])
      BY <1>2, <1>3, <1>5, <1>8 DEF AgreesBut
    <2>2. \A i \in 1..n : /\ topicList'[c][i] \in Topics
                          /\ subscriberList'[c][i] \in ToSet(topicReceivers'[topicList'[c][i]])
      BY <1>1, <2>1 DEF Listens, Subscribed
    <2>3. /\ Len(subscriberList'[c]) = Len(topicList'[c]) /\ DOMAIN topicList'[c] = 1..n
          /\ picker'[c] = None
      BY <1>1, <1>4, <1>5, <1>7, <1>8
    <2>4. QED
      BY <2>2, <2>3 DEF Agrees, Listens, Subscribed
  <1>19. Agreeing'
    <2> SUFFICES ASSUME NEW d \in Contexts
                 PROVE  /\ mutex'[d] = None => Agrees(d)'
                        /\ \A u \in Threads : mutex'[d] = u =>
                             IF Deleting(u)' THEN AgreesBut(d, u)' ELSE Agrees(d)'
      BY DEF Agreeing
    <2>1. CASE d = c
      BY <1>7, <1>18, <2>1, ContextsAssumption
    <2>2. CASE d # c
      <3>1. /\ topicList'[d] = topicList[d] /\ subscriberList'[d] = subscriberList[d]
            /\ picker'[d] = picker[d] /\ index'[d] = index[d] /\ mutex'[d] = mutex[d]
        BY <1>1, <1>7, <2>2
      <3>2. Agrees(d) => Agrees(d)'
        BY <1>17, <3>1, AgreesKept
      <3>3. ASSUME NEW u \in Threads, mutex'[d] = u
            PROVE  IF Deleting(u)' THEN AgreesBut(d, u)' ELSE Agrees(d)'
        <4>1. u # t /\ mutex[d] = u
          BY <1>12, <3>1, <3>3
        <4>2. CASE Deleting(u)
          <5>1. Top(u)'.rec = Top(u).rec
            BY <1>11, <4>1, <4>2 DEF Deleting, At
          <5>2. AgreesBut(d, u)
            BY <4>1, <4>2 DEF Agreeing
          <5>3. AgreesBut(d, u)'
            BY <1>17, <3>1, <5>1, <5>2, AgreesButKept
          <5>4. QED
            BY <1>11, <4>1, <4>2, <5>3
        <4>3. CASE ~Deleting(u)
          BY <1>11, <3>2, <4>1, <4>3 DEF Agreeing
        <4>4. QED
          BY <4>2, <4>3
      <3>4. QED
        BY <3>1, <3>2, <3>3 DEF Agreeing
    <2>3. QED
      BY <2>1, <2>2
  <1>20. Destroyed'
    <2>1. \A d \in Contexts : ~DestroyAnytime /\ ~alive[d] => d # c
      BY <1>1, ContextsAssumption DEF Destroyed
    <2>2. QED
      BY <1>1, <1>7, <2>1 DEF Destroyed
  <1>21. QED
    BY <1>13, <1>14, <1>15, <1>16, <1>19, <1>20

(* A call of c that changes neither its lists nor a stack.                 *)
LEMMA QuietCall ==
  ASSUME CIInv, NEW c \in Contexts, Agrees(c),
         UNCHANGED <<topicReceivers, frame, depth, topicList, subscriberList>>,
         \A d \in Contexts : d # c =>
           mutex'[d] = mutex[d] /\ index'[d] = index[d] /\ picker'[d] = picker[d],
         picker'[c] \in {None, topicList[c]},
         \A u \in Threads : mutex'[c] = u => ~Deleting(u)
  PROVE  Agreeing'
  <1> USE DEF CIInv, CInv
  <1>1. \A u : (Deleting(u)' <=> Deleting(u)) /\ Top(u)' = Top(u)
    BY DEF Deleting, At, Top
  <1>2. \A topic, x : Listens(topic, x)' <=> Listens(topic, x)
    BY DEF Listens, Subscribed
  <1>3. Agrees(c)'
    BY <1>2 DEF Agrees
  <1>4. ASSUME NEW d \in Contexts, d # c
        PROVE  /\ mutex'[d] = None => Agrees(d)'
               /\ \A u \in Threads : mutex'[d] = u =>
                    IF Deleting(u)' THEN AgreesBut(d, u)' ELSE Agrees(d)'
    <2>1. /\ Agrees(d)' <=> Agrees(d)
          /\ \A u \in Threads : AgreesBut(d, u)' <=> AgreesBut(d, u)
      BY <1>1, <1>2, <1>4 DEF Agrees, AgreesBut
    <2>2. QED
      BY <1>1, <1>4, <2>1 DEF Agreeing
  <1>5. QED
    BY <1>1, <1>3, <1>4 DEF Agreeing

(* Publish takes the mutex, ...                                            *)
LEMMA PublishBeginStep ==
  ASSUME CIInv, NEW t \in Threads, NEW c \in Contexts, PublishBegin(t, c)
  PROVE  CInv'
  <1> USE DEF CIInv, CInv
  <1>1. /\ request[t] = c /\ mutex[c] = None
        /\ request' = [request EXCEPT ![t] = None]
        /\ mutex' = [mutex EXCEPT ![c] = t]
        /\ index' = [index EXCEPT ![c] = 1]
        /\ UNCHANGED <<topicReceivers, receiverIdCounter, heap, frame, depth>>
        /\ UNCHANGED <<topicList, subscriberList, picker, alive, owner>>
        /\ UNCHANGED <<stage, current, pool, topicOf>>
    BY DEF PublishBegin, Locked, vars, executorVars, poolVars
  <1>2. CTypeOK'
    BY <1>1 DEF CTypeOK
  <1>3. Staged'
    BY <1>1 DEF Staged
  <1>4. /\ mutex'[c] = t /\ \A d \in Contexts : d # c => mutex'[d] = mutex[d]
        /\ request'[t] = None /\ \A u \in Threads : u # t => request'[u] = request[u]
    BY <1>1 DEF CTypeOK
  <1>5. \A u : (Deleting(u)' <=> Deleting(u)) /\ (At(u, "dispatch")' <=> At(u, "dispatch"))
    BY <1>1 DEF Deleting, At, Top
  <1>6. ~Deleting(t) /\ \A d \in Contexts : mutex[d] # t
    BY <1>1, ContextsAssumption DEF Holding
  <1>7. Holding'
    <2>1. \A u \in Threads : Busy(u)' => Busy(u)
      <3>1. Busy(t)
        BY <1>1, ContextsAssumption DEF Busy
      <3>2. \A u \in Threads : u # t => (Busy(u)' => Busy(u))
        BY <1>4 DEF Busy
      <3>3. QED
        BY <3>1, <3>2
    <2>2. /\ \A u \in Executors : Busy(u)' => depth'[u] > 0
          /\ \A u \in Threads : Busy(u)' => ~At(u, "dispatch")'
      BY <1>1, <1>5, <2>1, ContextsAssumption DEF Holding
    <2>3. \A u \in Threads : request'[u] # None =>
            ~Deleting(u)' /\ \A d \in Contexts : mutex'[d] # u
      BY <1>4, <1>5 DEF Holding
    <2>4. \A c1, c2 \in Contexts : mutex'[c1] = mutex'[c2] /\ mutex'[c1] # None => c1 = c2
      BY <1>4, <1>6 DEF Holding
    <2>5. QED
      BY <2>2, <2>3, <2>4 DEF Holding
  <1>8. Owning'
    BY <1>1, OwningSame
  <1>9. Agreeing'
    <2>1. Agrees(c)
      BY <1>1 DEF Agreeing
    <2>2. picker'[c] \in {None, topicList[c]}
      BY <1>1, <2>1 DEF Agrees
    <2>3. \A d \in Contexts : d # c => index'[d] = index[d] /\ picker'[d] = picker[d]
      BY <1>1 DEF CTypeOK
    <2>4. QED
      BY <1>1, <1>4, <1>6, <2>1, <2>2, <2>3, QuietCall
  <1>10. Destroyed'
    <2>1. \A d \in Contexts : ~DestroyAnytime /\ ~alive[d] => d # c
      BY <1>1 DEF Destroyed
    <2>2. QED
      BY <1>1, <1>4, <2>1, ContextsAssumption DEF Destroyed
  <1>11. QED
    BY <1>2, <1>3, <1>7, <1>8, <1>9, <1>10

(* ... publishes to one topic after the other ...                          *)
LEMMA PublishTopicStep ==
  ASSUME CIInv, NEW t \in Threads, NEW c \in Contexts, PublishTopic(t, c)
  PROVE  CInv'
  <1> USE DEF CIInv, CInv
  <1>1. /\ mutex[c] = t /\ ~Deleting(t) /\ index[c] <= Len(topicList[c])
        /\ \/ /\ topicOf' = Append(topicOf, topicList[c][index[c]])
              /\ pool' = Append(pool, Len(topicOf) + 1)
           \/ UNCHANGED <<pool, topicOf>>
        /\ index' = [index EXCEPT ![c] = index[c] + 1]
        /\ UNCHANGED <<topicReceivers, receiverIdCounter, heap, frame, depth>>
        /\ UNCHANGED <<topicList, subscriberList, picker, mutex, alive, owner>>
        /\ UNCHANGED <<stage, current, request>>
    BY DEF PublishTopic, Publishing, Deleting, vars, executorVars, poolVars
  <1>2. PICK n \in Nat : n = Len(topicOf) /\ DOMAIN topicOf = 1..n
    BY DEF CTypeOK
  <1>3. /\ topicOf' \in Seq(Names) /\ pool' \in Seq(DOMAIN topicOf')
        /\ DOMAIN topicOf \subseteq DOMAIN topicOf'
    <2>1. CASE UNCHANGED <<pool, topicOf>>
      BY <2>1 DEF CTypeOK
    <2>2. CASE /\ topicOf' = Append(topicOf, topicList[c][index[c]])
               /\ pool' = Append(pool, Len(topicOf) + 1)
      <3>1. index[c] \in DOMAIN topicList[c]
        <4>1. index[c] > 0
          BY <1>1, ContextsAssumption DEF CTypeOK
        <4>2. QED
          BY <1>1, <4>1 DEF CTypeOK
      <3>2. topicList[c][index[c]] \in Names
        BY <3>1 DEF CTypeOK
      <3>3. topicOf' \in Seq(Names) /\ DOMAIN topicOf' = 1..(n + 1)
        BY <1>2, <2>2, <3>2 DEF CTypeOK
      <3>4. pool \in Seq(1..n) /\ (1..n) \subseteq (1..(n + 1)) /\ n + 1 \in 1..(n + 1)
        BY <1>2 DEF CTypeOK
      <3>5. pool \in Seq(1..(n + 1))
        BY <3>4, SeqWiden
      <3>6. QED
        BY <1>2, <2>2, <3>3, <3>4, <3>5
    <2>3. QED
      BY <1>1, <2>1, <2>2
  <1>4. CTypeOK'
    <2>1. \A u \in Threads : stage'[u] = "picked" => current'[u] \in DOMAIN topicOf'
      BY <1>1, <1>3 DEF CTypeOK
    <2>2. /\ index' \in [Contexts -> Nat]
          /\ \A d \in Contexts : mutex'[d] # None => index'[d] > 0
      BY <1>1 DEF CTypeOK
    <2>3. QED
      BY <1>1, <1>3, <2>1, <2>2 DEF CTypeOK
  <1>5. Staged'
    BY <1>1 DEF Staged
  <1>6. Holding'
    BY <1>1, <1>4, GiveBack
  <1>7. Owning' /\ Destroyed'
    BY <1>1, OwningSame, DestroyedSame
  <1>8. Agreeing'
    <2>1. Agrees(c)
      BY <1>1 DEF Agreeing
    <2>2. picker'[c] \in {None, topicList[c]}
      BY <1>1, <2>1 DEF Agrees
    <2>3. \A d \in Contexts : d # c =>
            mutex'[d] = mutex[d] /\ index'[d] = index[d] /\ picker'[d] = picker[d]
      BY <1>1 DEF CTypeOK
    <2>4. QED
      BY <1>1, <2>1, <2>2, <2>3, QuietCall
  <1>9. QED
    BY <1>4, <1>5, <1>6, <1>7, <1>8

(* ... and gives the mutex back.                                           *)
LEMMA PublishEndStep ==
  ASSUME CIInv, NEW t \in Threads, NEW c \in Contexts, PublishEnd(t, c)
  PROVE  CInv'
  <1> USE DEF CIInv, CInv
  <1>1. /\ mutex[c] = t /\ ~Deleting(t)
        /\ mutex' = [mutex EXCEPT ![c] = None]
        /\ index' = [index EXCEPT ![c] = 0]
        /\ UNCHANGED <<topicReceivers, receiverIdCounter, heap, frame, depth>>
        /\ UNCHANGED <<topicList, subscriberList, picker, alive, owner>>
        /\ UNCHANGED <<stage, current, pool, topicOf, request>>
    BY DEF PublishEnd, Publishing, Deleting, vars, executorVars, poolVars
  <1>2. CTypeOK'
    BY <1>1 DEF CTypeOK
  <1>3. Staged'
    BY <1>1 DEF Staged
  <1>4. /\ mutex'[c] = None
        /\ \A d \in Contexts : d # c => mutex'[d] = mutex[d] /\ index'[d] = index[d]
    BY <1>1 DEF CTypeOK
  <1>5. Holding'
    BY <1>1, <1>2, <1>4, GiveBack
  <1>6. Owning'
    BY <1>1, OwningSame
  <1>7. Agreeing'
    <2>1. Agrees(c)
      BY <1>1 DEF Agreeing
    <2>2. picker'[c] \in {None, topicList[c]}
      BY <1>1, <2>1 DEF Agrees
    <2>3. \A u \in Threads : mutex'[c] # u
      BY <1>4, ContextsAssumption
    <2>4. QED
      BY <1>1, <1>4, <2>1, <2>2, <2>3, QuietCall
  <1>8. Destroyed'
    BY <1>1, <1>4 DEF Destroyed
  <1>9. QED
    BY <1>2, <1>3, <1>5, <1>6, <1>7, <1>8

(* Pick makes a picker for the topics the context has.                     *)
LEMMA PickStep ==
  ASSUME CIInv, NEW t \in Threads, NEW c \in Contexts, Pick(t, c)
  PROVE  CInv'
  <1> USE DEF CIInv, CInv
  <1>1. /\ mutex[c] = None
        /\ request' = [request EXCEPT ![t] = None]
        /\ picker' = [picker EXCEPT ![c] = IF @ = None THEN topicList[c] ELSE @]
        /\ UNCHANGED <<topicReceivers, receiverIdCounter, heap, frame, depth>>
        /\ UNCHANGED <<topicList, subscriberList, mutex, index, alive, owner>>
        /\ UNCHANGED <<stage, current, pool, topicOf>>
    BY DEF Pick, Locked, vars, executorVars, poolVars
  <1>2. CTypeOK'
    BY <1>1 DEF CTypeOK
  <1>3. Staged'
    BY <1>1 DEF Staged
  <1>4. \A u \in Threads : request'[u] \in {request[u], None}
    BY <1>1 DEF CTypeOK
  <1>5. Holding'
    BY <1>1, <1>2, <1>4, GiveBack
  <1>6. Owning' /\ Destroyed'
    BY <1>1, <1>4, OwningSame, DestroyedSame
  <1>7. Agreeing'
    <2>1. Agrees(c)
      BY <1>1 DEF Agreeing
    <2>2. picker'[c] \in {None, topicList[c]}
      BY <1>1, <2>1 DEF Agrees, CTypeOK
    <2>3. \A u \in Threads : mutex'[c] # u
      BY <1>1, ContextsAssumption
    <2>4. \A d \in Contexts : d # c => picker'[d] = picker[d]
      BY <1>1 DEF CTypeOK
    <2>5. QED
      BY <1>1, <2>1, <2>2, <2>3, <2>4, QuietCall
  <1>8. QED
    BY <1>2, <1>3, <1>5, <1>6, <1>7

(* A context is destroyed.                                                 *)
LEMMA DestroyStep ==
  ASSUME CIInv, NEW t \in Threads, NEW c \in Contexts, Destroy(t, c)
  PROVE  CInv'
  <1> USE DEF CIInv, CInv
  <1>1. /\ mutex[c] = None /\ \A u \in Threads : request[u] # c
        /\ DestroyAnytime \/ topicList[c] = <<>>
        /\ alive' = [alive EXCEPT ![c] = FALSE]
        /\ picker' = [picker EXCEPT ![c] = None]
        /\ UNCHANGED <<topicReceivers, receiverIdCounter, heap, frame, depth>>
        /\ UNCHANGED <<topicList, subscriberList, mutex, index, owner>>
        /\ UNCHANGED <<stage, current, pool, topicOf, request>>
    BY DEF Destroy, vars, executorVars, poolVars
  <1>2. CTypeOK'
    BY <1>1 DEF CTypeOK
  <1>3. Staged'
    BY <1>1 DEF Staged
  <1>4. Holding'
    BY <1>1, <1>2, GiveBack
  <1>5. Owning'
    BY <1>1, OwningSame
  <1>6. Agrees(c)
    BY <1>1 DEF Agreeing
  <1>7. Agreeing'
    <2>1. /\ picker'[c] \in {None, topicList[c]}
          /\ \A d \in Contexts : d # c => picker'[d] = picker[d]
      BY <1>1 DEF CTypeOK
    <2>2. \A u \in Threads : mutex'[c] # u
      BY <1>1, ContextsAssumption
    <2>3. QED
      BY <1>1, <1>6, <2>1, <2>2, QuietCall
  <1>8. Destroyed'
    <2> SUFFICES ASSUME ~DestroyAnytime, NEW d \in Contexts, ~alive'[d]
                 PROVE  /\ subscriberList[d] = <<>>
                        /\ mutex[d] = None
                        /\ \A u \in Threads : request[u] # d
      BY <1>1 DEF Destroyed
    <2>1. CASE d = c
      <3>1. subscriberList[d] \in Seq(Ids) /\ Len(subscriberList[d]) = 0
        BY <1>1, <1>6, <2>1 DEF Agrees, CTypeOK
      <3>2. QED
        BY <1>1, <2>1, <3>1
    <2>2. CASE d # c
      BY <1>1, <2>2 DEF Destroyed, CTypeOK
    <2>3. QED
      BY <2>1, <2>2
  <1>9. QED
    BY <1>2, <1>3, <1>4, <1>5, <1>7, <1>8

(* An executor takes a message.                                            *)
LEMMA PickMessageStep ==
  ASSUME CIInv, NEW t \in Threads, PickMessage(t)
  PROVE  CInv'
  <1> USE DEF CIInv, CInv
  <1>1. /\ t \in Executors /\ stage[t] = "idle" /\ pool # <<>>
        /\ current' = [current EXCEPT ![t] = Head(pool)]
        /\ pool' = Tail(pool)
        /\ stage' = [stage EXCEPT ![t] = "picked"]
        /\ UNCHANGED <<topicReceivers, receiverIdCounter, heap, frame, depth>>
        /\ UNCHANGED <<lists, owner, topicOf, request>>
    BY DEF PickMessage, vars, contextVars
  <1>2. PICK n \in Nat : DOMAIN topicOf = 1..n
    BY DEF CTypeOK
  <1>3. Head(pool) \in 1..n /\ Tail(pool) \in Seq(1..n) /\ Head(pool) \in Nat
    BY <1>1, <1>2 DEF CTypeOK
  <1>4. CTypeOK'
    <2>1. /\ topicOf' = topicOf /\ pool' \in Seq(DOMAIN topicOf)
          /\ current' \in [Threads -> Nat] /\ stage' \in [Threads -> Stages]
      BY <1>1, <1>2, <1>3 DEF CTypeOK, Stages
    <2>2. \A u \in Threads : stage'[u] = "picked" => current'[u] \in DOMAIN topicOf
      BY <1>1, <1>2, <1>3 DEF CTypeOK
    <2>3. QED
      BY <1>1, <2>1, <2>2 DEF CTypeOK, lists
  <1>5. Staged'
    BY <1>1 DEF Staged, CTypeOK
  <1>6. \A u : /\ Deleting(u)' <=> Deleting(u)
               /\ At(u, "dispatch")' <=> At(u, "dispatch")
               /\ Top(u)' = Top(u)
    BY <1>1 DEF Deleting, At, Top
  <1>7. Holding' /\ Owning' /\ Agreeing' /\ Destroyed'
    BY <1>1, <1>6, StackStep
  <1>8. QED
    BY <1>4, <1>5, <1>7

(* A thread that holds and awaits no mutex changes the top of its stack.   *)
LEMMA ExecutorStep ==
  ASSUME CIInv, NEW t \in Threads, ~Busy(t), NEW d \in Depths, NEW f,
         UNCHANGED <<topicReceivers, receiverIdCounter, heap, lists, owner, request>>,
         \A s \in Slots : frame'[s] = IF s = <<t, d>> THEN f ELSE frame[s],
         \A u \in Threads : u # t => depth'[u] = depth[u],
         f.op \in {"dispatch", "receive"} => d = 1
  PROVE  /\ Holding' /\ Owning' /\ Agreeing' /\ Destroyed'
         /\ \A u \in Threads, e \in Depths :
              frame'[<<u, e>>].op \in {"dispatch", "receive"} => e = 1
  <1> USE DEF CIInv, CInv
  <1>1. \A u \in Threads : u # t =>
          /\ Deleting(u)' <=> Deleting(u)
          /\ At(u, "dispatch")' <=> At(u, "dispatch")
          /\ depth[u] > 0 => Top(u)' = Top(u)
    BY OtherThreads DEF IInv
  <1>2. \A u \in Threads : Deleting(u) => depth[u] > 0
    BY DEF Deleting, At
  <1>3. \A u \in Threads : Busy(u) =>
          /\ depth'[u] = depth[u]
          /\ Deleting(u)' <=> Deleting(u)
          /\ At(u, "dispatch")' <=> At(u, "dispatch")
          /\ Deleting(u) => Top(u)'.rec = Top(u).rec
    BY <1>1, <1>2
  <1>4. Holding' /\ Owning' /\ Agreeing' /\ Destroyed'
    BY <1>3, StackStep
  <1>5. \A u \in Threads, e \in Depths :
          frame'[<<u, e>>].op \in {"dispatch", "receive"} => e = 1
    <2> SUFFICES ASSUME NEW u \in Threads, NEW e \in Depths,
                        frame'[<<u, e>>].op \in {"dispatch", "receive"}
                 PROVE  e = 1
      OBVIOUS
    <2>1. <<u, e>> \in Slots
      BY DEF Slots
    <2>2. CASE <<u, e>> = <<t, d>>
      BY <2>1, <2>2
    <2>3. CASE <<u, e>> # <<t, d>>
      BY <2>1, <2>3 DEF Staged
    <2>4. QED
      BY <2>2, <2>3
  <1>6. QED
    BY <1>4, <1>5

(* An executor starts a dispatch.                                          *)
LEMMA DispatchOneStep ==
  ASSUME CIInv, NEW t \in Threads, NEW topic,
         NEW during \in {"topic", "sent"}, NEW after \in {"report", "idle"},
         stage[t] \in {"picked", "report"}, Dispatch(t, topic, during, after)
  PROVE  CInv'
  <1> USE DEF CIInv, CInv
  <1>1. Dispatch(t, topic, during, after)
    OBVIOUS
  <1>2. UNCHANGED <<lists, owner, topicOf, pool, current, request>>
    BY DEF Dispatch, contextVars, poolVars
  <1>3. t \in Executors /\ depth[t] = 0 /\ ~Busy(t)
    BY DEF Staged, Holding
  <1>4. CASE topicReceivers[topic] # <<>>
    <2> DEFINE f == [NoFrame EXCEPT !.op = "dispatch", !.topic = topic,
                                    !.ids = topicReceivers[topic],
                                    !.upto = receiverIdCounter]
    <2>1. /\ stage' = [stage EXCEPT ![t] = during]
          /\ UNCHANGED <<topicReceivers, receiverIdCounter, heap>>
          /\ depth' = [depth EXCEPT ![t] = @ + 1]
          /\ frame' = [frame EXCEPT ![<<t, depth[t] + 1>>] = f]
      BY <1>1, <1>4 DEF Dispatch, DispatchMessage, Push
    <2> HIDE DEF f
    <2>2. 1 \in Depths /\ depth[t] + 1 = 1
      BY <1>3, ReceiversAssumption DEF Depths
    <2>3. \A s \in Slots : frame'[s] = IF s = <<t, 1>> THEN f ELSE frame[s]
      BY <2>1, <2>2 DEF IInv, TypeOK
    <2>4. \A u \in Threads : u # t => depth'[u] = depth[u]
      BY <2>1 DEF IInv, TypeOK
    <2>5. /\ Holding' /\ Owning' /\ Agreeing' /\ Destroyed'
          /\ \A u \in Threads, e \in Depths :
               frame'[<<u, e>>].op \in {"dispatch", "receive"} => e = 1
      BY <1>2, <1>3, <2>1, <2>2, <2>3, <2>4, ExecutorStep
    <2>6. CTypeOK'
      BY <1>2, <2>1 DEF CTypeOK, Stages, lists
    <2>7. Staged'
      BY <1>3, <2>1, <2>4, <2>5, ContextsAssumption DEF Staged, CTypeOK
    <2>8. QED
      BY <2>5, <2>6, <2>7
  <1>5. CASE ~(topicReceivers[topic] # <<>>)
    <2>1. /\ stage' = [stage EXCEPT ![t] = after]
          /\ UNCHANGED <<topicReceivers, receiverIdCounter, heap, frame, depth>>
      BY <1>1, <1>5 DEF Dispatch, vars
    <2>2. \A u : /\ Deleting(u)' <=> Deleting(u)
                 /\ At(u, "dispatch")' <=> At(u, "dispatch")
                 /\ Top(u)' = Top(u)
      BY <2>1 DEF Deleting, At, Top
    <2>3. Holding' /\ Owning' /\ Agreeing' /\ Destroyed'
      BY <1>2, <2>1, <2>2, StackStep
    <2>4. CTypeOK'
      BY <1>2, <2>1 DEF CTypeOK, Stages, lists
    <2>5. Staged'
      BY <1>3, <2>1 DEF Staged, CTypeOK
    <2>6. QED
      BY <2>3, <2>4, <2>5
  <1>6. QED
    BY <1>4, <1>5

(* The message and its notice are dispatched alike.                        *)
LEMMA DispatchStep ==
  ASSUME CIInv, NEW t \in Threads, DispatchTopic(t) \/ DispatchSent(t)
  PROVE  CInv'
  <1>1. CASE DispatchTopic(t)
    <2>1. stage[t] = "picked" /\ Dispatch(t, topicOf[current[t]], "topic", "report")
      BY <1>1 DEF DispatchTopic
    <2>2. QED
      BY <2>1, DispatchOneStep
  <1>2. CASE DispatchSent(t)
    <2>1. stage[t] = "report" /\ Dispatch(t, TopicSent, "sent", "idle")
      BY <1>2 DEF DispatchSent
    <2>2. QED
      BY <2>1, DispatchOneStep
  <1>3. QED
    BY <1>1, <1>2

(* A dispatch ends: it was the lowest frame.                               *)
LEMMA DispatchEndStep ==
  ASSUME CIInv, NEW t \in Threads, DispatchEnd(t)
  PROVE  CInv'
  <1> USE DEF CIInv, CInv
  <1>1. /\ t \in Executors /\ At(t, "dispatch") /\ Pop(t)
        /\ stage' = [stage EXCEPT ![t] = IF @ = "topic" THEN "report" ELSE "idle"]
        /\ UNCHANGED <<topicReceivers, receiverIdCounter, heap>>
        /\ UNCHANGED <<lists, owner, topicOf, pool, current, request>>
    BY DEF DispatchEnd, DispatchReturn, contextVars, poolVars
  <1>2. /\ depth[t] > 0 /\ depth[t] \in Depths /\ <<t, depth[t]>> \in Slots
        /\ frame[<<t, depth[t]>>].op = "dispatch"
    BY <1>1, AtSlot, TopSlot DEF IInv
  <1>3. depth[t] = 1
    BY <1>2 DEF Staged
  <1>4. /\ \A u \in Threads : depth'[u] = IF u = t THEN depth[u] - 1 ELSE depth[u]
        /\ \A s \in Slots : frame'[s] = IF s = <<t, depth[t]>> THEN NoFrame ELSE frame[s]
    BY <1>1, <1>2, PopSlot DEF IInv
  <1>5. ~Busy(t)
    BY <1>1 DEF Holding
  <1>6. NoFrame.op = "idle"
    BY DEF NoFrame
  <1>7. /\ Holding' /\ Owning' /\ Agreeing' /\ Destroyed'
        /\ \A u \in Threads, e \in Depths :
             frame'[<<u, e>>].op \in {"dispatch", "receive"} => e = 1
    BY <1>1, <1>2, <1>4, <1>5, <1>6, ExecutorStep
  <1>8. CTypeOK'
    BY <1>1 DEF CTypeOK, Stages, lists
  <1>9. Staged'
    <2>1. depth'[t] = 0 /\ \A u \in Threads : u # t => depth'[u] = depth[u]
      BY <1>3, <1>4
    <2>2. \A u \in Threads : u # t => stage'[u] = stage[u]
      BY <1>1 DEF CTypeOK
    <2>3. \A u \in Threads : u \notin Executors => stage'[u] = "idle"
      BY <1>1, <2>2 DEF Staged
    <2>4. \A u \in Executors : stage'[u] \notin {"topic", "sent"} => depth'[u] = 0
      BY <2>1, <2>2, ContextsAssumption DEF Staged
    <2>5. QED
      BY <1>7, <2>3, <2>4 DEF Staged
  <1>10. QED
    BY <1>7, <1>8, <1>9

(* The loop over the receivers: calls begin, end, or are skipped.          *)
LEMMA ReceiveStep ==
  ASSUME CIInv, NEW t \in Threads, Receive(t) \/ ReceiveGone(t) \/ ReceiveReturn(t)
  PROVE  CInv'
  <1> USE DEF CIInv, CInv
  <1>1. /\ UNCHANGED <<topicReceivers, receiverIdCounter, heap>>
        /\ UNCHANGED <<lists, owner, topicOf, pool, current, stage, request>>
        /\ At(t, "dispatch") \/ At(t, "receive")
        /\ \E f : Update(t, f)
    BY DEF Receive, ReceiveGone, ReceiveReturn, ReceiveBegin, ReceiveSkip, ReceiveEnd,
           cvars, contextVars, executorVars, poolVars
  <1>2. PICK f : Update(t, f)
    BY <1>1
  <1>3. ~Busy(t)
    <2>1. CASE ReceiveReturn(t)
      BY <2>1 DEF ReceiveReturn, Busy
    <2>2. CASE Receive(t) \/ ReceiveGone(t)
      BY <2>2 DEF Receive, ReceiveGone, ReceiveBegin, ReceiveSkip, Holding
    <2>3. QED
      BY <2>1, <2>2
  <1>4. /\ depth[t] \in Depths /\ <<t, depth[t]>> \in Slots
        /\ frame[<<t, depth[t]>>].op \in {"dispatch", "receive"}
    BY <1>1, AtSlot, TopSlot DEF IInv
  <1>5. depth[t] = 1
    BY <1>4 DEF Staged
  <1>6. /\ depth' = depth
        /\ \A s \in Slots : frame'[s] = IF s = <<t, depth[t]>> THEN f ELSE frame[s]
    BY <1>2, <1>4 DEF Update, IInv, TypeOK
  <1>7. /\ Holding' /\ Owning' /\ Agreeing' /\ Destroyed'
        /\ \A u \in Threads, e \in Depths :
             frame'[<<u, e>>].op \in {"dispatch", "receive"} => e = 1
    BY <1>1, <1>3, <1>4, <1>5, <1>6, ExecutorStep
  <1>8. CTypeOK'
    BY <1>1 DEF CTypeOK, lists
  <1>9. Staged'
    BY <1>1, <1>6, <1>7 DEF Staged
  <1>10. QED
    BY <1>7, <1>8, <1>9

-----------------------------------------------------------------------------
(* A step of the contexts is a step of the registry, or none to it.        *)
LEMMA RegistryStep == CIInv /\ [CNext]_allvars => [Next]_vars
  <1> SUFFICES ASSUME CIInv, [CNext]_allvars PROVE [Next]_vars
    OBVIOUS
  <1> USE DEF CIInv, CInv
  <1>1. CASE UNCHANGED allvars
    BY <1>1 DEF allvars
  <1>2. ASSUME NEW t \in Threads, NEW c \in Contexts, ContextCall(t, c)
        PROVE  [Next]_vars
    <2>1. CASE Lock(t, c) \/ NothingToDo(t, c) \/ PublishBegin(t, c) \/ Pick(t, c) \/ Destroy(t, c)
      BY <2>1 DEF Lock, NothingToDo, PublishBegin, Pick, Destroy
    <2>2. ASSUME NEW topic \in Names, AddTopic(t, c, topic) PROVE Next
      BY <2>2, ContextsAssumption DEF AddTopic, Next, UserCall
    <2>3. ASSUME NEW i \in DOMAIN topicList[c], RemoveTopic(t, c, i) PROVE Next
      <3> DEFINE id == subscriberList[c][i]
      <3>1. RemoveListed(t, id)
        BY <2>3 DEF RemoveTopic
      <3> HIDE DEF id
      <3>2. PICK topic \in Topics : id \in Subscribed(topic)
        BY <3>1 DEF RemoveListed, Subscribed, ToSet
      <3>3. id \in Ids /\ id <= receiverIdCounter
        BY <3>2, ListTyped DEF IInv, Listed
      <3>4. id \in 1..receiverIdCounter
        BY <3>3, ReceiversAssumption DEF Ids, IInv, TypeOK
      <3>5. QED
        BY <3>1, <3>4 DEF Next, UserCall
    <2>4. QED
      BY <1>2, <2>1, <2>2, <2>3 DEF ContextCall
  <1>3. ASSUME NEW t \in Threads, ContextStep(t) PROVE [Next]_vars
    <2>1. CASE RemoveTopicWait(t)
      BY <2>1 DEF RemoveTopicWait, Next, DispatcherStep
    <2>2. CASE \E c \in Contexts : RemoveTopicEnd(t, c)
      BY <2>2 DEF RemoveTopicEnd, Next, DispatcherStep
    <2>3. CASE \E c \in Contexts : PublishTopic(t, c) \/ PublishEnd(t, c)
      BY <2>3 DEF PublishTopic, PublishEnd
    <2>4. CASE PickMessage(t)
      BY <2>4 DEF PickMessage
    <2>5. CASE DispatchTopic(t)
      <3> DEFINE topic == topicOf[current[t]]
      <3>1. topic \in Topics
        BY <2>5, ContextsAssumption DEF DispatchTopic, CTypeOK
      <3>2. DispatchMessage(t, topic) \/ UNCHANGED vars
        BY <2>5 DEF DispatchTopic, Dispatch
      <3>3. QED
        BY <3>1, <3>2 DEF Next, UserCall
    <2>6. CASE DispatchSent(t)
      <3>1. DispatchMessage(t, TopicSent) \/ UNCHANGED vars
        BY <2>6 DEF DispatchSent, Dispatch
      <3>2. QED
        BY <3>1, ContextsAssumption DEF Next, UserCall
    <2>7. CASE DispatchEnd(t) \/ Receive(t) \/ ReceiveGone(t)
      BY <2>7 DEF DispatchEnd, Receive, ReceiveGone, Next, DispatcherStep
    <2>8. QED
      BY <1>3, <2>1, <2>2, <2>3, <2>4, <2>5, <2>6, <2>7 DEF ContextStep
  <1>4. ASSUME NEW t \in Threads, ReceiveReturn(t) PROVE [Next]_vars
    BY <1>4 DEF ReceiveReturn, Next
  <1>5. QED
    BY <1>1, <1>2, <1>3, <1>4 DEF CNext

(* Every step keeps the inductive invariant.                               *)
LEMMA NextCIInv == CIInv /\ [CNext]_allvars => CIInv'
  <1> SUFFICES ASSUME CIInv, [CNext]_allvars PROVE CIInv'
    OBVIOUS
  <1>1. IInv'
    BY RegistryStep, NextIInv DEF CIInv
  <1>2. CASE UNCHANGED allvars
    <2>1. /\ UNCHANGED <<topicReceivers, receiverIdCounter, heap, frame, depth>>
          /\ UNCHANGED <<lists, owner, pool, topicOf, stage, current, request>>
      BY <1>2 DEF allvars, vars, cvars, contextVars, executorVars, poolVars
    <2>2. \A u : /\ Deleting(u)' <=> Deleting(u)
                 /\ At(u, "dispatch")' <=> At(u, "dispatch")
                 /\ Top(u)' = Top(u)
      BY <2>1 DEF Deleting, At, Top
    <2>3. Holding' /\ Owning' /\ Agreeing' /\ Destroyed'
      BY <2>1, <2>2, StackStep
    <2>4. CTypeOK' /\ Staged'
      BY <2>1 DEF CIInv, CInv, CTypeOK, Staged, lists
    <2>5. QED
      BY <1>1, <2>3, <2>4 DEF CIInv, CInv
  <1>3. CASE CNext
    <2>1. ASSUME NEW t \in Threads, NEW c \in Contexts, ContextCall(t, c) PROVE CInv'
      BY <2>1, LockStep, NothingToDoStep, AddTopicStep, RemoveTopicStep, PublishBeginStep,
         PickStep, DestroyStep DEF ContextCall
    <2>2. ASSUME NEW t \in Threads, ContextStep(t) PROVE CInv'
      BY <2>2, RemoveTopicWaitStep, RemoveTopicEndStep, PublishTopicStep, PublishEndStep,
         PickMessageStep, DispatchStep, DispatchEndStep, ReceiveStep DEF ContextStep
    <2>3. ASSUME NEW t \in Threads, ReceiveReturn(t) PROVE CInv'
      BY <2>3, ReceiveStep
    <2>4. QED
      BY <1>1, <1>3, <2>1, <2>2, <2>3 DEF CNext, CIInv
  <1>4. QED
    BY <1>2, <1>3

(* The strengthened invariant of the contexts, with that of the registry.  *)
THEOREM ContextsInvariance == CSpec => []CIInv
  BY InitCIInv, NextCIInv, PTL DEF CSpec

(* The contexts use the registry as Receivers describes it: whatever is    *)
(* proved of the registry holds of it here.                                *)
THEOREM UsesRegistry == CSpec => Spec
  <1>1. CInit => Init
    BY DEF CInit
  <1>2. QED
    BY <1>1, RegistryStep, ContextsInvariance, PTL DEF CSpec, Spec

(* ListsAgree: AddTopic and RemoveTopic, from clients and from callbacks,  *)
(* keep the two lists of a context and the registry in agreement.          *)
THEOREM ContextLists == CSpec => []ListsAgree
  <1>1. CIInv => ListsAgree
    <2> SUFFICES ASSUME CIInv, NEW c \in Contexts, mutex[c] = None
                 PROVE  /\ Len(subscriberList[c]) = Len(topicList[c])
                        /\ \A i \in DOMAIN topicList[c] :
                             Listens(topicList[c][i], subscriberList[c][i])
                        /\ \A id \in Ids : owner[id] = c /\ IsSubscribed(id) =>
                             id \in ToSet(subscriberList[c])
                        /\ picker[c] \in {None, topicList[c]}
      BY DEF ListsAgree
    <2> USE DEF CIInv, CInv
    <2>1. Agrees(c)
      BY DEF Agreeing
    <2>2. \A id \in Ids : IsSubscribed(id) => heap[id] = "live"
      BY DEF IsSubscribed, IInv, Listed
    <2>3. \A id \in Ids : owner[id] = c /\ IsSubscribed(id) =>
            id \in ToSet(subscriberList[c])
      BY <2>2 DEF Owning
    <2>4. QED
      BY <2>1, <2>3 DEF Agrees
  <1>2. QED
    BY <1>1, ContextsInvariance, PTL

(* CalledWhileSubscribed: where contexts are destroyed without topics, no  *)
(* callback runs for a subscription that is gone or a context destroyed.   *)
THEOREM CallbacksAreSafe ==
  ASSUME ~DestroyAnytime
  PROVE  CSpec => []CalledWhileSubscribed
  <1>1. CIInv => CalledWhileSubscribed
    <2> SUFFICES ASSUME CIInv, NEW t \in Executors, NEW id \in Ids, Running(t, id)
                 PROVE  /\ alive[owner[id]]
                        /\ id \in ToSet(subscriberList[owner[id]])
      BY DEF CalledWhileSubscribed
    <2> USE DEF CIInv, CInv
    <2>1. PICK d \in Depths : frame[<<t, d>>].op = "receive" /\ frame[<<t, d>>].rec = id
      BY DEF Running
    <2>2. <<t, d>> \in Slots
      BY ContextsAssumption DEF Slots
    <2>3. heap[id] = "live"
      BY <2>1, <2>2 DEF IInv, Receiving
    <2>4. owner[id] \in Contexts /\ id \in ToSet(subscriberList[owner[id]])
      BY <2>3 DEF Owning
    <2>5. ToSet(<<>>) = {}
      BY DEF ToSet
    <2>6. alive[owner[id]]
      BY <2>4, <2>5 DEF Destroyed
    <2>7. QED
      BY <2>4, <2>6
  <1>2. QED
    BY <1>1, ContextsInvariance, PTL
-----------------------------------------------------------------------------
(* CalledOnce: no message calls a context twice.  A topic lists a context  *)
(* at most once, so the snapshot of a dispatch does; a message is in the   *)
(* pool or with one executor; and the contexts that a dispatch has still   *)
(* to call have not been called for its message.                           *)

(* The receivers of s belong to different contexts.                        *)
Apart(s) == \A i, j \in DOMAIN s : owner[s[i]] = owner[s[j]] => i = j

InHand(t) == stage[t] \in {"picked", "topic"}
Fresh(m)  == \A c \in Contexts : calls[c][m] = 0

OnceTypeOK ==
  /\ calls     \in [Contexts -> [Msgs -> {0, 1}]]
  /\ lastMsgId \in [Contexts -> Nat]
  /\ calling   \in [Threads -> BOOLEAN]
  /\ Len(topicOf) <= MaxMsgs

(* The pool is in the order of the ids, what executors have came before    *)
(* it, and no two of them have the same message.                           *)
Queued ==
  /\ \A i, j \in DOMAIN pool : i < j => pool[i] < pool[j]
  /\ \A t \in Threads : InHand(t) =>
       /\ current[t] \in 1..Len(topicOf)
       /\ \A i \in DOMAIN pool : current[t] < pool[i]
  /\ \A t, u \in Threads : InHand(t) /\ InHand(u) /\ current[t] = current[u] => t = u

(* What is not published, not picked or not dispatched has called nobody.  *)
Uncalled ==
  /\ \A m \in Msgs : m > Len(topicOf) => Fresh(m)
  /\ \A i \in DOMAIN pool : Fresh(pool[i])
  /\ \A t \in Threads : stage[t] = "picked" => Fresh(current[t])

(* The dispatch of a message by t has each context at most once before it, *)
(* and none that has been called; the one it is calling really is called.  *)
OnTopic(t) ==
  LET f == frame[<<t, 1>>] IN
  /\ depth[t] > 0 /\ f.op \in {"dispatch", "receive"}
  /\ Apart(f.ids)
  /\ \A i \in DOMAIN f.ids :
       /\ f.ids[i] <= receiverIdCounter
       /\ owner[f.ids[i]] \in Contexts
       /\ calls[owner[f.ids[i]]][current[t]] = 0
  /\ f.op = "receive" => calling[t] /\ calls[owner[f.rec]][current[t]] = 1

Dispatching == \A t \in Threads : stage[t] = "topic" => OnTopic(t)
ListedApart == \A topic \in Topics : Apart(topicReceivers[topic])
Remembered  == \A c \in Contexts : lastMsgId[c] \in Msgs => calls[c][lastMsgId[c]] = 1

OnceInv ==
  OnceTypeOK /\ Queued /\ Uncalled /\ Dispatching /\ ListedApart /\ Remembered

(* At first there is no message and no receiver.                           *)
LEMMA InitOnceInv == CInit => OnceInv
  <1> SUFFICES ASSUME CInit PROVE OnceInv
    OBVIOUS
  <1>1. OnceTypeOK
    BY ContextsAssumption DEF CInit, OnceTypeOK, NoId
  <1>2. \A m \in Msgs : Fresh(m)
    BY DEF CInit, Fresh
  <1>3. Queued /\ Dispatching
    BY DEF CInit, Queued, InHand, Dispatching
  <1>4. Uncalled
    BY <1>2 DEF CInit, Uncalled
  <1>5. ListedApart
    BY DEF CInit, Init, ListedApart, Apart
  <1>6. Remembered
    BY ContextsAssumption DEF CInit, Remembered, Msgs, NoId
  <1>7. QED
    BY <1>1, <1>3, <1>4, <1>5, <1>6 DEF OnceInv

(* What is left of such a sequence is one, and the first owner not in it.  *)
LEMMA ApartTail ==
  ASSUME NEW S, NEW s \in Seq(S), s # <<>>, Apart(s)
  PROVE  /\ Apart(Tail(s))
         /\ \A i \in DOMAIN Tail(s) :
              /\ i + 1 \in DOMAIN s /\ Tail(s)[i] = s[i + 1]
              /\ owner[Tail(s)[i]] # owner[Head(s)]
  <1>1. /\ Len(s) \in Nat /\ Len(s) > 0 /\ DOMAIN s = 1..Len(s) /\ Head(s) = s[1]
        /\ Len(Tail(s)) = Len(s) - 1 /\ DOMAIN Tail(s) = 1..(Len(s) - 1)
        /\ \A i \in 1..(Len(s) - 1) : Tail(s)[i] = s[i + 1]
    OBVIOUS
  <1>2. \A i \in 1..(Len(s) - 1) : i + 1 \in 1..Len(s) /\ i + 1 # 1
    BY <1>1
  <1>3. ASSUME NEW i \in DOMAIN Tail(s), NEW j \in DOMAIN Tail(s),
               owner[Tail(s)[i]] = owner[Tail(s)[j]]
        PROVE  i = j
    <2>1. owner[s[i + 1]] = owner[s[j + 1]] /\ i + 1 \in 1..Len(s) /\ j + 1 \in 1..Len(s)
      BY <1>1, <1>2, <1>3
    <2>2. i + 1 = j + 1
      BY <1>1, <2>1 DEF Apart
    <2>3. QED
      BY <1>1, <2>2
  <1>4. ASSUME NEW i \in DOMAIN Tail(s) PROVE owner[Tail(s)[i]] # owner[Head(s)]
    <2>1. i + 1 \in DOMAIN s /\ i + 1 # 1 /\ 1 \in DOMAIN s /\ Tail(s)[i] = s[i + 1]
      BY <1>1, <1>2
    <2>2. QED
      BY <1>1, <2>1 DEF Apart
  <1>5. Apart(Tail(s))
    BY <1>3 DEF Apart
  <1>6. QED
    BY <1>1, <1>2, <1>4, <1>5

(* So is what is left when any one of its elements is removed.             *)
LEMMA ApartRemove ==
  ASSUME NEW S, NEW s \in Seq(S), NEW j \in DOMAIN s, Apart(s)
  PROVE  Apart(RemoveAt(s, j))
  <1>1. /\ Len(RemoveAt(s, j)) = Len(s) - 1 /\ RemoveAt(s, j) \in Seq(S)
        /\ \A i \in 1..(Len(s) - 1) :
             RemoveAt(s, j)[i] = IF i < j THEN s[i] ELSE s[i + 1]
    BY RemoveAtSeq
  <1>2. Len(s) \in Nat /\ DOMAIN s = 1..Len(s) /\ DOMAIN RemoveAt(s, j) = 1..(Len(s) - 1)
        /\ j \in 1..Len(s)
    BY <1>1
  <1> DEFINE r == RemoveAt(s, j)
             at(i) == IF i < j THEN i ELSE i + 1
  <1>3. \A i \in 1..(Len(s) - 1) : r[i] = s[at(i)] /\ at(i) \in 1..Len(s)
    BY <1>1, <1>2
  <1>4. \A i, k \in 1..(Len(s) - 1) : at(i) = at(k) => i = k
    BY <1>2
  <1> HIDE DEF r, at
  <1>5. SUFFICES ASSUME NEW i \in 1..(Len(s) - 1), NEW k \in 1..(Len(s) - 1),
                        owner[r[i]] = owner[r[k]]
                 PROVE  i = k
    BY <1>2 DEF Apart, r
  <1>6. at(i) = at(k)
    BY <1>2, <1>3, <1>5 DEF Apart
  <1>7. QED
    BY <1>4, <1>6

(* A step that leaves messages, owners and registry alone, and does not    *)
(* touch the lowest frame of a dispatch.                                   *)
LEMMA OnceSame ==
  ASSUME OnceInv,
         UNCHANGED <<calls, lastMsgId, calling, topicOf, pool, stage, current, owner,
                     receiverIdCounter>>,
         ListedApart',
         \A t \in Threads : stage[t] = "topic" =>
           frame'[<<t, 1>>] = frame[<<t, 1>>] /\ depth'[t] > 0
  PROVE  OnceInv'
  <1>1. OnceTypeOK' /\ Queued' /\ Remembered'
    BY DEF OnceInv, OnceTypeOK, Queued, InHand, Remembered
  <1>2. Uncalled'
    BY DEF OnceInv, Uncalled, Fresh
  <1>3. Dispatching'
    <2> SUFFICES ASSUME NEW t \in Threads, stage[t] = "topic" PROVE OnTopic(t)'
      BY DEF Dispatching
    <2>1. OnTopic(t) /\ frame'[<<t, 1>>] = frame[<<t, 1>>] /\ depth'[t] > 0
      BY DEF OnceInv, Dispatching
    <2>2. QED
      BY <2>1 DEF OnTopic, Apart
  <1>4. QED
    BY <1>1, <1>2, <1>3 DEF OnceInv

(* The registry and the owners stay, and so does who is listed.            *)
LEMMA ApartSame ==
  ASSUME ListedApart, UNCHANGED <<topicReceivers, owner>>
  PROVE  ListedApart'
  BY DEF ListedApart, Apart

(* The calls of a client that leave the registry alone.                    *)
LEMMA QuietOnce ==
  ASSUME CIInv, OnceInv, NEW t \in Threads, NEW c \in Contexts,
         \/ Lock(t, c) \/ NothingToDo(t, c) \/ PublishBegin(t, c) \/ Pick(t, c)
         \/ Destroy(t, c) \/ PublishEnd(t, c)
  PROVE  OnceInv'
  <1>1. UNCHANGED <<vars, calls, lastMsgId, calling, topicOf, pool, stage, current, owner>>
    BY DEF Lock, NothingToDo, PublishBegin, Pick, Destroy, PublishEnd, contextVars,
           executorVars, poolVars
  <1>2. UNCHANGED <<frame, depth, topicReceivers, receiverIdCounter>>
    BY <1>1 DEF vars
  <1>3. ListedApart'
    BY <1>1, <1>2, ApartSame DEF OnceInv
  <1>4. QED
    BY <1>1, <1>2, <1>3, OnceSame DEF OnceInv, Dispatching, OnTopic

(* RemoveTopic waits and deletes above the frame of a dispatch.            *)
LEMMA RemovalOnce ==
  ASSUME CIInv, OnceInv, NEW t \in Threads,
         RemoveTopicWait(t) \/ \E c \in Contexts : RemoveTopicEnd(t, c)
  PROVE  OnceInv'
  <1>1. /\ UNCHANGED <<calls, lastMsgId, calling, topicOf, pool, stage, current, owner,
                       receiverIdCounter, topicReceivers>>
        /\ Deleting(t)
        /\ (\E f : Update(t, f)) \/ Pop(t)
    BY DEF RemoveTopicWait, RemoveTopicEnd, RemoveWait, RemoveDelete, Deleting, cvars,
           contextVars, executorVars, poolVars
  <1>2. ListedApart'
    BY <1>1, ApartSame DEF OnceInv
  <1>3. ASSUME NEW u \in Threads, stage[u] = "topic"
        PROVE  frame'[<<u, 1>>] = frame[<<u, 1>>] /\ depth'[u] > 0
    <2>1. /\ depth[u] > 0 /\ frame[<<u, 1>>].op \in {"dispatch", "receive"}
          /\ depth[u] \in Nat /\ <<u, 1>> \in Slots
      BY <1>3, ReceiversAssumption
         DEF OnceInv, Dispatching, OnTopic, CIInv, IInv, TypeOK, Slots, Depths
    <2>2. /\ depth[t] > 0 /\ depth[t] \in Nat
          /\ frame[<<t, depth[t]>>].op \in {"wait", "delete"}
      BY <1>1, AtSlot DEF Deleting, CIInv, IInv, TypeOK
    <2>3. <<u, 1>> # <<t, depth[t]>> /\ (u = t => depth[u] > 1)
      BY <2>1, <2>2
    <2>4. frame'[<<u, 1>>] = frame[<<u, 1>>]
      BY <1>1, <2>1, <2>3 DEF Update, Pop, CIInv, IInv, TypeOK
    <2>5. depth'[u] = IF u = t /\ Pop(t) THEN depth[u] - 1 ELSE depth[u]
      BY <1>1 DEF Update, Pop, CIInv, IInv, TypeOK
    <2>6. QED
      BY <2>1, <2>3, <2>4, <2>5
  <1>4. QED
    BY <1>1, <1>2, <1>3, OnceSame

(* RemoveTopic takes a receiver out of one list.                           *)
LEMMA RemoveTopicOnce ==
  ASSUME CIInv, OnceInv, NEW t \in Threads, NEW c \in Contexts, NEW i \in DOMAIN topicList[c],
         RemoveTopic(t, c, i)
  PROVE  OnceInv'
  <1> DEFINE id == subscriberList[c][i]
  <1>1. /\ UNCHANGED <<calls, lastMsgId, calling, topicOf, pool, stage, current, owner,
                       receiverIdCounter>>
        /\ RemoveListed(t, id)
    BY DEF RemoveTopic, RemoveListed, executorVars, poolVars
  <1> HIDE DEF id
  <1>2. PICK topic \in Topics : \E j \in DOMAIN topicReceivers[topic] :
          topicReceivers' = [topicReceivers EXCEPT ![topic] = RemoveAt(@, j)]
    BY <1>1 DEF RemoveListed
  <1>3. PICK j \in DOMAIN topicReceivers[topic] :
          topicReceivers' = [topicReceivers EXCEPT ![topic] = RemoveAt(@, j)]
    BY <1>2
  <1>4. Apart(RemoveAt(topicReceivers[topic], j))
    BY ApartRemove DEF CIInv, IInv, TypeOK, OnceInv, ListedApart
  <1>5. ASSUME NEW other \in Topics PROVE Apart(topicReceivers'[other])
    <2>1. topicReceivers'[other] = IF other = topic THEN RemoveAt(topicReceivers[topic], j)
                                   ELSE topicReceivers[other]
      BY <1>3 DEF CIInv, IInv, TypeOK
    <2>2. QED
      BY <1>4, <2>1 DEF OnceInv, ListedApart
  <1>6. ListedApart'
    BY <1>1, <1>5 DEF ListedApart, Apart
  <1>7. ASSUME NEW u \in Threads, stage[u] = "topic"
        PROVE  frame'[<<u, 1>>] = frame[<<u, 1>>] /\ depth'[u] > 0
    <2>1. /\ depth[u] > 0 /\ depth[u] \in Nat /\ <<u, 1>> \in Slots /\ depth[t] \in Nat
      BY <1>7, ReceiversAssumption
         DEF OnceInv, Dispatching, OnTopic, CIInv, IInv, TypeOK, Slots, Depths
    <2>2. /\ depth' = [depth EXCEPT ![t] = @ + 1]
          /\ \E f : frame' = [frame EXCEPT ![<<t, depth[t] + 1>>] = f]
      BY <1>1 DEF RemoveListed, Push
    <2>3. <<u, 1>> # <<t, depth[t] + 1>>
      BY <2>1
    <2>4. QED
      BY <2>1, <2>2, <2>3 DEF CIInv, IInv, TypeOK
  <1>8. QED
    BY <1>1, <1>6, <1>7, OnceSame

(* AddTopic subscribes a context only to a topic that does not list it.    *)
LEMMA AddTopicOnce ==
  ASSUME CIInv, OnceInv, NEW t \in Threads, NEW c \in Contexts, NEW topic \in Names,
         AddTopic(t, c, topic)
  PROVE  OnceInv'
  <1> DEFINE id == receiverIdCounter + 1
  <1>1. /\ mutex[c] = None /\ ~Contains(topicList[c], topic)
        /\ owner' = [owner EXCEPT ![id] = c]
        /\ receiverIdCounter < MaxReceivers /\ receiverIdCounter' = id
        /\ topicReceivers' = [topicReceivers EXCEPT ![topic] = Append(@, id)]
        /\ UNCHANGED <<frame, depth, calls, lastMsgId, calling, topicOf, pool, stage, current>>
    BY DEF AddTopic, AddReceiver, Locked, executorVars, poolVars
  <1>2. id \in Ids /\ id \in Nat /\ topic \in Topics /\ receiverIdCounter \in Nat
    BY <1>1, ReceiversAssumption, ContextsAssumption DEF CIInv, IInv, TypeOK, Ids
  <1>3. /\ owner'[id] = c
        /\ \A x \in Ids : x <= receiverIdCounter => owner'[x] = owner[x]
    BY <1>1, <1>2 DEF CIInv, CInv, CTypeOK, Ids
  <1>4. id = receiverIdCounter + 1
    OBVIOUS
  <1> HIDE DEF id
  <1>5. \A other \in Topics : \A x \in Subscribed(other) :
          x \in Ids /\ x <= receiverIdCounter /\ heap[x] = "live"
    BY ListTyped DEF CIInv, IInv, Listed
  <1>6. ASSUME NEW x \in Subscribed(topic) PROVE owner[x] # c
    <2>1. SUFFICES ASSUME owner[x] = c PROVE FALSE
      OBVIOUS
    <2>2. x \in ToSet(subscriberList[c])
      BY <1>2, <1>5, <2>1 DEF CIInv, CInv, Owning
    <2>3. PICK i \in DOMAIN subscriberList[c] : subscriberList[c][i] = x
      BY <2>2 DEF ToSet
    <2>4. Agrees(c)
      BY <1>1 DEF CIInv, CInv, Agreeing
    <2>5. /\ topicList[c] \in Seq(Names) /\ subscriberList[c] \in Seq(Ids)
          /\ DOMAIN topicList[c] = 1..Len(topicList[c])
          /\ DOMAIN subscriberList[c] = 1..Len(subscriberList[c])
      BY DEF CIInv, CInv, CTypeOK
    <2>6. i \in 1..Len(topicList[c]) /\ Listens(topicList[c][i], x)
      BY <2>3, <2>4, <2>5 DEF Agrees
    <2>7. topicList[c][i] = topic
      BY <1>2, <1>5, <2>6 DEF Listens, CIInv, IInv, Listed
    <2>8. QED
      BY <1>1, <2>6, <2>7 DEF Contains
  <1>7. ASSUME NEW other \in Topics, NEW i \in DOMAIN topicReceivers'[other],
               NEW j \in DOMAIN topicReceivers'[other],
               owner'[topicReceivers'[other][i]] = owner'[topicReceivers'[other][j]]
        PROVE  i = j
    <2> DEFINE l == topicReceivers[other]
    <2>1. /\ l \in Seq(Ids) /\ Len(l) \in Nat /\ DOMAIN l = 1..Len(l)
          /\ \A k \in 1..Len(l) : l[k] \in Subscribed(other)
      BY DEF CIInv, IInv, TypeOK, Subscribed, ToSet
    <2>2. \A k, n \in 1..Len(l) : owner[l[k]] = owner[l[n]] => k = n
      BY <2>1 DEF OnceInv, ListedApart, Apart
    <2>3. \A k \in 1..Len(l) : owner'[l[k]] = owner[l[k]]
      BY <1>3, <1>5, <2>1
    <2>4. CASE other # topic
      <3>1. topicReceivers'[other] = l
        BY <1>1, <2>4 DEF CIInv, IInv, TypeOK
      <3>2. QED
        BY <1>7, <2>1, <2>2, <2>3, <3>1
    <2>5. CASE other = topic
      <3>1. topicReceivers'[other] = Append(l, id)
        BY <1>1, <1>2, <2>5 DEF CIInv, IInv, TypeOK
      <3> HIDE DEF l
      <3>2. /\ DOMAIN Append(l, id) = 1..(Len(l) + 1)
            /\ Append(l, id)[Len(l) + 1] = id
            /\ \A k \in 1..Len(l) : Append(l, id)[k] = l[k]
        BY <1>2, <2>1
      <3>3. \A k \in 1..Len(l) : owner'[l[k]] # owner'[id]
        BY <1>3, <1>6, <2>1, <2>3, <2>5
      <3>4. \A k \in 1..(Len(l) + 1) : k = Len(l) + 1 \/ k \in 1..Len(l)
        BY <2>1
      <3>5. CASE i = Len(l) + 1 /\ j = Len(l) + 1
        BY <3>5
      <3>6. CASE i = Len(l) + 1 /\ j \in 1..Len(l)
        BY <1>7, <3>1, <3>2, <3>3, <3>6
      <3>7. CASE j = Len(l) + 1 /\ i \in 1..Len(l)
        BY <1>7, <3>1, <3>2, <3>3, <3>7
      <3>8. CASE i \in 1..Len(l) /\ j \in 1..Len(l)
        BY <1>7, <2>2, <2>3, <3>1, <3>2, <3>8
      <3>9. QED
        BY <3>1, <3>2, <3>4, <3>5, <3>6, <3>7, <3>8
    <2>6. QED
      BY <2>4, <2>5
  <1>8. ListedApart'
    BY <1>7 DEF ListedApart, Apart
  <1>9. Dispatching'
    <2> SUFFICES ASSUME NEW u \in Threads, stage[u] = "topic" PROVE OnTopic(u)'
      BY <1>1 DEF Dispatching
    <2> DEFINE f == frame[<<u, 1>>]
    <2>1. OnTopic(u) /\ frame'[<<u, 1>>] = f /\ depth' = depth
      BY <1>1 DEF OnceInv, Dispatching
    <2>2. <<u, 1>> \in Slots /\ f \in Frames /\ f.ids \in Seq(Ids)
      BY ReceiversAssumption DEF CIInv, IInv, TypeOK, Slots, Depths, Frames
    <2>3. \A k \in DOMAIN f.ids : f.ids[k] \in Ids /\ f.ids[k] <= receiverIdCounter
      BY <2>1, <2>2 DEF OnTopic
    <2>4. \A k \in DOMAIN f.ids : owner'[f.ids[k]] = owner[f.ids[k]]
      BY <1>3, <2>3
    <2>5. f.op = "receive" => f.rec \in Ids /\ f.rec <= receiverIdCounter
      BY <1>2, <2>2 DEF CIInv, IInv, Receiving, Listed, Ids
    <2>6. f.op = "receive" => owner'[f.rec] = owner[f.rec]
      BY <1>3, <2>5
    <2>7. \A k \in DOMAIN f.ids : f.ids[k] <= id
      BY <1>2, <1>4, <2>3 DEF Ids
    <2> HIDE DEF f
    <2>8. Apart(f.ids)'
      BY <2>1, <2>4 DEF OnTopic, Apart, f
    <2>9. QED
      BY <1>1, <2>1, <2>4, <2>6, <2>7, <2>8 DEF OnTopic, f
  <1>10. OnceTypeOK' /\ Queued' /\ Uncalled' /\ Remembered'
    BY <1>1 DEF OnceInv, OnceTypeOK, Queued, InHand, Uncalled, Fresh, Remembered
  <1>11. QED
    BY <1>8, <1>9, <1>10 DEF OnceInv

(* A new message comes last.                                               *)
LEMMA PublishTopicOnce ==
  ASSUME CIInv, OnceInv, NEW t \in Threads, NEW c \in Contexts, PublishTopic(t, c)
  PROVE  OnceInv'
  <1>1. UNCHANGED <<vars, calls, lastMsgId, calling, stage, current, owner>>
    BY DEF PublishTopic, executorVars
  <1>2. UNCHANGED <<frame, depth, topicReceivers, receiverIdCounter>>
    BY <1>1 DEF vars
  <1>3. ListedApart'
    BY <1>1, <1>2, ApartSame DEF OnceInv
  <1>4. CASE UNCHANGED poolVars
    BY <1>1, <1>2, <1>3, <1>4, OnceSame DEF OnceInv, Dispatching, OnTopic, poolVars
  <1>5. CASE ~UNCHANGED poolVars
    <2> DEFINE n == Len(topicOf)
               topic == topicList[c][index[c]]
    <2>1. n < MaxMsgs /\ topicOf' = Append(topicOf, topic) /\ pool' = Append(pool, n + 1)
      BY <1>5 DEF PublishTopic
    <2>2. /\ n \in Nat /\ Len(topicOf') = n + 1 /\ n + 1 \in Msgs
          /\ pool \in Seq(1..n) /\ Len(pool) \in Nat /\ DOMAIN pool = 1..Len(pool)
          /\ \A i \in 1..Len(pool) : pool[i] \in 1..n
      <3>1. /\ DOMAIN topicOf = 1..n /\ n \in Nat /\ topicOf \in Seq(Names)
            /\ topic \in Names
        <4>1. mutex[c] # None /\ index[c] <= Len(topicList[c])
          BY ContextsAssumption DEF PublishTopic, Publishing
        <4>2. index[c] \in Nat /\ index[c] > 0 /\ topicList[c] \in Seq(Names)
          BY <4>1 DEF CIInv, CInv, CTypeOK
        <4>3. topic \in Names
          BY <4>1, <4>2
        <4>4. QED
          BY <4>3 DEF CIInv, CInv, CTypeOK
      <3>2. Len(topicOf') = n + 1
        BY <2>1, <3>1
      <3>3. n + 1 \in Msgs
        BY <2>1, <3>1, ContextsAssumption DEF Msgs
      <3>4. pool \in Seq(1..n)
        BY <3>1 DEF CIInv, CInv, CTypeOK
      <3> HIDE DEF n, topic
      <3>5. QED
        BY <3>1, <3>2, <3>3, <3>4
    <2> HIDE DEF n, topic
    <2>3. /\ DOMAIN pool' = 1..(Len(pool) + 1) /\ pool'[Len(pool) + 1] = n + 1
          /\ \A i \in 1..Len(pool) : pool'[i] = pool[i]
      BY <2>1, <2>2
    <2>4. \A i \in 1..(Len(pool) + 1) : i = Len(pool) + 1 \/ i \in 1..Len(pool)
      BY <2>2
    <2>5. OnceTypeOK' /\ Remembered'
      BY <1>1, <2>1, <2>2, ContextsAssumption DEF OnceInv, OnceTypeOK, Remembered, Msgs
    <2>6. Queued'
      <3>1. ASSUME NEW i \in DOMAIN pool', NEW j \in DOMAIN pool', i < j
            PROVE  pool'[i] < pool'[j]
        <4>1. i \in 1..Len(pool)
          BY <2>2, <2>3, <3>1
        <4>2. CASE j = Len(pool) + 1
          BY <2>2, <2>3, <4>1, <4>2
        <4>3. CASE j \in 1..Len(pool)
          BY <2>2, <2>3, <3>1, <4>1, <4>3 DEF OnceInv, Queued
        <4>4. QED
          BY <2>3, <2>4, <4>2, <4>3
      <3>2. ASSUME NEW u \in Threads, InHand(u)
            PROVE  /\ current[u] \in 1..(n + 1)
                   /\ \A i \in DOMAIN pool' : current[u] < pool'[i]
        <4>1. /\ current[u] \in 1..n
              /\ \A i \in 1..Len(pool) : current[u] < pool[i]
          BY <2>2, <3>2 DEF OnceInv, Queued, n
        <4>2. QED
          BY <2>2, <2>3, <2>4, <4>1
      <3>3. QED
        BY <1>1, <2>2, <3>1, <3>2 DEF OnceInv, Queued, InHand
    <2>7. Uncalled'
      <3>1. \A m \in Msgs : m > n => Fresh(m)
        BY DEF OnceInv, Uncalled, n
      <3>2. Fresh(n + 1)
        BY <2>2, <3>1
      <3>3. \A i \in DOMAIN pool' : Fresh(pool'[i])
        BY <2>2, <2>3, <2>4, <3>2 DEF OnceInv, Uncalled
      <3>4. \A m \in Msgs : m > n + 1 => Fresh(m)
        BY <2>2, <3>1 DEF Msgs
      <3>5. \A m : Fresh(m)' <=> Fresh(m)
        BY <1>1 DEF Fresh
      <3>6. QED
        BY <1>1, <2>2, <3>3, <3>4, <3>5 DEF OnceInv, Uncalled
    <2>8. Dispatching'
      BY <1>1, <1>2 DEF OnceInv, Dispatching, OnTopic, Apart
    <2>9. QED
      BY <1>3, <2>5, <2>6, <2>7, <2>8 DEF OnceInv
  <1>6. QED
    BY <1>4, <1>5

(* An executor takes the oldest message of the pool.                       *)
LEMMA PickMessageOnce ==
  ASSUME CIInv, OnceInv, NEW t \in Threads, PickMessage(t)
  PROVE  OnceInv'
  <1>1. /\ stage[t] = "idle" /\ pool # <<>>
        /\ current' = [current EXCEPT ![t] = Head(pool)]
        /\ pool' = Tail(pool)
        /\ stage' = [stage EXCEPT ![t] = "picked"]
        /\ UNCHANGED <<vars, calls, lastMsgId, calling, topicOf, owner>>
    BY DEF PickMessage, contextVars
  <1>2. UNCHANGED <<frame, depth, topicReceivers, receiverIdCounter>>
    BY <1>1 DEF vars
  <1>3. /\ current'[t] = Head(pool) /\ stage'[t] = "picked"
        /\ \A u \in Threads : u # t => current'[u] = current[u] /\ stage'[u] = stage[u]
    BY <1>1 DEF CIInv, CInv, CTypeOK
  <1>4. /\ Len(topicOf) \in Nat /\ DOMAIN topicOf = 1..Len(topicOf)
        /\ pool \in Seq(1..Len(topicOf)) /\ Len(pool) \in Nat /\ Len(pool) > 0
        /\ DOMAIN pool = 1..Len(pool) /\ 1 \in 1..Len(pool) /\ Head(pool) = pool[1]
        /\ DOMAIN Tail(pool) = 1..(Len(pool) - 1)
        /\ \A i \in 1..(Len(pool) - 1) : Tail(pool)[i] = pool[i + 1]
        /\ \A i \in 1..Len(pool) : pool[i] \in 1..Len(topicOf)
    BY <1>1 DEF CIInv, CInv, CTypeOK
  <1>5. \A i \in 1..(Len(pool) - 1) : i + 1 \in 1..Len(pool) /\ 1 < i + 1
    BY <1>4
  <1>6. \A i, j \in 1..Len(pool) : i < j => pool[i] < pool[j]
    BY <1>4 DEF OnceInv, Queued
  <1>7. \A u \in Threads : InHand(u) => current[u] \in 1..Len(topicOf)
    BY DEF OnceInv, Queued
  <1>8. \A u \in Threads : InHand(u) => \A i \in 1..Len(pool) : current[u] < pool[i]
    BY <1>4 DEF OnceInv, Queued
  <1>9. \A u \in Threads : u # t => (InHand(u)' <=> InHand(u))
    BY <1>3 DEF InHand
  <1>10. Queued'
    <2>1. ASSUME NEW i \in DOMAIN pool', NEW j \in DOMAIN pool', i < j
          PROVE  pool'[i] < pool'[j]
      <3>1. /\ i + 1 \in 1..Len(pool) /\ j + 1 \in 1..Len(pool) /\ i + 1 < j + 1
            /\ pool'[i] = pool[i + 1] /\ pool'[j] = pool[j + 1]
        BY <1>1, <1>4, <1>5, <2>1
      <3>2. QED
        BY <1>6, <3>1
    <2>2. ASSUME NEW u \in Threads, InHand(u)'
          PROVE  /\ current'[u] \in 1..Len(topicOf)
                 /\ \A i \in DOMAIN pool' : current'[u] < pool'[i]
      <3>1. CASE u = t
        BY <1>1, <1>3, <1>4, <1>5, <1>6, <3>1
      <3>2. CASE u # t
        BY <1>1, <1>3, <1>4, <1>5, <1>7, <1>8, <1>9, <2>2, <3>2
      <3>3. QED
        BY <3>1, <3>2
    <2>3. ASSUME NEW u \in Threads, u # t, InHand(u)' PROVE current'[u] # current'[t]
      <3>1. current[u] < pool[1] /\ current[u] \in Nat
        BY <1>4, <1>7, <1>8, <1>9, <2>3
      <3>2. QED
        BY <1>3, <1>4, <2>3, <3>1
    <2>4. ASSUME NEW u \in Threads, NEW v \in Threads, InHand(u)', InHand(v)',
                 current'[u] = current'[v]
          PROVE  u = v
      <3>1. CASE u = t \/ v = t
        BY <2>3, <2>4, <3>1
      <3>2. CASE u # t /\ v # t
        BY <1>3, <1>9, <2>4, <3>2 DEF OnceInv, Queued
      <3>3. QED
        BY <3>1, <3>2
    <2>5. QED
      BY <1>1, <2>1, <2>2, <2>4 DEF Queued
  <1>11. Uncalled'
    <2>1. \A m : Fresh(m)' <=> Fresh(m)
      BY <1>1 DEF Fresh
    <2>2. \A i \in 1..Len(pool) : Fresh(pool[i])
      BY <1>4 DEF OnceInv, Uncalled
    <2>3. \A i \in DOMAIN pool' : Fresh(pool'[i])
      BY <1>1, <1>4, <1>5, <2>2
    <2>4. \A u \in Threads : stage'[u] = "picked" => Fresh(current'[u])
      BY <1>3, <1>4, <2>2 DEF OnceInv, Uncalled
    <2>5. QED
      BY <1>1, <2>1, <2>3, <2>4 DEF OnceInv, Uncalled
  <1>12. Dispatching'
    <2> SUFFICES ASSUME NEW u \in Threads, stage'[u] = "topic" PROVE OnTopic(u)'
      BY DEF Dispatching
    <2>1. u # t /\ OnTopic(u) /\ current'[u] = current[u]
      BY <1>3 DEF OnceInv, Dispatching
    <2>2. QED
      BY <1>1, <1>2, <2>1 DEF OnTopic, Apart
  <1>13. ListedApart'
    BY <1>1, <1>2, ApartSame DEF OnceInv
  <1>14. OnceTypeOK' /\ Remembered'
    BY <1>1 DEF OnceInv, OnceTypeOK, Remembered
  <1>15. QED
    BY <1>10, <1>11, <1>12, <1>13, <1>14 DEF OnceInv

(* An executor gives a message out of its hand.                            *)
LEMMA LeaveOnce ==
  ASSUME CIInv, OnceInv, NEW t \in Threads, NEW s \in Stages \ {"picked", "topic"},
         stage' = [stage EXCEPT ![t] = s],
         UNCHANGED <<calls, lastMsgId, calling, topicOf, pool, current, owner,
                     topicReceivers, receiverIdCounter>>,
         \A u \in Threads : u # t =>
           frame'[<<u, 1>>] = frame[<<u, 1>>] /\ depth'[u] = depth[u]
  PROVE  OnceInv'
  <1>1. stage'[t] = s /\ \A u \in Threads : u # t => stage'[u] = stage[u]
    BY DEF CIInv, CInv, CTypeOK
  <1>2. \A u \in Threads : InHand(u)' => InHand(u) /\ u # t
    BY <1>1 DEF InHand
  <1>3. Queued'
    BY <1>2 DEF OnceInv, Queued
  <1>4. Uncalled'
    BY <1>1 DEF OnceInv, Uncalled, Fresh
  <1>5. Dispatching'
    <2> SUFFICES ASSUME NEW u \in Threads, stage'[u] = "topic" PROVE OnTopic(u)'
      BY DEF Dispatching
    <2>1. u # t /\ OnTopic(u)
      BY <1>1 DEF OnceInv, Dispatching
    <2>2. QED
      BY <2>1 DEF OnTopic, Apart
  <1>6. ListedApart'
    BY ApartSame DEF OnceInv
  <1>7. OnceTypeOK' /\ Remembered'
    BY DEF OnceInv, OnceTypeOK, Remembered
  <1>8. QED
    BY <1>3, <1>4, <1>5, <1>6, <1>7 DEF OnceInv

(* A dispatch that starts or ends touches the stack of its thread only.    *)
LEMMA OtherStacks ==
  ASSUME CIInv, NEW t \in Threads,
         \/ UNCHANGED vars \/ Pop(t) \/ (\E f : Push(t, f)) \/ (\E f : Update(t, f))
  PROVE  \A u \in Threads : u # t =>
           frame'[<<u, 1>>] = frame[<<u, 1>>] /\ depth'[u] = depth[u]
  <1> SUFFICES ASSUME NEW u \in Threads, u # t
               PROVE  frame'[<<u, 1>>] = frame[<<u, 1>>] /\ depth'[u] = depth[u]
    OBVIOUS
  <1>1. <<u, 1>> \in Slots /\ \A d : <<u, 1>> # <<t, d>>
    BY ReceiversAssumption DEF Slots, Depths
  <1>2. QED
    BY <1>1 DEF Pop, Push, Update, vars, CIInv, IInv, TypeOK

(* A dispatch that ends, and a notice that begins.                         *)
LEMMA DispatchEndOnce ==
  ASSUME CIInv, OnceInv, NEW t \in Threads, DispatchEnd(t) \/ DispatchSent(t)
  PROVE  OnceInv'
  <1>1. UNCHANGED <<calls, lastMsgId, calling, topicOf, pool, current, owner,
                    topicReceivers, receiverIdCounter>>
    BY DEF DispatchEnd, DispatchReturn, DispatchSent, Dispatch, DispatchMessage, vars,
           contextVars, poolVars
  <1>2. UNCHANGED vars \/ Pop(t) \/ \E f : Push(t, f)
    BY DEF DispatchEnd, DispatchReturn, DispatchSent, Dispatch, DispatchMessage
  <1>3. \E s \in Stages \ {"picked", "topic"} : stage' = [stage EXCEPT ![t] = s]
    BY DEF DispatchEnd, DispatchSent, Dispatch, Stages
  <1>4. QED
    BY <1>1, <1>2, <1>3, OtherStacks, LeaveOnce

(* The dispatch of a message takes its snapshot of the receivers.          *)
LEMMA DispatchTopicOnce ==
  ASSUME CIInv, OnceInv, NEW t \in Threads, DispatchTopic(t)
  PROVE  OnceInv'
  <1> DEFINE topic == topicOf[current[t]]
             list == topicReceivers[topic]
             f == [NoFrame EXCEPT !.op = "dispatch", !.topic = topic, !.ids = list,
                                  !.upto = receiverIdCounter]
  <1>1. /\ stage[t] = "picked"
        /\ UNCHANGED <<calls, lastMsgId, calling, topicOf, pool, current, owner,
                       topicReceivers, receiverIdCounter>>
    BY DEF DispatchTopic, Dispatch, DispatchMessage, vars, contextVars, poolVars
  <1>2. CASE list = <<>>
    <2>1. stage' = [stage EXCEPT ![t] = "report"] /\ UNCHANGED vars
      BY <1>2 DEF DispatchTopic, Dispatch
    <2>2. "report" \in Stages \ {"picked", "topic"}
      BY DEF Stages
    <2>3. QED
      BY <1>1, <2>1, <2>2, OtherStacks, LeaveOnce
  <1>3. CASE list # <<>>
    <2>1. /\ stage' = [stage EXCEPT ![t] = "topic"]
          /\ Push(t, f)
      BY <1>3 DEF DispatchTopic, Dispatch, DispatchMessage
    <2>2. topic \in Topics
      BY <1>1, ContextsAssumption DEF CIInv, CInv, CTypeOK
    <2>3. /\ f.op = "dispatch" /\ f.ids = list
      BY DEF NoFrame
    <2> HIDE DEF f, topic
    <2>4. t \in Executors /\ depth[t] = 0 /\ <<t, 1>> \in Slots
      BY <1>1, ReceiversAssumption DEF CIInv, CInv, Staged, Slots, Depths
    <2>5. depth'[t] = 1 /\ frame'[<<t, 1>>] = f
      BY <2>1, <2>4 DEF Push, CIInv, IInv, TypeOK
    <2>6. stage'[t] = "topic" /\ \A u \in Threads : u # t => stage'[u] = stage[u]
      BY <2>1 DEF CIInv, CInv, CTypeOK
    <2>7. \A u \in Threads : InHand(u)' <=> InHand(u)
      BY <1>1, <2>6 DEF InHand
    <2>8. Queued'
      BY <1>1, <2>7 DEF OnceInv, Queued
    <2>9. Uncalled'
      BY <1>1, <2>6 DEF OnceInv, Uncalled, Fresh
    <2>10. OnTopic(t)'
      <3>1. Apart(list) /\ Fresh(current[t])
        BY <1>1, <2>2 DEF OnceInv, ListedApart, Uncalled
      <3>2. \A i \in DOMAIN list : list[i] \in Ids /\ list[i] \in Subscribed(topic)
        BY <2>2 DEF CIInv, IInv, TypeOK, Subscribed, ToSet
      <3>3. \A i \in DOMAIN list :
              list[i] <= receiverIdCounter /\ owner[list[i]] \in Contexts
        BY <2>2, <3>2 DEF CIInv, CInv, IInv, Listed, Owning
      <3>4. \A i \in DOMAIN list : calls[owner[list[i]]][current[t]] = 0
        BY <3>1, <3>3 DEF Fresh
      <3> HIDE DEF list
      <3>5. QED
        BY <1>1, <2>3, <2>5, <3>1, <3>3, <3>4 DEF OnTopic, Apart
    <2>11. Dispatching'
      <3> SUFFICES ASSUME NEW u \in Threads, u # t, stage'[u] = "topic" PROVE OnTopic(u)'
        BY <2>10 DEF Dispatching
      <3>1. OnTopic(u) /\ frame'[<<u, 1>>] = frame[<<u, 1>>] /\ depth'[u] = depth[u]
        BY <2>1, <2>6, OtherStacks DEF OnceInv, Dispatching
      <3>2. QED
        BY <1>1, <3>1 DEF OnTopic, Apart
    <2>12. ListedApart'
      BY <1>1, ApartSame DEF OnceInv
    <2>13. OnceTypeOK' /\ Remembered'
      BY <1>1 DEF OnceInv, OnceTypeOK, Remembered
    <2>14. QED
      BY <2>8, <2>9, <2>11, <2>12, <2>13 DEF OnceInv
  <1>4. QED
    BY <1>2, <1>3

(* A thread in the loop of a dispatch is in its lowest frame.              *)
LEMMA LoopFrame ==
  ASSUME CIInv, NEW t \in Threads, NEW op \in {"dispatch", "receive"}, At(t, op)
  PROVE  /\ depth[t] = 1 /\ Top(t) = frame[<<t, 1>>] /\ frame[<<t, 1>>].op = op
         /\ <<t, 1>> \in Slots /\ frame[<<t, 1>>] \in Frames
         /\ \A f : Update(t, f) => frame'[<<t, 1>>] = f /\ depth' = depth
  <1>1. /\ <<t, depth[t]>> \in Slots /\ depth[t] \in Depths
        /\ frame[<<t, depth[t]>>] = Top(t) /\ Top(t) \in Frames /\ Top(t).op = op
    BY AtSlot, TopSlot DEF CIInv, IInv
  <1>2. depth[t] = 1
    BY <1>1 DEF CIInv, CInv, Staged
  <1>3. QED
    BY <1>1, <1>2 DEF Update, CIInv, IInv, TypeOK

(* A step in the loop of a dispatch by t that leaves the pool alone: what  *)
(* is to be seen is the dispatch itself and whom it has called.            *)
LEMMA LoopOnce ==
  ASSUME CIInv, OnceInv, NEW t \in Threads,
         UNCHANGED <<topicOf, pool, stage, current, owner, topicReceivers, receiverIdCounter>>,
         OnceTypeOK', Remembered',
         stage[t] = "topic" => OnTopic(t)',
         \A u \in Threads : u # t =>
           /\ frame'[<<u, 1>>] = frame[<<u, 1>>] /\ depth'[u] = depth[u]
           /\ calling'[u] = calling[u],
         \/ calls' = calls
         \/ /\ stage[t] = "topic"
            /\ \A c \in Contexts, m \in Msgs : m # current[t] => calls'[c][m] = calls[c][m]
  PROVE  OnceInv'
  <1>1. \A u \in Threads : InHand(u) => current[u] \in Msgs
    <2>1. \A u \in Threads : InHand(u) => current[u] \in 1..Len(topicOf)
      BY DEF OnceInv, Queued
    <2>2. Len(topicOf) \in Nat /\ Len(topicOf) <= MaxMsgs
      BY DEF OnceInv, OnceTypeOK, CIInv, CInv, CTypeOK
    <2>3. 1..Len(topicOf) \subseteq Msgs
      BY <2>2, ContextsAssumption DEF Msgs
    <2>4. QED
      BY <2>1, <2>3
  <1>2. \A c \in Contexts, m \in Msgs :
          stage[t] # "topic" \/ m # current[t] => calls'[c][m] = calls[c][m]
    OBVIOUS
  <1>3. Queued'
    BY DEF OnceInv, Queued, InHand
  <1>4. Uncalled'
    <2>1. ASSUME NEW m \in Msgs, Fresh(m), stage[t] = "topic" => m # current[t]
          PROVE  Fresh(m)'
      BY <1>2, <2>1 DEF Fresh
    <2>2. \A m \in Msgs : m > Len(topicOf) => Fresh(m)'
      <3> SUFFICES ASSUME NEW m \in Msgs, m > Len(topicOf) PROVE Fresh(m)'
        OBVIOUS
      <3>1. Fresh(m)
        BY DEF OnceInv, Uncalled
      <3>2. stage[t] = "topic" => current[t] \in 1..Len(topicOf) /\ Len(topicOf) \in Nat
        BY DEF OnceInv, Queued, InHand, CIInv, CInv, CTypeOK
      <3>3. QED
        BY <2>1, <3>1, <3>2 DEF Msgs
    <2>3. \A i \in DOMAIN pool : Fresh(pool[i])'
      <3> SUFFICES ASSUME NEW i \in DOMAIN pool PROVE Fresh(pool[i])'
        OBVIOUS
      <3>1. pool[i] \in 1..Len(topicOf) /\ Len(topicOf) \in Nat
        BY DEF CIInv, CInv, CTypeOK
      <3>2. pool[i] \in Msgs
        BY <3>1, ContextsAssumption DEF OnceInv, OnceTypeOK, Msgs
      <3>3. stage[t] = "topic" => current[t] < pool[i] /\ current[t] \in Nat
        BY DEF OnceInv, Queued, InHand, CIInv, CInv, CTypeOK
      <3>4. Fresh(pool[i])
        BY DEF OnceInv, Uncalled
      <3>5. pool[i] \in Nat
        BY <3>1
      <3>6. QED
        BY <2>1, <3>2, <3>3, <3>4, <3>5
    <2>4. \A u \in Threads : stage[u] = "picked" => Fresh(current[u])'
      <3> SUFFICES ASSUME NEW u \in Threads, stage[u] = "picked" PROVE Fresh(current[u])'
        OBVIOUS
      <3>1. current[u] \in Msgs /\ Fresh(current[u])
        BY <1>1 DEF OnceInv, Uncalled, InHand
      <3>2. stage[t] = "topic" => current[u] # current[t]
        BY DEF OnceInv, Queued, InHand
      <3>3. QED
        BY <2>1, <3>1, <3>2
    <2>5. QED
      BY <2>2, <2>3, <2>4 DEF Uncalled, Fresh
  <1>5. Dispatching'
    <2> SUFFICES ASSUME NEW u \in Threads, u # t, stage[u] = "topic" PROVE OnTopic(u)'
      BY DEF Dispatching
    <2>1. OnTopic(u) /\ current[u] \in Msgs
      BY <1>1 DEF OnceInv, Dispatching, InHand
    <2>2. stage[t] = "topic" => current[u] # current[t]
      BY DEF OnceInv, Queued, InHand
    <2>3. \A c \in Contexts : calls'[c][current[u]] = calls[c][current[u]]
      BY <1>2, <2>1, <2>2
    <2>4. frame[<<u, 1>>].op = "receive" => owner[frame[<<u, 1>>].rec] \in Contexts
      BY ReceiversAssumption DEF CIInv, CInv, IInv, Receiving, Owning, Slots, Depths
    <2>5. QED
      BY <2>1, <2>3, <2>4 DEF OnTopic, Apart
  <1>6. ListedApart'
    BY ApartSame DEF OnceInv
  <1>7. QED
    BY <1>3, <1>4, <1>5, <1>6 DEF OnceInv

(* A receiver that is gone is passed over.                                 *)
LEMMA ReceiveGoneOnce ==
  ASSUME CIInv, OnceInv, NEW t \in Threads, ReceiveGone(t)
  PROVE  OnceInv'
  <1> DEFINE f == frame[<<t, 1>>]
             g == [f EXCEPT !.ids = Tail(@)]
  <1>1. /\ At(t, "dispatch") /\ Top(t).ids # <<>>
        /\ Update(t, [Top(t) EXCEPT !.ids = Tail(@)])
        /\ UNCHANGED <<calls, lastMsgId, calling, topicOf, pool, stage, current, owner,
                       topicReceivers, receiverIdCounter>>
    BY DEF ReceiveGone, ReceiveSkip, cvars, contextVars, executorVars, poolVars
  <1>2. /\ Top(t) = f /\ f.op = "dispatch" /\ f \in Frames /\ depth' = depth
        /\ frame'[<<t, 1>>] = g /\ f = frame[<<t, 1>>]
    BY <1>1, LoopFrame
  <1>3. f.ids \in Seq(Ids) /\ f.ids # <<>> /\ g.ids = Tail(f.ids) /\ g.op = "dispatch"
    BY <1>1, <1>2 DEF Frames
  <1> HIDE DEF f, g
  <1>4. ASSUME stage[t] = "topic" PROVE OnTopic(t)'
    <2>1. OnTopic(t)
      BY <1>4 DEF OnceInv, Dispatching
    <2>2. /\ Apart(Tail(f.ids))
          /\ \A i \in DOMAIN Tail(f.ids) : i + 1 \in DOMAIN f.ids /\ Tail(f.ids)[i] = f.ids[i + 1]
      BY <1>3, <2>1, ApartTail DEF OnTopic, f
    <2>3. \A i, j \in DOMAIN g.ids : owner[g.ids[i]] = owner[g.ids[j]] => i = j
      BY <1>3, <2>2 DEF Apart
    <2>4. /\ depth[t] > 0
          /\ \A i \in DOMAIN f.ids :
               /\ f.ids[i] <= receiverIdCounter
               /\ owner[f.ids[i]] \in Contexts
               /\ calls[owner[f.ids[i]]][current[t]] = 0
      BY <1>2, <2>1 DEF OnTopic
    <2>5. \A i \in DOMAIN g.ids :
            /\ g.ids[i] <= receiverIdCounter
            /\ owner[g.ids[i]] \in Contexts
            /\ calls[owner[g.ids[i]]][current[t]] = 0
      BY <1>3, <2>2, <2>4
    <2>6. QED
      BY <1>1, <1>2, <1>3, <2>3, <2>4, <2>5 DEF OnTopic, Apart
  <1>5. \A u \in Threads : u # t =>
          frame'[<<u, 1>>] = frame[<<u, 1>>] /\ depth'[u] = depth[u]
    BY <1>1, OtherStacks
  <1>6. OnceTypeOK' /\ Remembered'
    BY <1>1 DEF OnceInv, OnceTypeOK, Remembered
  <1>7. QED
    BY <1>1, <1>4, <1>5, <1>6, LoopOnce

(* A context is called: not for the first time would contradict OnTopic.   *)
LEMMA ReceiveOnce ==
  ASSUME CIInv, OnceInv, NEW t \in Threads, Receive(t)
  PROVE  OnceInv'
  <1> DEFINE f == frame[<<t, 1>>]
             id == Head(f.ids)
             g == [f EXCEPT !.op = "receive", !.rec = id, !.ids = Tail(@),
                            !.called = Append(@, id)]
             c == owner[id]
  <1>1. /\ At(t, "dispatch") /\ Top(t).ids # <<>>
        /\ Listens(Top(t).topic, Head(Top(t).ids))
        /\ Update(t, [Top(t) EXCEPT !.op = "receive", !.rec = Head(Top(t).ids),
                        !.ids = Tail(@), !.called = Append(@, Head(Top(t).ids))])
        /\ UNCHANGED <<lastMsgId, topicOf, pool, stage, current, owner,
                       topicReceivers, receiverIdCounter>>
    BY DEF Receive, ReceiveBegin, poolVars
  <1>2. /\ Top(t) = f /\ f.op = "dispatch" /\ f \in Frames /\ depth' = depth /\ depth[t] = 1
        /\ frame'[<<t, 1>>] = g
    BY <1>1, LoopFrame
  <1>3. /\ f.ids \in Seq(Ids) /\ f.ids # <<>> /\ g.ids = Tail(f.ids)
        /\ g.op = "receive" /\ g.rec = id /\ Top(t)'.rec = id
    BY <1>1, <1>2 DEF Frames, Top
  <1>4. /\ calling' = [calling EXCEPT ![t] = MsgId(t) # lastMsgId[c]]
        /\ calls' = IF calling'[t] /\ MsgId(t) # SentId
                      THEN [calls EXCEPT ![c][MsgId(t)] = @ + 1] ELSE calls
    BY <1>3 DEF Receive
  <1>5. id \in Ids /\ 1 \in DOMAIN f.ids /\ id = f.ids[1]
    BY <1>3
  <1> HIDE DEF f, g, id
  <1>6. c \in Contexts
    <2>1. id \in Subscribed(f.topic) /\ f.topic \in Topics
      BY <1>1, <1>2 DEF Listens, id
    <2>2. QED
      BY <1>5, <2>1 DEF CIInv, CInv, IInv, Listed, Owning
  <1> HIDE DEF c
  <1>7. \A u \in Threads : u # t =>
          /\ frame'[<<u, 1>>] = frame[<<u, 1>>] /\ depth'[u] = depth[u]
          /\ calling'[u] = calling[u]
    BY <1>1, <1>4, OtherStacks DEF OnceInv, OnceTypeOK
  <1>8. calling' \in [Threads -> BOOLEAN] /\ calling'[t] = (MsgId(t) # lastMsgId[c])
    BY <1>4 DEF OnceInv, OnceTypeOK
  <1>9. CASE stage[t] # "topic"
    <2>1. calls' = calls
      BY <1>4, <1>9 DEF MsgId
    <2>2. OnceTypeOK' /\ Remembered'
      BY <1>1, <1>8, <2>1 DEF OnceInv, OnceTypeOK, Remembered
    <2>3. QED
      BY <1>1, <1>7, <1>9, <2>1, <2>2, LoopOnce
  <1>10. CASE stage[t] = "topic"
    <2> DEFINE m == current[t]
    <2>1. OnTopic(t)
      BY <1>10 DEF OnceInv, Dispatching
    <2>2. m \in Msgs /\ MsgId(t) = m /\ m # SentId
      <3>1. m \in 1..Len(topicOf) /\ Len(topicOf) \in Nat /\ Len(topicOf) <= MaxMsgs
        BY <1>10 DEF OnceInv, Queued, InHand, OnceTypeOK, CIInv, CInv, CTypeOK
      <3>2. QED
        BY <1>10, <3>1, ContextsAssumption DEF MsgId, SentId, Msgs
    <2>3. calls[c][m] = 0
      BY <1>5, <2>1 DEF OnTopic, f, c
    <2>4. lastMsgId[c] # m
      BY <1>6, <2>2, <2>3 DEF OnceInv, Remembered
    <2> HIDE DEF m
    <2>5. calling'[t] = TRUE /\ calls' = [calls EXCEPT ![c][m] = @ + 1]
      BY <1>4, <1>8, <2>2, <2>4
    <2>6. /\ calls' \in [Contexts -> [Msgs -> {0, 1}]]
          /\ calls'[c][m] = 1
          /\ \A e \in Contexts, n \in Msgs : e # c \/ n # m => calls'[e][n] = calls[e][n]
      <3>1. calls \in [Contexts -> [Msgs -> {0, 1}]] /\ calls[c] \in [Msgs -> {0, 1}]
        BY <1>6 DEF OnceInv, OnceTypeOK
      <3>2. calls' = [calls EXCEPT ![c] = [calls[c] EXCEPT ![m] = 1]]
        BY <2>3, <2>5, <3>1
      <3>3. QED
        BY <1>6, <2>2, <3>1, <3>2
    <2>7. OnceTypeOK'
      BY <1>1, <1>8, <2>6 DEF OnceInv, OnceTypeOK
    <2>8. Remembered'
      BY <1>1, <2>2, <2>6 DEF OnceInv, Remembered
    <2>9. OnTopic(t)'
      <3>1. /\ Apart(Tail(f.ids))
            /\ \A i \in DOMAIN Tail(f.ids) :
                 /\ i + 1 \in DOMAIN f.ids /\ Tail(f.ids)[i] = f.ids[i + 1]
                 /\ owner[Tail(f.ids)[i]] # c
        BY <1>3, <2>1, ApartTail DEF OnTopic, f, c, id
      <3>2. \A i \in DOMAIN f.ids : /\ f.ids[i] <= receiverIdCounter
                                    /\ owner[f.ids[i]] \in Contexts
                                    /\ calls[owner[f.ids[i]]][m] = 0
        BY <2>1 DEF OnTopic, f, m
      <3>3. \A i \in DOMAIN Tail(f.ids) : /\ Tail(f.ids)[i] <= receiverIdCounter
                                          /\ owner[Tail(f.ids)[i]] \in Contexts
                                          /\ calls'[owner[Tail(f.ids)[i]]][m] = 0
        BY <2>2, <2>6, <3>1, <3>2
      <3>4. depth'[t] > 0 /\ calls'[owner[g.rec]][m] = 1
        BY <1>2, <1>3, <2>6 DEF c
      <3>5. QED
        BY <1>1, <1>2, <1>3, <2>5, <3>1, <3>3, <3>4 DEF OnTopic, Apart, m
    <2>10. \A e \in Contexts, n \in Msgs : n # current[t] => calls'[e][n] = calls[e][n]
      BY <2>6 DEF m
    <2>11. QED
      BY <1>1, <1>7, <1>10, <2>7, <2>8, <2>9, <2>10, LoopOnce
  <1>11. QED
    BY <1>9, <1>10

(* A context remembers a message it has been called for.                   *)
LEMMA ReceiveReturnOnce ==
  ASSUME CIInv, OnceInv, NEW t \in Threads, ReceiveReturn(t)
  PROVE  OnceInv'
  <1> DEFINE f == frame[<<t, 1>>]
             g == [f EXCEPT !.op = "dispatch", !.rec = 0]
             c == owner[f.rec]
  <1>1. /\ At(t, "receive")
        /\ Update(t, [Top(t) EXCEPT !.op = "dispatch", !.rec = 0])
        /\ calling' = [calling EXCEPT ![t] = FALSE]
        /\ lastMsgId' = IF calling[t] THEN [lastMsgId EXCEPT ![owner[Top(t).rec]] = MsgId(t)]
                        ELSE lastMsgId
        /\ UNCHANGED <<calls, topicOf, pool, stage, current, owner,
                       topicReceivers, receiverIdCounter>>
    BY DEF ReceiveReturn, ReceiveEnd, poolVars
  <1>2. /\ Top(t) = f /\ f.op = "receive" /\ f \in Frames /\ depth' = depth
        /\ <<t, 1>> \in Slots /\ frame'[<<t, 1>>] = g
    BY <1>1, LoopFrame
  <1>3. g.ids = f.ids /\ g.op = "dispatch"
    BY <1>2 DEF Frames
  <1> HIDE DEF f, g
  <1>4. c \in Contexts
    <2>1. f.rec \in Ids /\ heap[f.rec] = "live"
      BY <1>2 DEF CIInv, IInv, Receiving, f
    <2>2. QED
      BY <2>1 DEF CIInv, CInv, Owning
  <1>5. lastMsgId' = IF calling[t] THEN [lastMsgId EXCEPT ![c] = MsgId(t)] ELSE lastMsgId
    BY <1>1, <1>2
  <1>6. stage[t] = "topic" => calls[c][current[t]] = 1
    BY <1>2 DEF OnceInv, Dispatching, OnTopic, f
  <1> HIDE DEF c
  <1>7. MsgId(t) \in Nat /\ (MsgId(t) \in Msgs => stage[t] = "topic" /\ MsgId(t) = current[t])
    BY DEF MsgId, SentId, Msgs, CIInv, CInv, CTypeOK
  <1>8. OnceTypeOK'
    BY <1>1, <1>4, <1>5, <1>7 DEF OnceInv, OnceTypeOK
  <1>9. Remembered'
    <2> SUFFICES ASSUME NEW e \in Contexts, lastMsgId'[e] \in Msgs
                 PROVE  calls[e][lastMsgId'[e]] = 1
      BY <1>1 DEF Remembered
    <2>1. lastMsgId'[e] = IF calling[t] /\ e = c THEN MsgId(t) ELSE lastMsgId[e]
      BY <1>5 DEF OnceInv, OnceTypeOK
    <2>2. QED
      BY <1>6, <1>7, <2>1 DEF OnceInv, Remembered
  <1>10. stage[t] = "topic" => OnTopic(t)'
    BY <1>1, <1>2, <1>3 DEF OnceInv, Dispatching, OnTopic, Apart, f
  <1>11. \A u \in Threads : u # t =>
          /\ frame'[<<u, 1>>] = frame[<<u, 1>>] /\ depth'[u] = depth[u]
          /\ calling'[u] = calling[u]
    BY <1>1, OtherStacks DEF OnceInv, OnceTypeOK
  <1>12. QED
    BY <1>1, <1>8, <1>9, <1>10, <1>11, LoopOnce

(* Every step keeps it.                                                    *)
LEMMA NextOnceInv == CIInv /\ OnceInv /\ [CNext]_allvars => OnceInv'
  <1> SUFFICES ASSUME CIInv, OnceInv, [CNext]_allvars PROVE OnceInv'
    OBVIOUS
  <1>1. CASE UNCHANGED allvars
    <2>1. /\ UNCHANGED <<calls, lastMsgId, calling, topicOf, pool, stage, current, owner>>
          /\ UNCHANGED <<receiverIdCounter, topicReceivers, frame, depth>>
      BY <1>1 DEF allvars, vars, cvars, contextVars, executorVars, poolVars
    <2>2. ListedApart'
      BY <2>1, ApartSame DEF OnceInv
    <2>3. QED
      BY <2>1, <2>2, OnceSame DEF OnceInv, Dispatching, OnTopic
  <1>2. CASE CNext
    <2>1. ASSUME NEW t \in Threads, NEW c \in Contexts, ContextCall(t, c) PROVE OnceInv'
      BY <2>1, QuietOnce, AddTopicOnce, RemoveTopicOnce DEF ContextCall
    <2>2. ASSUME NEW t \in Threads, ContextStep(t) PROVE OnceInv'
      BY <2>2, RemovalOnce, PublishTopicOnce, QuietOnce, PickMessageOnce, DispatchTopicOnce,
         DispatchEndOnce, ReceiveOnce, ReceiveGoneOnce DEF ContextStep
    <2>3. ASSUME NEW t \in Threads, ReceiveReturn(t) PROVE OnceInv'
      BY <2>3, ReceiveReturnOnce
    <2>4. QED
      BY <1>2, <2>1, <2>2, <2>3 DEF CNext
  <1>3. QED
    BY <1>1, <1>2

(* CalledOnce: no context is called back twice for one message, and the    *)
(* comparison with lastMsgId keeps none from it, whatever is subscribed,   *)
(* removed or published at the same time.                                  *)
THEOREM OneCallPerMessage == CSpec => []CalledOnce
  <1>1. CIInv /\ OnceInv => CalledOnce
    <2> SUFFICES ASSUME CIInv, OnceInv PROVE CalledOnce
      OBVIOUS
    <2>1. \A c \in Contexts, m \in Msgs : calls[c][m] <= 1
      BY DEF OnceInv, OnceTypeOK
    <2>2. ASSUME NEW t \in Executors, At(t, "receive"), stage[t] = "topic" PROVE calling[t]
      <3>1. t \in Threads
        BY ContextsAssumption
      <3>2. frame[<<t, 1>>].op = "receive"
        BY <2>2, <3>1, LoopFrame
      <3>3. QED
        BY <2>2, <3>1, <3>2 DEF OnceInv, Dispatching, OnTopic
    <2>3. QED
      BY <2>1, <2>2 DEF CalledOnce
  <1>2. QED
    BY <1>1, InitOnceInv, NextOnceInv, ContextsInvariance, PTL DEF CSpec
=============================================================================
