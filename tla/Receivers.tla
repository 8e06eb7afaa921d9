------------------------------ MODULE Receivers ------------------------------
(***************************************************************************)
(* The receiver registry of TMQDispatcher: the part of the dispatcher that *)
(* subscribes, finds, invokes and unsubscribes receivers under             *)
(* receiverMutex.                                                          *)
(*                                                                         *)
(* Every critical section of the code is one action: nothing inside a      *)
(* section of receiverMutex blocks, so the steps of other threads fall     *)
(* between sections only.  What happens outside the mutex (the callback,   *)
(* the wait of RemoveReceiver, the delete, the dereference in              *)
(* FindReceiver) is a step of its own.                                     *)
(*                                                                         *)
(* A callback may call the dispatcher again, so a thread is a stack of     *)
(* frames: frame[t, 1] .. frame[t, depth[t]], the last one being on top.   *)
(***************************************************************************)
EXTENDS Naturals, FiniteSets, SequencesExt

CONSTANTS
  Topics,        \* the topics receivers subscribe to
  NoTopic,       \* the topic of a frame that has none
  Threads,       \* publishers, executors and clients
  MaxReceivers,  \* bound: AddReceiver calls, hence ids handed out
  MaxDepth,      \* bound: dispatcher calls nested through callbacks
  CallbackOps    \* the operations user code calls from OnReceive

Ops == {"add", "remove", "find", "dispatch"}

ASSUME ReceiversAssumption ==
  /\ NoTopic \notin Topics
  /\ MaxReceivers \in Nat
  /\ MaxDepth \in Nat \ {0}
  /\ CallbackOps \subseteq Ops
  /\ IsFiniteSet(Threads)

VARIABLES
  topicReceivers,     \* topic |-> ids of its receivers, oldest first
  runningReceivers,   \* id |-> how often it is in the list of that name
  receiverIdCounter,  \* the last id handed out
  heap,               \* id |-> what became of its TMQDispatcherReceiver
  acks,               \* id |-> RemoveReceiver(id) calls that returned true
                      \*        (history variable, saturates at 2)
  frame, depth        \* the call stack of every thread

vars == <<topicReceivers, runningReceivers, receiverIdCounter, heap, acks,
          frame, depth>>

-----------------------------------------------------------------------------
Ids == 1..MaxReceivers
Depths == 1..MaxDepth
Slots  == Threads \X Depths   \* the places of a frame

(* What a frame is doing.  "dispatch": in the loop of dispatchMessage,     *)
(* between two receivers; "receive": the same frame inside OnReceive;      *)
(* "wait" and "delete": RemoveReceiver before and after its spin loop;     *)
(* "found": FindReceiver after it left the mutex.                          *)
FrameOps == {"idle", "dispatch", "receive", "wait", "delete", "found"}

Frames == [op     : FrameOps,
           topic  : Topics \cup {NoTopic},
           ids    : Seq(Ids),     \* receivers this dispatch has still to call
           rec    : 0..MaxReceivers,  \* the receiver the frame works on
           upto   : 0..MaxReceivers,  \* receiverIdCounter at the snapshot
           called : Seq(Ids)]     \* receivers this dispatch has called

NoFrame == [op |-> "idle", topic |-> NoTopic, ids |-> <<>>, rec |-> 0,
            upto |-> 0, called |-> <<>>]

Top(t) == frame[<<t, depth[t]>>]

(* Thread t is in user code: outside the dispatcher, or in a callback that *)
(* may call op.                                                            *)
InUserCode(t, op) ==
  \/ depth[t] = 0
  \/ depth[t] > 0 /\ Top(t).op = "receive" /\ op \in CallbackOps

At(t, op) == depth[t] > 0 /\ Top(t).op = op

Push(t, f) ==
  /\ depth[t] < MaxDepth
  /\ depth' = [depth EXCEPT ![t] = @ + 1]
  /\ frame' = [frame EXCEPT ![<<t, depth[t] + 1>>] = f]

Pop(t) ==
  /\ depth' = [depth EXCEPT ![t] = @ - 1]
  /\ frame' = [frame EXCEPT ![<<t, depth[t]>>] = NoFrame]

Update(t, f) ==
  /\ frame' = [frame EXCEPT ![<<t, depth[t]>>] = f]
  /\ UNCHANGED depth

Subscribed(topic) == ToSet(topicReceivers[topic])
IsSubscribed(id)  == \E topic \in Topics : id \in Subscribed(topic)

(* There is a list of this name and it holds the id.                       *)
Listens(topic, id) == topic \in Topics /\ id \in Subscribed(topic)

(* The return value of RemoveReceiver(id), counted when it is true.        *)
Acknowledge(id) == [acks EXCEPT ![id] = IF @ < 2 THEN @ + 1 ELSE @]

-----------------------------------------------------------------------------
Init ==
  /\ topicReceivers    = [topic \in Topics |-> <<>>]
  /\ runningReceivers  = [id \in Ids |-> 0]
  /\ receiverIdCounter = 0
  /\ heap              = [id \in Ids |-> "none"]
  /\ acks              = [id \in Ids |-> 0]
  /\ frame             = [s \in Slots |-> NoFrame]
  /\ depth             = [t \in Threads |-> 0]

(* Mutant: the new receiver goes to the front of the list.                 *)
AddReceiverFirst(t, topic) ==
  LET id == receiverIdCounter + 1 IN
  /\ InUserCode(t, "add")
  /\ receiverIdCounter < MaxReceivers
  /\ receiverIdCounter' = id
  /\ topicReceivers' = [topicReceivers EXCEPT ![topic] = <<id>> \o @]
  /\ heap' = [heap EXCEPT ![id] = "live"]
  /\ UNCHANGED <<runningReceivers, acks, frame, depth>>

(* AddReceiver: a fresh id, appended to the list of its topic.             *)
AddReceiver(t, topic) ==
  LET id == receiverIdCounter + 1 IN
  /\ InUserCode(t, "add")
  /\ receiverIdCounter < MaxReceivers
  /\ receiverIdCounter' = id
  /\ topicReceivers' = [topicReceivers EXCEPT ![topic] = Append(@, id)]
  /\ heap' = [heap EXCEPT ![id] = "live"]
  /\ UNCHANGED <<runningReceivers, acks, frame, depth>>

(* Mutant: the receiver stays in its list until it is deleted.             *)
RemoveListedKept(t, id) ==
  /\ InUserCode(t, "remove")
  /\ IsSubscribed(id)
  /\ Push(t, [NoFrame EXCEPT !.op = "wait", !.rec = id])
  /\ UNCHANGED <<topicReceivers, runningReceivers, receiverIdCounter, heap,
                 acks>>

(* RemoveReceiver, when a list holds the id: it leaves the list at once;   *)
(* the thread then waits for the running callbacks of this receiver.       *)
RemoveListed(t, id) ==
  /\ InUserCode(t, "remove")
  /\ \E topic \in Topics : \E j \in DOMAIN topicReceivers[topic] :
       /\ topicReceivers[topic][j] = id
       /\ topicReceivers' = [topicReceivers EXCEPT ![topic] = RemoveAt(@, j)]
  /\ Push(t, [NoFrame EXCEPT !.op = "wait", !.rec = id])
  /\ UNCHANGED <<runningReceivers, receiverIdCounter, heap, acks>>

(* RemoveReceiver, when no list holds the id: "return receiverId", which   *)
(* is true for every id but 0.                                             *)
RemoveUnlisted(t, id) ==
  /\ InUserCode(t, "remove")
  /\ ~IsSubscribed(id)
  /\ acks' = Acknowledge(id)
  /\ UNCHANGED <<topicReceivers, runningReceivers, receiverIdCounter, heap,
                 frame, depth>>

(* Mutant: no wait for the running callbacks.                              *)
RemoveWaitNot(t) ==
  /\ At(t, "wait")
  /\ Update(t, [Top(t) EXCEPT !.op = "delete"])
  /\ UNCHANGED <<topicReceivers, runningReceivers, receiverIdCounter, heap,
                 acks>>

(* The spin loop of RemoveReceiver ends when the receiver is not running.  *)
RemoveWait(t) ==
  /\ At(t, "wait")
  /\ runningReceivers[Top(t).rec] = 0
  /\ Update(t, [Top(t) EXCEPT !.op = "delete"])
  /\ UNCHANGED <<topicReceivers, runningReceivers, receiverIdCounter, heap,
                 acks>>

(* delete dispatcherReceiver; return true.                                 *)
RemoveDelete(t) ==
  /\ At(t, "delete")
  /\ heap' = [heap EXCEPT ![Top(t).rec] = "freed"]
  /\ acks' = Acknowledge(Top(t).rec)
  /\ Pop(t)
  /\ UNCHANGED <<topicReceivers, runningReceivers, receiverIdCounter>>

(* FindReceiver takes the pointer out of the critical section ...          *)
FindReceiver(t, id) ==
  /\ InUserCode(t, "find")
  /\ IsSubscribed(id)
  /\ Push(t, [NoFrame EXCEPT !.op = "found", !.rec = id])
  /\ UNCHANGED <<topicReceivers, runningReceivers, receiverIdCounter, heap,
                 acks>>

(* ... and dereferences it afterwards.                                     *)
FindReturn(t) ==
  /\ At(t, "found")
  /\ Pop(t)
  /\ UNCHANGED <<topicReceivers, runningReceivers, receiverIdCounter, heap,
                 acks>>

(* dispatchMessage starts with the snapshot GetTopicReceivers takes.       *)
(* Without receivers the call changes nothing.                             *)
DispatchMessage(t, topic) ==
  /\ InUserCode(t, "dispatch")
  /\ topicReceivers[topic] # <<>>
  /\ Push(t, [NoFrame EXCEPT !.op = "dispatch", !.topic = topic,
                             !.ids = topicReceivers[topic],
                             !.upto = receiverIdCounter])
  /\ UNCHANGED <<topicReceivers, runningReceivers, receiverIdCounter, heap,
                 acks>>

(* Mutant: the id of the snapshot is called without looking it up again.   *)
ReceiveBeginUnchecked(t) ==
  LET f  == Top(t)
      id == Head(f.ids)
  IN
  /\ At(t, "dispatch")
  /\ f.ids # <<>>
  /\ runningReceivers' = [runningReceivers EXCEPT ![id] = @ + 1]
  /\ Update(t, [f EXCEPT !.op = "receive", !.rec = id, !.ids = Tail(@),
                         !.called = Append(@, id)])
  /\ UNCHANGED <<topicReceivers, receiverIdCounter, heap, acks>>

(* OnRunningReceiver up to the call of OnReceive: the next id of the       *)
(* snapshot is still subscribed and is marked as running.                  *)
ReceiveBegin(t) ==
  LET f  == Top(t)
      id == Head(f.ids)
  IN
  /\ At(t, "dispatch")
  /\ f.ids # <<>>
  /\ Listens(f.topic, id)
  /\ runningReceivers' = [runningReceivers EXCEPT ![id] = @ + 1]
  /\ Update(t, [f EXCEPT !.op = "receive", !.rec = id, !.ids = Tail(@),
                         !.called = Append(@, id)])
  /\ UNCHANGED <<topicReceivers, receiverIdCounter, heap, acks>>

(* Mutant: a receiver that is gone ends the dispatch.                      *)
ReceiveSkipRest(t) ==
  LET f == Top(t) IN
  /\ At(t, "dispatch")
  /\ f.ids # <<>>
  /\ ~Listens(f.topic, Head(f.ids))
  /\ Update(t, [f EXCEPT !.ids = <<>>])
  /\ UNCHANGED <<topicReceivers, runningReceivers, receiverIdCounter, heap,
                 acks>>

(* OnRunningReceiver when the receiver has been unsubscribed meanwhile.    *)
ReceiveSkip(t) ==
  LET f == Top(t) IN
  /\ At(t, "dispatch")
  /\ f.ids # <<>>
  /\ ~Listens(f.topic, Head(f.ids))
  /\ Update(t, [f EXCEPT !.ids = Tail(@)])
  /\ UNCHANGED <<topicReceivers, runningReceivers, receiverIdCounter, heap,
                 acks>>

(* OnReceive returned: one entry with this id leaves runningReceivers.     *)
ReceiveEnd(t) ==
  LET f == Top(t) IN
  /\ At(t, "receive")
  /\ runningReceivers' = [runningReceivers EXCEPT
                            ![f.rec] = IF @ > 0 THEN @ - 1 ELSE @]
  /\ Update(t, [f EXCEPT !.op = "dispatch", !.rec = 0])
  /\ UNCHANGED <<topicReceivers, receiverIdCounter, heap, acks>>

(* The loop of dispatchMessage is through.                                 *)
DispatchReturn(t) ==
  /\ At(t, "dispatch")
  /\ Top(t).ids = <<>>
  /\ Pop(t)
  /\ UNCHANGED <<topicReceivers, runningReceivers, receiverIdCounter, heap,
                 acks>>

(* What user code may call, with the ids it may know.                      *)
UserCall(t) ==
  \/ \E topic \in Topics : AddReceiver(t, topic)
  \/ \E topic \in Topics : DispatchMessage(t, topic)
  \/ \E id \in 1..receiverIdCounter : RemoveListed(t, id)
  \/ \E id \in 1..receiverIdCounter : RemoveUnlisted(t, id)
  \/ \E id \in 1..receiverIdCounter : FindReceiver(t, id)

(* The dispatcher's own steps.                                             *)
DispatcherStep(t) ==
  \/ RemoveWait(t)
  \/ RemoveDelete(t)
  \/ FindReturn(t)
  \/ ReceiveBegin(t)
  \/ ReceiveSkip(t)
  \/ DispatchReturn(t)

Next == \E t \in Threads : UserCall(t) \/ DispatcherStep(t) \/ ReceiveEnd(t)

(* The scheduler runs every thread, and every callback returns, at         *)
(* whatever depth it was called ("deal with the message as soon as         *)
(* possible", TMQTopic.h:133).  No thread has to call the dispatcher.      *)
Fairness ==
  /\ \A t \in Threads : WF_vars(DispatcherStep(t))
  /\ \A t \in Threads : \A d \in Depths :
       SF_vars(ReceiveEnd(t) /\ depth[t] = d)

Spec     == Init /\ [][Next]_vars
FairSpec == Spec /\ Fairness

-----------------------------------------------------------------------------
(* Type invariant.                                                         *)
TypeOK ==
  /\ topicReceivers \in [Topics -> Seq(Ids)]
  /\ runningReceivers \in [Ids -> Nat]
  /\ receiverIdCounter \in 0..MaxReceivers
  /\ heap \in [Ids -> {"none", "live", "freed"}]
  /\ acks \in [Ids -> 0..2]
  /\ frame \in [Slots -> Frames]
  /\ depth \in [Threads -> 0..MaxDepth]

(* The frames inside OnReceive of receiver id.                             *)
Runners(id) == {s \in Slots : frame[s].op = "receive" /\ frame[s].rec = id}

(* A callback in progress belongs to a receiver whose wrapper is still     *)
(* allocated: OnRunningReceiver reads receiver->receiver and, after the    *)
(* callback, the id of every entry of runningReceivers; and no callback    *)
(* runs once the RemoveReceiver that took the receiver out has returned.   *)
RunningReceiverIsLive ==
  \A id \in Ids : (Runners(id) # {} \/ runningReceivers[id] > 0) => heap[id] = "live"

(* Two concurrent RemoveReceiver calls never delete the same wrapper, and  *)
(* no list leads to a wrapper that is being or has been deleted.           *)
DeletedOnce ==
  /\ \A s1, s2 \in Slots :
       /\ frame[s1].op \in {"wait", "delete"}
       /\ frame[s2].op \in {"wait", "delete"}
       /\ frame[s1].rec = frame[s2].rec
       => s1 = s2
  /\ \A s \in Slots : frame[s].op \in {"wait", "delete"} =>
       heap[frame[s].rec] = "live" /\ ~IsSubscribed(frame[s].rec)
  /\ \A topic \in Topics : \A id \in Subscribed(topic) : heap[id] = "live"

(* A dispatch calls the receivers of its topic oldest first ("Receivers    *)
(* registered more early will be invoked more fast", TMQDispatcher.h:99)   *)
(* and none of them twice, whatever is subscribed or removed meanwhile.    *)
Increasing(s) == \A i, j \in DOMAIN s : i < j => s[i] < s[j]

CalledInOrder ==
  \A s \in Slots : Increasing(frame[s].called \o frame[s].ids)

(* A dispatch misses no receiver: one that was subscribed when it started  *)
(* and is subscribed still has been called or is going to be.              *)
NobodyMissed ==
  \A s \in Slots : frame[s].op \in {"dispatch", "receive"} =>
    \A id \in Subscribed(frame[s].topic) :
      id <= frame[s].upto =>
        id \in ToSet(frame[s].called) \cup ToSet(frame[s].ids)

(* A receiver whose removal has begun is never started again: the number   *)
(* of its running callbacks only falls.                                    *)
NoStartAfterRemoval ==
  [][\A s \in Slots : frame[s].op \in {"wait", "delete"} =>
       runningReceivers'[frame[s].rec] <= runningReceivers[frame[s].rec]]_vars

(* RemoveReceiver returns: its spin loop ends, whatever the other threads  *)
(* publish or subscribe.                                                   *)
RemoveReturns ==
  \A s \in Slots : frame[s].op = "wait" ~> frame[s].op # "wait"

(* Every dispatch ends.                                                    *)
DispatchEnds ==
  \A t \in Threads : depth[t] > 0 ~> depth[t] = 0

-----------------------------------------------------------------------------
(* Claims of the documentation that the code does not keep.                *)

(* "the removing will wait until the receiver running to end"              *)
(* (TMQDispatcher.cpp:225): after an UnSubscribe of the receiver has       *)
(* returned, its callback does not run.                                    *)
UnsubscribeIsBarrier ==
  \A id \in Ids : acks[id] > 0 => Runners(id) = {}

(* "a boolean value indicate whether the remove is success or not"         *)
(* (TMQDispatcher.h:202): a receiver is removed successfully once.         *)
RemoveSucceedsOnce == \A id \in Ids : acks[id] <= 1

(* "All these methods are thread safe" (TMQTopic.h:126): FindReceiver      *)
(* never dereferences a wrapper that another thread has deleted.           *)
FindReadsLive ==
  \A s \in Slots : frame[s].op = "found" => heap[frame[s].rec] = "live"
=============================================================================
