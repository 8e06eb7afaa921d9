------------------------------ MODULE Executors ------------------------------
(***************************************************************************)
(* The executors of TMQDispatcher: how a published message gets a thread   *)
(* that dispatches it (Wakeup, OnExecute), how a ThreadExecutor sleeps and *)
(* is woken, and how the dispatcher's destructor ends them.                *)
(*                                                                         *)
(* Messages are numbered in the order in which they enter the queue; all   *)
(* have the same topic and priority.  A publisher enters the queue in two  *)
(* steps, as RCQueue::Enqueue does: it swaps the tail and links the        *)
(* message later, and until then nobody finds it or a message behind it.   *)
(* A thread that picks takes the oldest message first and reads it from    *)
(* the storage then, which may fail; dispatchMessage is the pc "deliver".  *)
(* The look-up itself is one step (RCQueue models it for one user of the   *)
(* iterator).  A section of an executor's mutex is one action;             *)
(* dispatcherMutex is held over many and is a variable.                    *)
(***************************************************************************)
EXTENDS Integers, FiniteSets, SequencesExt

CONSTANTS
  Publishers,          \* threads that publish
  NoThread,            \* nobody owns the mutex
  MaxMessages,         \* bound: messages published
  ArraySize,           \* length of the array executors[]
  InitialMax,          \* maxExecutorCount given to the constructor
  Settings,            \* values the application puts for MAX_EXECUTOR_COUNT
  WakeCount,           \* EXECUTOR_WAKE_COUNT
  Unreadable,          \* messages that TMQStorage::Read may fail to read
  Destroys             \* whether the topic is deleted at the end

ASSUME ExecutorsAssumption ==
  /\ MaxMessages \in Nat
  /\ ArraySize \in Nat \ {0}
  /\ InitialMax \in 1..ArraySize
  /\ Settings \subseteq Nat
  /\ WakeCount \in Nat
  /\ Unreadable \subseteq Nat
  /\ Destroys \in BOOLEAN
  /\ NoThread \notin Publishers \cup 1..ArraySize
  /\ Publishers \cap Nat = {}
  /\ IsFiniteSet(Publishers)

VARIABLES
  queue,                \* messages nobody has picked, oldest first
  published,            \* messages published so far
  setting,              \* MAX_EXECUTOR_COUNT in TMQSettings, -1 if not put
  maxExecutorCount, forceActiveSelf,
  wakeupCount, sentCount, activeExecutorCount,
  dispatcherMutex,      \* its owner
  stop,
  state,                \* ThreadExecutor::state of each executor
  pc, msg, local, at,   \* of every thread: where it is, the message in its
                        \* hands, localSentCount and the loop index
  value,                \* what a Wakeup is about to set, -1 if nothing
  answered,             \* history: messages whose Wakeup started or signalled
                        \* an executor, but for those that waited when a
                        \* thread met a message it could not read
  delivered, unread,    \* history: messages dispatched, and taken but not read
  selves,               \* history: how many publishers dispatched themselves
  closing, closeAt      \* the destructor: where it is and at which executor

config   == <<setting, maxExecutorCount, forceActiveSelf, value>>
counters == <<wakeupCount, sentCount, activeExecutorCount>>
threads  == <<pc, msg, local, at>>
closer   == <<stop, closing, closeAt>>
fates    == <<delivered, unread, selves>>
vars == <<queue, published, config, counters, dispatcherMutex, state, threads,
          answered, fates, closer>>

-----------------------------------------------------------------------------
Messages  == 1..MaxMessages
Executors == 1..ArraySize
Threads   == Publishers \cup Executors

States == {"init", "starting", "ready", "running", "waiting", "ending",
           "release"}

(* Of a publisher: outside; between the two steps of Enqueue; in Wakeup    *)
(* before it reads the setting, with another one to set, before it looks   *)
(* at forceActiveSelf; about to lock; in the loop over the executors.      *)
PublisherPCs ==
  {"outside", "link", "settings", "set", "self", "lock", "scan"}

(* In OnExecute: the loop head, a message taken, a message read, the final *)
(* count.                                                                  *)
DispatchPCs == {"pick", "read", "deliver", "count"}

(* Of an executor's thread: not there; new; the head of its loop; before   *)
(* SetState(RUNNING); after OnExecute; in pthread_cond_wait; past its loop; *)
(* gone.                                                                   *)
ExecutorPCs == {"none", "new", "test", "run", "park", "wait", "end", "gone"}

Go(t, place) == pc' = [pc EXCEPT ![t] = place]

(* wakeupCount - sentCount is unsigned: less than nothing is a lot.        *)
Congested ==
  \/ wakeupCount < sentCount
  \/ wakeupCount - sentCount > activeExecutorCount * WakeCount

(* The publisher of the message has linked it.                             *)
Linked(m) == \A p \in Publishers : pc[p] # "link" \/ msg[p] # m

(* The link behind the last message that was taken leads to the next one.  *)
Found == queue # <<>> /\ Linked(Head(queue))

-----------------------------------------------------------------------------
Init ==
  /\ queue = <<>> /\ published = 0
  /\ setting = -1 /\ value = [p \in Publishers |-> -1]
  /\ maxExecutorCount = InitialMax /\ forceActiveSelf = FALSE
  /\ wakeupCount = 0 /\ sentCount = 0 /\ activeExecutorCount = 0
  /\ dispatcherMutex = NoThread
  /\ state = [e \in Executors |-> "init"]
  /\ pc = [t \in Threads |-> IF t \in Publishers THEN "outside" ELSE "none"]
  /\ msg = [t \in Threads |-> 0]
  /\ local = [t \in Threads |-> 0]
  /\ at = [t \in Threads |-> 0]
  /\ answered = {}
  /\ delivered = {} /\ unread = {} /\ selves = 0
  /\ stop = FALSE /\ closing = "open" /\ closeAt = 0

(* The application puts the setting.  TMQSettings::Put inserts into a tree *)
(* that keeps the value it has, so only the first Put has an effect.       *)
PutSetting(n) ==
  /\ closing = "open"
  /\ setting = -1
  /\ setting' = n
  /\ UNCHANGED <<queue, published, maxExecutorCount, forceActiveSelf, value,
                 counters, dispatcherMutex, state, threads, answered, fates,
                 closer>>

(* Topic::Publish: Enqueue swaps the tail ...  Nobody uses a topic that is *)
(* being deleted.                                                          *)
Publish(p) ==
  /\ pc[p] = "outside" /\ closing = "open"
  /\ published < MaxMessages
  /\ published' = published + 1
  /\ queue' = Append(queue, published + 1)
  /\ msg' = [msg EXCEPT ![p] = published + 1]
  /\ Go(p, "link")
  /\ UNCHANGED <<config, counters, dispatcherMutex, state, local, at,
                 answered, fates, closer>>

UnchangedByWakeup == UNCHANGED <<queue, published, setting, local, delivered,
                                 unread, closer>>

(* ... and links the message.                                              *)
Link(p) ==
  /\ pc[p] = "link"
  /\ Go(p, "settings")
  /\ UnchangedByWakeup
  /\ UNCHANGED <<maxExecutorCount, forceActiveSelf, value, counters, selves,
                 dispatcherMutex, state, msg, at, answered>>

(* Wakeup reads the setting and compares it, without the mutex (later      *)
(* comparisons would lead to the same: the setting is put once) ...        *)
WakeupSettings(p) ==
  LET put == setting >= 0 /\ setting # maxExecutorCount IN
  /\ pc[p] = "settings"
  /\ value' = [value EXCEPT ![p] = IF put THEN setting ELSE -1]
  /\ Go(p, IF put THEN "set" ELSE "self")
  /\ UnchangedByWakeup
  /\ UNCHANGED <<maxExecutorCount, forceActiveSelf, counters, selves,
                 dispatcherMutex, state, msg, at, answered>>

(* ... and applies it in one section of the mutex, if it is not negative.  *)
SetMaxExecutorCount(p) ==
  /\ pc[p] = "set"
  /\ IF value[p] < 0
       THEN UNCHANGED <<maxExecutorCount, forceActiveSelf>>
       ELSE maxExecutorCount' = value[p] /\ forceActiveSelf' = (value[p] = 0)
  /\ value' = [value EXCEPT ![p] = -1]
  /\ Go(p, "self")
  /\ UnchangedByWakeup
  /\ UNCHANGED <<counters, selves, dispatcherMutex, state, msg, at,
                 answered>>

(* The publisher becomes an executor itself if there are to be none.       *)
WakeupSelf(p) ==
  /\ pc[p] = "self"
  /\ Go(p, IF forceActiveSelf THEN "pick" ELSE "lock")
  /\ msg' = [msg EXCEPT ![p] = IF forceActiveSelf THEN 0 ELSE @]
  /\ selves' = IF forceActiveSelf THEN selves + 1 ELSE selves
  /\ UnchangedByWakeup
  /\ UNCHANGED <<maxExecutorCount, forceActiveSelf, value, counters,
                 dispatcherMutex, state, at, answered>>

(* dispatcherMutex.Lock(); wakeupCount += 1.                               *)
WakeupLock(p) ==
  /\ pc[p] = "lock"
  /\ dispatcherMutex = NoThread
  /\ dispatcherMutex' = p
  /\ wakeupCount' = wakeupCount + 1
  /\ at' = [at EXCEPT ![p] = 1]
  /\ Go(p, "scan")
  /\ UNCHANGED <<queue, published, config, sentCount, activeExecutorCount,
                 state, msg, local, answered, fates, closer>>

(* Leaving Wakeup; "answered" if an executor was signalled or started.     *)
WakeupReturn(p, success) ==
  /\ dispatcherMutex' = NoThread
  /\ answered' = IF success THEN answered \cup {msg[p]} ELSE answered
  /\ msg' = [msg EXCEPT ![p] = 0]
  /\ at' = [at EXCEPT ![p] = 0]

(* Mutant: success without pthread_cond_signal.                            *)
WakeupSignalNobody(p) ==
  /\ pc[p] = "scan" /\ at[p] <= activeExecutorCount
  /\ state[at[p]] = "waiting"
  /\ Go(p, "outside")
  /\ WakeupReturn(p, TRUE)
  /\ UNCHANGED <<queue, published, config, counters, state, local, fates,
                 closer>>

(* Mutant: the return inside the loop does not unlock dispatcherMutex.     *)
WakeupSignalLocked(p) ==
  LET e == at[p] IN
  /\ pc[p] = "scan" /\ e <= activeExecutorCount
  /\ state[e] = "waiting"
  /\ pc' = [pc EXCEPT ![p] = "outside", ![e] = IF @ = "wait" THEN "test" ELSE @]
  /\ answered' = answered \cup {msg[p]}
  /\ msg' = [msg EXCEPT ![p] = 0]
  /\ at' = [at EXCEPT ![p] = 0]
  /\ UNCHANGED <<queue, published, config, counters, dispatcherMutex, state,
                 local, fates, closer>>

(* ThreadExecutor::Wakeup of an executor that is WAITING.  A thread in     *)
(* pthread_cond_wait is released; one that has been released already, but  *)
(* is not RUNNING again, comes to Pick anyway.                             *)
WakeupSignal(p) ==
  LET e == at[p] IN
  /\ pc[p] = "scan" /\ e <= activeExecutorCount
  /\ state[e] = "waiting"
  /\ pc' = [pc EXCEPT ![p] = "outside", ![e] = IF @ = "wait" THEN "test" ELSE @]
  /\ WakeupReturn(p, TRUE)
  /\ UNCHANGED <<queue, published, config, counters, state, local, fates,
                 closer>>

(* ThreadExecutor::Wakeup of any other executor returns false.             *)
WakeupNext(p) ==
  LET e == at[p] IN
  /\ pc[p] = "scan" /\ e <= activeExecutorCount
  /\ state[e] # "waiting"
  /\ at' = [at EXCEPT ![p] = e + 1]
  /\ UNCHANGED <<queue, published, config, counters, dispatcherMutex, state,
                 pc, msg, local, answered, fates, closer>>

(* Mutant: congestion alone starts an executor.                            *)
WakeupCreateAnyway(p) ==
  LET new == activeExecutorCount + 1 IN
  /\ pc[p] = "scan" /\ at[p] > activeExecutorCount
  /\ Congested
  /\ activeExecutorCount' = new
  /\ state' = [state EXCEPT ![new] = "starting"]
  /\ pc' = [t \in Threads |-> CASE t = p   -> "outside"
                                [] t = new -> "new"
                                [] OTHER   -> pc[t]]
  /\ WakeupReturn(p, TRUE)
  /\ UNCHANGED <<queue, published, config, wakeupCount, sentCount, local,
                 fates, closer>>

(* No executor is waiting: a new one, if there is room and congestion.     *)
WakeupCreate(p) ==
  LET new == activeExecutorCount + 1 IN
  /\ pc[p] = "scan" /\ at[p] > activeExecutorCount
  /\ activeExecutorCount < maxExecutorCount
  /\ Congested
  /\ activeExecutorCount' = new
  /\ state' = [state EXCEPT ![new] = "starting"]
  /\ pc' = [t \in Threads |-> CASE t = p   -> "outside"
                                [] t = new -> "new"
                                [] OTHER   -> pc[t]]
  /\ WakeupReturn(p, TRUE)
  /\ UNCHANGED <<queue, published, config, wakeupCount, sentCount, local,
                 fates, closer>>

(* ... or none: whoever is running has to take the message.                *)
WakeupLeave(p) ==
  /\ pc[p] = "scan" /\ at[p] > activeExecutorCount
  /\ ~(activeExecutorCount < maxExecutorCount /\ Congested)
  /\ Go(p, "outside")
  /\ WakeupReturn(p, FALSE)
  /\ UNCHANGED <<queue, published, config, counters, state, local, fates,
                 closer>>

-----------------------------------------------------------------------------
(* OnExecute of the dispatcher, by an executor or by a publisher itself.   *)

Unchanged4Dispatch == UNCHANGED <<published, config, wakeupCount,
                                  activeExecutorCount, state, at, selves,
                                  closer>>

(* while (!stop && Pick) when the look-up finds a message: it is taken out *)
(* of the queue ...                                                        *)
Pick(t) ==
  /\ pc[t] = "pick"
  /\ ~stop /\ Found
  /\ msg' = [msg EXCEPT ![t] = Head(queue)]
  /\ queue' = Tail(queue)
  /\ Go(t, "read")
  /\ Unchanged4Dispatch
  /\ UNCHANGED <<sentCount, dispatcherMutex, local, answered, delivered, unread>>

(* ... and then read from the storage.                                     *)
Read(t) ==
  /\ pc[t] = "read"
  /\ Go(t, "deliver")
  /\ Unchanged4Dispatch
  /\ UNCHANGED <<queue, sentCount, dispatcherMutex, msg, local, answered,
                 delivered, unread>>

(* A persistent message whose pages are gone, or that comes back short:    *)
(* Pick returns false, and the loop ends with the message in nobody's      *)
(* hands and the others still in the queue.                                *)
ReadFails(t) ==
  /\ pc[t] = "read"
  /\ msg[t] \in Unreadable
  /\ unread' = unread \cup {msg[t]}
  /\ msg' = [msg EXCEPT ![t] = 0]
  /\ answered' = answered \ ToSet(queue)
  /\ Go(t, "count")
  /\ Unchanged4Dispatch
  /\ UNCHANGED <<queue, sentCount, dispatcherMutex, local, delivered>>

(* dispatchMessage returned, for the message and for its receipt.          *)
Delivered(t) ==
  /\ pc[t] = "deliver"
  /\ delivered' = delivered \cup {msg[t]}
  /\ msg' = [msg EXCEPT ![t] = 0]
  /\ local' = [local EXCEPT ![t] = @ + 1]
  /\ Go(t, "pick")
  /\ Unchanged4Dispatch
  /\ UNCHANGED <<queue, sentCount, dispatcherMutex, answered, unread>>

(* Mutant: the loop picks before it looks at stop.                         *)
PickNothingTaken(t) ==
  /\ pc[t] = "pick"
  /\ stop \/ ~Found
  /\ queue' = IF Found THEN Tail(queue) ELSE queue
  /\ Go(t, "count")
  /\ Unchanged4Dispatch
  /\ UNCHANGED <<sentCount, dispatcherMutex, msg, local, answered, delivered,
                 unread>>

(* The loop ends when the topic is being deleted, nothing is in the queue, *)
(* or the oldest message of the queue is not linked yet, whatever waits    *)
(* behind it.                                                              *)
PickNothing(t) ==
  /\ pc[t] = "pick"
  /\ stop \/ ~Found
  /\ Go(t, "count")
  /\ Unchanged4Dispatch
  /\ UNCHANGED <<queue, sentCount, dispatcherMutex, msg, local, answered,
                 delivered, unread>>

(* sentCount += localSentCount, under dispatcherMutex.                     *)
Count(t) ==
  /\ pc[t] = "count"
  /\ dispatcherMutex = NoThread
  /\ sentCount' = sentCount + local[t]
  /\ local' = [local EXCEPT ![t] = 0]
  /\ Go(t, IF t \in Publishers THEN "outside" ELSE "park")
  /\ Unchanged4Dispatch
  /\ UNCHANGED <<queue, dispatcherMutex, msg, answered, delivered, unread>>

-----------------------------------------------------------------------------
(* The thread of an executor (the function OnExecute of ThreadExecutor).   *)

UnchangedByThread == UNCHANGED <<queue, published, config, counters,
                                 dispatcherMutex, msg, local, at, answered,
                                 fates, closer>>

SetState(e, s) == state' = [state EXCEPT ![e] = s]

ThreadReady(e) ==
  /\ pc[e] = "new"
  /\ SetState(e, "ready") /\ Go(e, "test") /\ UnchangedByThread

(* while (GetState() != ENDING)                                            *)
ThreadTest(e) ==
  /\ pc[e] = "test"
  /\ Go(e, IF state[e] = "ending" THEN "end" ELSE "run")
  /\ UNCHANGED state /\ UnchangedByThread

ThreadRun(e) ==
  /\ pc[e] = "run"
  /\ SetState(e, "running") /\ Go(e, "pick") /\ UnchangedByThread

(* After OnExecute, in one section: wait unless the state has changed.     *)
ThreadPark(e) ==
  /\ pc[e] = "park"
  /\ IF state[e] = "running"
       THEN SetState(e, "waiting") /\ Go(e, "wait")
       ELSE UNCHANGED state /\ Go(e, "test")
  /\ UnchangedByThread

(* pthread_cond_wait may return without a signal.                          *)
SpuriousWakeup(e) ==
  /\ pc[e] = "wait"
  /\ Go(e, "test") /\ UNCHANGED state /\ UnchangedByThread

ThreadEnd(e) ==
  /\ pc[e] = "end"
  /\ SetState(e, "release") /\ Go(e, "gone") /\ UnchangedByThread

-----------------------------------------------------------------------------
(* ~TMQDispatcher, when no publisher is inside the topic any more.         *)

UnchangedByCloser == UNCHANGED <<queue, published, config, counters,
                                 dispatcherMutex, msg, local, at, answered,
                                 fates>>

Destroy ==
  /\ Destroys /\ closing = "open"
  /\ \A p \in Publishers : pc[p] = "outside"
  /\ stop' = TRUE /\ closing' = "signal" /\ closeAt' = 1
  /\ UnchangedByCloser /\ UNCHANGED <<state, pc>>

(* ~ThreadExecutor: signal the thread if it waits, then ENDING.            *)
DestroySignal ==
  /\ closing = "signal" /\ closeAt <= activeExecutorCount
  /\ SetState(closeAt, "ending")
  /\ pc' = [pc EXCEPT ![closeAt] =
              IF @ = "wait" /\ state[closeAt] = "waiting" THEN "test" ELSE @]
  /\ closing' = "spin"
  /\ UnchangedByCloser /\ UNCHANGED <<stop, closeAt>>

(* Mutant: the thread of the executor is not waited for.                   *)
DestroySpinNot ==
  /\ closing = "spin"
  /\ closing' = "signal" /\ closeAt' = closeAt + 1
  /\ UnchangedByCloser /\ UNCHANGED <<state, pc, stop>>

(* while (GetState() != RELEASE); delete thread.                           *)
DestroySpin ==
  /\ closing = "spin"
  /\ state[closeAt] = "release"
  /\ closing' = "signal" /\ closeAt' = closeAt + 1
  /\ UnchangedByCloser /\ UNCHANGED <<state, pc, stop>>

DestroyReturn ==
  /\ closing = "signal" /\ closeAt > activeExecutorCount
  /\ closing' = "closed"
  /\ UnchangedByCloser /\ UNCHANGED <<state, pc, stop, closeAt>>

-----------------------------------------------------------------------------
WakeupStep(p) ==
  \/ Link(p) \/ WakeupSettings(p) \/ SetMaxExecutorCount(p)
  \/ WakeupSelf(p) \/ WakeupLock(p) \/ WakeupSignal(p) \/ WakeupNext(p)
  \/ WakeupCreate(p) \/ WakeupLeave(p)

DispatchStep(t) ==
  Pick(t) \/ Read(t) \/ ReadFails(t) \/ Delivered(t) \/ PickNothing(t) \/ Count(t)

ThreadStep(e) ==
  ThreadReady(e) \/ ThreadTest(e) \/ ThreadRun(e) \/ ThreadPark(e) \/ ThreadEnd(e)

DestroyStep == DestroySignal \/ DestroySpin \/ DestroyReturn

Next ==
  \/ \E n \in Settings : PutSetting(n)
  \/ \E p \in Publishers : Publish(p) \/ WakeupStep(p)
  \/ \E t \in Threads : DispatchStep(t)
  \/ \E e \in Executors : ThreadStep(e) \/ SpuriousWakeup(e)
  \/ Destroy
  \/ DestroyStep

(* Every thread that can run does, and callbacks return.  Nobody has to    *)
(* publish, to change a setting or to delete the topic, and no wakeup is   *)
(* spurious.  That the mutex is fair is not assumed: the publications are  *)
(* bounded, and so are the steps that hold it.                             *)
Fairness ==
  /\ \A p \in Publishers : WF_vars(WakeupStep(p))
  /\ \A t \in Threads : WF_vars(DispatchStep(t))
  /\ \A e \in Executors : WF_vars(ThreadStep(e))
  /\ WF_vars(DestroyStep)

Spec     == Init /\ [][Next]_vars
FairSpec == Spec /\ Fairness

-----------------------------------------------------------------------------
(* Type invariant.                                                         *)
TypeOK ==
  /\ queue \in Seq(Messages)
  /\ published \in 0..MaxMessages
  /\ setting \in Settings \cup {-1}
  /\ maxExecutorCount \in Nat
  /\ forceActiveSelf \in BOOLEAN
  /\ wakeupCount \in 0..MaxMessages
  /\ sentCount \in 0..MaxMessages
  /\ activeExecutorCount \in 0..ArraySize
  /\ dispatcherMutex \in Publishers \cup {NoThread}
  /\ state \in [Executors -> States]
  /\ pc \in [Threads -> PublisherPCs \cup DispatchPCs \cup ExecutorPCs]
  /\ msg \in [Threads -> 0..MaxMessages]
  /\ local \in [Threads -> 0..MaxMessages]
  /\ at \in [Threads -> 0..ArraySize + 1]
  /\ value \in [Publishers -> Settings \cup {-1}]
  /\ answered \subseteq Messages
  /\ delivered \subseteq Messages
  /\ unread \subseteq Messages
  /\ selves \in 0..MaxMessages
  /\ stop \in BOOLEAN
  /\ closing \in {"open", "signal", "spin", "closed"}
  /\ closeAt \in 0..ArraySize + 1

(* The threads with a message in their hands, and the publishers whose     *)
(* Wakeup has not counted its message yet.                                 *)
Holding == {t \in Threads : pc[t] \in {"read", "deliver"}}
Calling == {p \in Publishers :
              pc[p] \in {"link", "settings", "set", "self", "lock"}}

(* Every published message is in exactly one place: in the queue, in the   *)
(* hands of one thread, delivered, or taken and not readable (the places   *)
(* hold all messages, and as many as there are).  What is sent is what was *)
(* delivered, and wakeupCount - sentCount, which the congestion is         *)
(* computed from, is off by the publishers that are on the way, those that *)
(* dispatched themselves and the messages that could not be read only.     *)
NothingLost ==
  /\ 1..published = ToSet(queue) \cup {msg[t] : t \in Holding}
                      \cup delivered \cup unread
  /\ published = Len(queue) + Cardinality(Holding)
                   + Cardinality(delivered) + Cardinality(unread)
  /\ Cardinality(delivered) =
        MapThenSumSet(LAMBDA t : local[t], Threads) + sentCount
  /\ published = wakeupCount + Cardinality(Calling) + selves

(* Wakeup calls of any number of publishers start executors in the order   *)
(* of the array, and at most as many as were ever allowed, although the    *)
(* setting may be put between the look at it and the mutex.                *)
ExecutorPool ==
  /\ activeExecutorCount <= Max(Settings \cup {InitialMax})
  /\ \A e \in Executors : pc[e] = "none" <=> e > activeExecutorCount

(* After ~ThreadExecutor of an executor its thread is gone.                *)
NothingRunsAfterDestroy ==
  \A e \in Executors :
    e < closeAt \/ closing = "closed" => pc[e] \in {"none", "gone"}

(* A message whose Wakeup signalled or started an executor is picked; it   *)
(* may stay in the queue only behind one whose Wakeup found nobody (the    *)
(* look-up of the executor may have ended at the link of that one), or     *)
(* when a thread left its loop at a message it could not read.             *)
AnsweredIsPicked ==
  []<>(queue = <<>> \/ Head(queue) \notin answered \/ stop)

(* Publish returns, whoever else publishes and dispatches: no publisher    *)
(* stays inside, and there are MaxMessages publications at most.           *)
PublishReturns == []<>(\A p \in Publishers : pc[p] = "outside")

(* With one executor the messages of a topic are dispatched one after the  *)
(* other ("only when the dispatch of the message before is complete, the   *)
(* next one is dispatched", readme.md:58).                                 *)
OneAtATime == Cardinality({t \in Threads : pc[t] = "deliver"}) <= 1

-----------------------------------------------------------------------------
(* Claims of the documentation that the code does not keep.                *)

(* Every publish wakes the dispatcher up, and it pulls messages until none *)
(* is left before it sleeps again (readme.md:44): every message of a       *)
(* dispatched topic is picked.                                             *)
EventuallyPicked ==
  \A m \in Messages :
    m <= published ~> (m <= published /\ m \notin ToSet(queue))

(* "Send a signal to wakeup the waiting executor" (TMQDispatcher.cpp:79):   *)
(* a message whose Wakeup did is picked, wherever it is in the queue.      *)
AnsweredLeavesQueue == []<>(answered \cap ToSet(queue) = {} \/ stop)

(* The count may be "the count of CPU on devices" (TMQDispatcher.h:170):   *)
(* the executors fit into the array whatever is set.                       *)
ExecutorsFitArray == activeExecutorCount <= ArraySize

(* "Set stop to true, this can make the method OnExecute return fast as    *)
(* soon as possible" (TMQDispatcher.cpp:40): the destructor returns.       *)
DestroyReturns == closing # "open" ~> closing = "closed"
=============================================================================
