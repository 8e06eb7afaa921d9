------------------------------ MODULE Contexts -------------------------------
(***************************************************************************)
(* The contexts of the C interface on top of the receiver registry.        *)
(*                                                                         *)
(* A TMQContext is a receiver of several topics.  Its lists and its picker *)
(* are guarded by a mutex of its own, which RemoveTopic and Publish hold   *)
(* over calls of the topic; OnReceive, which the executors call, takes no  *)
(* mutex.  Clients and executors are the threads of Receivers, whose       *)
(* actions are steps of the ones below.                                    *)
(*                                                                         *)
(* The message pool is the sequence of the messages that wait: priorities  *)
(* and concurrent look-ups are the subject of RCQueue and Executors.  At   *)
(* least one executor thread exists, so that Publish calls no receiver.    *)
(***************************************************************************)
EXTENDS Receivers

CONSTANTS
  Contexts, None,
  Executors,     \* the threads that dispatch; the others are clients
  TopicSent,     \* TOPIC_SENT
  Names,         \* the topics clients add to a context: valid ones, no settings
  MaxMsgs,       \* bound: messages published
  DestroyAnytime \* TRUE: clients destroy contexts that have topics

ASSUME ContextsAssumption ==
  /\ None \notin Contexts \cup Threads
  /\ Executors \subseteq Threads
  /\ TopicSent \in Topics /\ Names \subseteq Topics
  /\ MaxMsgs \in Nat
  /\ DestroyAnytime \in BOOLEAN
  /\ {"add", "remove"} \subseteq CallbackOps

VARIABLES
  \* members of a TMQContext, per context
  topicList, subscriberList, picker, lastMsgId,
  mutex,       \* the thread that holds it
  index,       \* the loop index of the call that holds it
  alive,       \* not destroyed
  owner,       \* id |-> the context that is the receiver behind it
  \* the pool and the threads
  pool,        \* ids of the messages that wait, oldest first
  topicOf,     \* the topics of the messages so far, by id
  stage,       \* where an executor is in the loop of OnExecute
  current,     \* the message it has picked
  calling,     \* it is in the C callback of a context
  request,     \* the context whose mutex a thread asks for
  \* history
  calls,       \* how often a context was called back for a message
  missed       \* a Pick of a context found nothing though a message waited

lists       == <<topicList, subscriberList, picker, mutex, index, alive>>
contextVars == <<lists, lastMsgId, owner, calls, missed>>
executorVars == <<stage, current, calling>>
poolVars    == <<pool, topicOf>>
cvars == <<contextVars, executorVars, poolVars, request>>
allvars == <<vars, cvars>>

-----------------------------------------------------------------------------
Msgs   == 1..MaxMsgs
SentId == 0                \* msgId of the notices of TopicSent
NoId   == MaxMsgs + 1      \* ID_LONG_INVALID

CInit ==
  /\ Init
  /\ topicList      = [c \in Contexts |-> <<>>]
  /\ subscriberList = [c \in Contexts |-> <<>>]
  /\ picker         = [c \in Contexts |-> None]
  /\ lastMsgId      = [c \in Contexts |-> NoId]
  /\ mutex          = [c \in Contexts |-> None]
  /\ index          = [c \in Contexts |-> 0]
  /\ alive          = [c \in Contexts |-> TRUE]
  /\ owner          = [id \in Ids |-> None]
  /\ pool = <<>> /\ topicOf = <<>>
  /\ stage   = [t \in Threads |-> "idle"]
  /\ current = [t \in Threads |-> NoId]
  /\ calling = [t \in Threads |-> FALSE]
  /\ request = [t \in Threads |-> None]
  /\ calls   = [c \in Contexts |-> [m \in Msgs |-> 0]]
  /\ missed  = FALSE

(* Thread t runs user code: a client outside any call, or an executor in   *)
(* the callback of a context.                                              *)
UserRuns(t) ==
  /\ \/ t \notin Executors /\ depth[t] = 0
     \/ t \in Executors /\ At(t, "receive") /\ calling[t]
  /\ request[t] = None
  /\ \A c \in Contexts : mutex[c] # t

(* A call of a context begins with mutex.Lock() ...                        *)
Lock(t, c) ==
  /\ UserRuns(t)
  /\ alive[c]
  /\ request' = [request EXCEPT ![t] = c]
  /\ UNCHANGED <<vars, contextVars, executorVars, poolVars>>

(* ... which returns when nobody holds the mutex.                          *)
Locked(t, c) ==
  /\ request[t] = c
  /\ mutex[c] = None
  /\ request' = [request EXCEPT ![t] = None]

(* Mutant: nobody looks whether the context has the topic.                 *)
AddTopicAgain(t, c, topic) ==
  /\ Locked(t, c)
  /\ AddReceiver(t, topic)
  /\ topicList' = [topicList EXCEPT ![c] = Append(@, topic)]
  /\ subscriberList' = [subscriberList EXCEPT ![c] = Append(@, receiverIdCounter')]
  /\ owner' = [owner EXCEPT ![receiverIdCounter'] = c]
  /\ picker' = [picker EXCEPT ![c] = None]
  /\ UNCHANGED <<mutex, index, alive, lastMsgId, calls, missed, executorVars,
                 poolVars>>

(* AddTopic of a topic the context has not: a subscription of its own.     *)
AddTopic(t, c, topic) ==
  /\ Locked(t, c)
  /\ ~Contains(topicList[c], topic)
  /\ AddReceiver(t, topic)
  /\ topicList' = [topicList EXCEPT ![c] = Append(@, topic)]
  /\ subscriberList' = [subscriberList EXCEPT ![c] = Append(@, receiverIdCounter')]
  /\ owner' = [owner EXCEPT ![receiverIdCounter'] = c]
  /\ picker' = [picker EXCEPT ![c] = None]
  /\ UNCHANGED <<mutex, index, alive, lastMsgId, calls, missed, executorVars,
                 poolVars>>

(* AddTopic of a topic it has, RemoveTopic of one it has not, Publish and  *)
(* Pick of a context without topics: the mutex is given back.              *)
NothingToDo(t, c) ==
  /\ Locked(t, c)
  /\ UNCHANGED <<vars, contextVars, executorVars, poolVars>>

(* RemoveTopic holds the mutex over UnSubscribe, whose steps these are ... *)
RemoveTopic(t, c, i) ==
  /\ Locked(t, c)
  /\ i \in DOMAIN topicList[c]
  /\ RemoveListed(t, subscriberList[c][i])
  /\ topicList' = [topicList EXCEPT ![c] = RemoveAt(@, i)]
  /\ mutex' = [mutex EXCEPT ![c] = t]
  /\ index' = [index EXCEPT ![c] = i]
  /\ UNCHANGED <<subscriberList, picker, alive, lastMsgId, owner, calls, missed,
                 executorVars, poolVars>>

(* Mutant: no wait.                                                        *)
RemoveTopicWaitNot(t) == RemoveWaitNot(t) /\ UNCHANGED cvars

RemoveTopicWait(t) == RemoveWait(t) /\ UNCHANGED cvars

(* Mutant: the subscription of the last topic is forgotten.                *)
RemoveTopicEndLast(t, c) ==
  /\ mutex[c] = t
  /\ RemoveDelete(t)
  /\ subscriberList' = [subscriberList EXCEPT ![c] = Front(@)]
  /\ picker' = [picker EXCEPT ![c] = None]
  /\ mutex' = [mutex EXCEPT ![c] = None]
  /\ index' = [index EXCEPT ![c] = 0]
  /\ UNCHANGED <<topicList, alive, lastMsgId, owner, calls, missed, executorVars,
                 poolVars, request>>

(* ... and then drops the id and the picker.                               *)
RemoveTopicEnd(t, c) ==
  /\ mutex[c] = t
  /\ RemoveDelete(t)
  /\ subscriberList' = [subscriberList EXCEPT ![c] = RemoveAt(@, index[c])]
  /\ picker' = [picker EXCEPT ![c] = None]
  /\ mutex' = [mutex EXCEPT ![c] = None]
  /\ index' = [index EXCEPT ![c] = 0]
  /\ UNCHANGED <<topicList, alive, lastMsgId, owner, calls, missed, executorVars,
                 poolVars, request>>

(* Publish of a context holds the mutex over the Publish of each topic.    *)
PublishBegin(t, c) ==
  /\ Locked(t, c)
  /\ topicList[c] # <<>>
  /\ Len(topicOf) < MaxMsgs
  /\ mutex' = [mutex EXCEPT ![c] = t]
  /\ index' = [index EXCEPT ![c] = 1]
  /\ UNCHANGED <<vars, topicList, subscriberList, picker, alive, lastMsgId,
                 owner, calls, missed, executorVars, poolVars>>

Publishing(t, c) ==
  /\ mutex[c] = t
  /\ ~At(t, "wait") /\ ~At(t, "delete")

(* Topic::Publish: a message with an id of its own goes to the pool.  The  *)
(* bound cuts off the rest of the topics.                                  *)
PublishTopic(t, c) ==
  LET i == index[c] IN
  /\ Publishing(t, c)
  /\ i <= Len(topicList[c])
  /\ IF Len(topicOf) < MaxMsgs
       THEN /\ topicOf' = Append(topicOf, topicList[c][i])
            /\ pool' = Append(pool, Len(topicOf) + 1)
       ELSE UNCHANGED poolVars
  /\ index' = [index EXCEPT ![c] = i + 1]
  /\ UNCHANGED <<vars, topicList, subscriberList, picker, mutex, alive,
                 lastMsgId, owner, calls, missed, executorVars, request>>

(* Mutant: the mutex is not given back.                                    *)
PublishEndLocked(t, c) ==
  /\ Publishing(t, c)
  /\ index[c] = Len(topicList[c]) + 1
  /\ index' = [index EXCEPT ![c] = @ + 1]
  /\ UNCHANGED <<vars, topicList, subscriberList, picker, mutex, alive,
                 lastMsgId, owner, calls, missed, executorVars, poolVars, request>>

PublishEnd(t, c) ==
  /\ Publishing(t, c)
  /\ index[c] > Len(topicList[c])
  /\ mutex' = [mutex EXCEPT ![c] = None]
  /\ index' = [index EXCEPT ![c] = 0]
  /\ UNCHANGED <<vars, topicList, subscriberList, picker, alive, lastMsgId,
                 owner, calls, missed, executorVars, poolVars, request>>

(* Pick makes the picker if there is none; having no storage and no queues *)
(* it finds nothing.                                                       *)
Pick(t, c) ==
  /\ Locked(t, c)
  /\ topicList[c] # <<>>
  /\ picker' = [picker EXCEPT ![c] = IF @ = None THEN topicList[c] ELSE @]
  /\ missed' = (missed \/ \E k \in DOMAIN pool :
                            topicOf[pool[k]] \in ToSet(picker'[c]))
  /\ UNCHANGED <<vars, topicList, subscriberList, mutex, index, alive, lastMsgId,
                 owner, calls, executorVars, poolVars>>

(* tmq_destroy_ctx: the picker goes, the subscriptions stay.               *)
Destroy(t, c) ==
  /\ UserRuns(t) /\ t \notin Executors
  /\ alive[c]
  /\ mutex[c] = None /\ \A u \in Threads : request[u] # c
  /\ DestroyAnytime \/ topicList[c] = <<>>
  /\ alive' = [alive EXCEPT ![c] = FALSE]
  /\ picker' = [picker EXCEPT ![c] = None]
  /\ UNCHANGED <<vars, topicList, subscriberList, mutex, index, lastMsgId, owner,
                 calls, missed, executorVars, poolVars, request>>

-----------------------------------------------------------------------------
(* The loop of OnExecute: pick a message, ...                              *)
PickMessage(t) ==
  /\ t \in Executors /\ stage[t] = "idle"
  /\ pool # <<>>
  /\ current' = [current EXCEPT ![t] = Head(pool)]
  /\ pool' = Tail(pool)
  /\ stage' = [stage EXCEPT ![t] = "picked"]
  /\ UNCHANGED <<vars, contextVars, topicOf, calling, request>>

Dispatch(t, topic, during, after) ==
  /\ IF topicReceivers[topic] # <<>>
       THEN /\ DispatchMessage(t, topic)
            /\ stage' = [stage EXCEPT ![t] = during]
       ELSE /\ stage' = [stage EXCEPT ![t] = after]
            /\ UNCHANGED vars
  /\ UNCHANGED <<contextVars, poolVars, current, calling, request>>

(* ... dispatch it, ...                                                    *)
DispatchTopic(t) ==
  /\ stage[t] = "picked"
  /\ Dispatch(t, topicOf[current[t]], "topic", "report")

(* ... and dispatch a notice of it.                                        *)
DispatchSent(t) ==
  /\ stage[t] = "report"
  /\ Dispatch(t, TopicSent, "sent", "idle")

DispatchEnd(t) ==
  /\ t \in Executors
  /\ DispatchReturn(t)
  /\ stage' = [stage EXCEPT ![t] = IF @ = "topic" THEN "report" ELSE "idle"]
  /\ UNCHANGED <<contextVars, poolVars, current, calling, request>>

MsgId(t) == IF stage[t] = "topic" THEN current[t] ELSE SentId

(* OnReceive of a context compares with the last message it was called for *)
Receive(t) ==
  /\ ReceiveBegin(t)
  /\ LET c == owner[Top(t)'.rec] IN
       /\ calling' = [calling EXCEPT ![t] = MsgId(t) # lastMsgId[c]]
       /\ calls' = IF calling'[t] /\ MsgId(t) # SentId
                     THEN [calls EXCEPT ![c][MsgId(t)] = @ + 1] ELSE calls
  /\ UNCHANGED <<lists, lastMsgId, owner, missed, poolVars, stage, current, request>>

ReceiveGone(t) == ReceiveSkip(t) /\ UNCHANGED cvars

(* ... and stores its id when the callback has returned.                   *)
ReceiveReturn(t) ==
  /\ request[t] = None /\ \A c \in Contexts : mutex[c] # t
  /\ lastMsgId' = IF calling[t]
                    THEN [lastMsgId EXCEPT ![owner[Top(t).rec]] = MsgId(t)]
                    ELSE lastMsgId
  /\ ReceiveEnd(t)
  /\ calling' = [calling EXCEPT ![t] = FALSE]
  /\ UNCHANGED <<lists, owner, calls, missed, poolVars, stage, current, request>>

-----------------------------------------------------------------------------
ContextCall(t, c) ==
  \/ Lock(t, c) \/ NothingToDo(t, c)
  \/ \E topic \in Names : AddTopic(t, c, topic)
  \/ \E i \in DOMAIN topicList[c] : RemoveTopic(t, c, i)
  \/ PublishBegin(t, c) \/ Pick(t, c) \/ Destroy(t, c)

ContextStep(t) ==
  \/ RemoveTopicWait(t)
  \/ \E c \in Contexts : RemoveTopicEnd(t, c) \/ PublishTopic(t, c) \/ PublishEnd(t, c)
  \/ PickMessage(t) \/ DispatchTopic(t) \/ DispatchSent(t) \/ DispatchEnd(t)
  \/ Receive(t) \/ ReceiveGone(t)

CNext == \E t \in Threads :
  \/ \E c \in Contexts : ContextCall(t, c)
  \/ ContextStep(t)
  \/ ReceiveReturn(t)

(* As in Receivers: threads run, and callbacks return unless they wait.    *)
CFairness ==
  /\ \A t \in Threads : WF_allvars(ContextStep(t))
  /\ \A t \in Executors : SF_allvars(ReceiveReturn(t))

CSpec == CInit /\ [][CNext]_allvars
CFairSpec == CSpec /\ CFairness

-----------------------------------------------------------------------------
(* Unless a call is at work, the two lists of a context agree with each    *)
(* other and with the registry: the subscription at position i is one of   *)
(* the topic at position i, and the context has no other; and a picker     *)
(* watches the topics its context has.                                     *)
ListsAgree == \A c \in Contexts : mutex[c] = None =>
  /\ Len(subscriberList[c]) = Len(topicList[c])
  /\ \A i \in DOMAIN topicList[c] : Listens(topicList[c][i], subscriberList[c][i])
  /\ \A id \in Ids : owner[id] = c /\ IsSubscribed(id) => id \in ToSet(subscriberList[c])
  /\ picker[c] \in {None, topicList[c]}

(* "one message with the same msgId will trigger the callback only once"   *)
(* (TMQContext.h:25-26), whatever runs at the same time; and once at least: *)
(* the comparison with lastMsgId keeps no message from a context.          *)
CalledOnce ==
  /\ \A c \in Contexts, m \in Msgs : calls[c][m] <= 1
  /\ \A t \in Executors : At(t, "receive") /\ stage[t] = "topic" => calling[t]

(* The executor t is inside OnReceive of a context.                        *)
Running(t, id) == \E d \in Depths :
  frame[<<t, d>>].op = "receive" /\ frame[<<t, d>>].rec = id

(* A callback runs only for a topic the context has or is just removing,   *)
(* so a context without topics can be destroyed.                           *)
CalledWhileSubscribed == \A t \in Executors, id \in Ids :
  Running(t, id) =>
    /\ alive[owner[id]]
    /\ id \in ToSet(subscriberList[owner[id]])

(* A callback of the subscription being removed that itself waits for the  *)
(* mutex of a context.                                                     *)
Stuck(c) == \E t \in Executors :
  /\ index[c] \in DOMAIN subscriberList[c]
  /\ Running(t, subscriberList[c][index[c]])
  /\ request[t] # None \/ mutex[c] = t

(* A call gives the mutex back, or waits for a callback that waits for it. *)
MutexReleased == \A c \in Contexts : []<>(mutex[c] = None \/ Stuck(c))

-----------------------------------------------------------------------------
(* Claims of the documentation and the tests that the code does not keep.  *)

(* "assert(len == length)" (TestC.cpp:83): a Pick finds a message that     *)
(* waits for a topic of the context.                                       *)
PickFinds == ~missed

(* "during destroying a context, the subscription in context will be       *)
(* release at the same time" (TMQC.h:148).                                 *)
DestroyReleases == \A c \in Contexts, id \in Ids :
  owner[id] = c /\ IsSubscribed(id) => alive[c]

(* Every notice is delivered to a context that has subscribed TopicSent.   *)
NoticeDelivered == \A t \in Executors : At(t, "receive") => calling[t]

(* RemoveTopic returns.                                                    *)
RemoveTopicReturns == \A c \in Contexts : []<>(mutex[c] = None)
=============================================================================
