------------------------------- MODULE History -------------------------------
(***************************************************************************)
(* The history of consumed messages (TMQHistory) and what a Pick and a     *)
(* GetHistory do with it.                                                  *)
(*                                                                         *)
(* Pick appends the message it took to the history and reads it from the   *)
(* storage afterwards.  Append counts the messages of the topic in a       *)
(* sorted list, guarded by the read-write mutex, and, when there are more  *)
(* than HISTORY_TOPIC_MSG_MAX, takes the oldest out and removes them from  *)
(* the storage.  The queue of the history is a message pool (see RCQueue), *)
(* its Enqueue and Lookup are one action each.                             *)
(***************************************************************************)
EXTENDS Integers, FiniteSetsExt, Sequences

CONSTANTS
  Threads, NoThread,
  Topics,        \* numbers, in the order of strcmp
  HistoryMax,    \* HISTORY_TOPIC_MSG_MAX
  Width,         \* bits of TMQSize
  MaxMsgs        \* bound: messages appended

ASSUME HistoryAssumption ==
  /\ IsFiniteSet(Threads) /\ NoThread \notin Threads
  /\ Topics \subseteq Nat
  /\ HistoryMax \in Nat \ {0} /\ Width \in Nat \ {0} /\ MaxMsgs \in Nat
  /\ HistoryMax < 2^(Width - 1)
  /\ 2^(Width - 1) < 2^Width   \* for the provers, which know no powers

VARIABLES
  topicOf,       \* the topics of the appended messages, in order
  kept,          \* numbers of the messages in shadowQueue; the others are
                 \* removed from the storage
  topicStats,    \* the list of [topic, count]
  step,          \* where a thread is, and its locals:
  topic, count,  \*   the parameters of CalStat,
  reducing,      \*   whether CalReduce called it,
  sp,            \*   its position,
  left,          \*   reduceCount,
  founds,        \*   and the messages the thread has yet to read
  overlapped,    \* history: whether two Appends have run at the same time
  wrapped,       \* history: whether a sum of CalStat has come to half the
                 \* range of TMQSize, where (int) takes it for negative
  readers, writers, owner, holds, pc   \* statMutex, see RWMutex

statMutex == <<readers, writers, owner, holds, pc>>
locals == <<topic, count, reducing, sp, left>>
vars   == <<topicOf, kept, topicStats, step, locals, founds, overlapped, wrapped,
            statMutex>>

Mutex == INSTANCE RWMutex

-----------------------------------------------------------------------------
Wrap(n)   == n % 2^Width                              \* TMQSize
Signed(n) == IF n < 2^(Width - 1) THEN n ELSE n - 2^Width \* (int)

Steps == {"idle", "find", "update", "unlock", "reduce", "read"}

Go(t, from, to) == step[t] = from /\ step' = [step EXCEPT ![t] = to]

(* Ordered::FindPosition, a binary search for a place of top between lo    *)
(* and hi, the pair r.                                                     *)
FindPosition(top) ==
  LET Search[r \in (1..Len(topicStats) + 1) \X (0..Len(topicStats))] ==
        LET lo  == r[1]
            hi  == r[2]
            mid == (lo + hi) \div 2
        IN IF lo > hi THEN lo
           ELSE IF top > topicStats[mid].topic THEN Search[<<mid + 1, hi>>]
           ELSE IF top < topicStats[mid].topic THEN Search[<<lo, mid - 1>>]
           ELSE mid
  IN Search[<<1, Len(topicStats)>>]

(* Ordered::GetPosition; 0 stands for -1.                                  *)
GetPosition(top) ==
  LET p == FindPosition(top) IN
  IF p <= Len(topicStats) /\ topicStats[p].topic = top THEN p ELSE 0

(* Ordered::Add.                                                           *)
Added(top) ==
  LET p == FindPosition(top) IN
  SubSeq(topicStats, 1, p - 1) \o <<[topic |-> top, count |-> 0]>>
    \o SubSeq(topicStats, p, Len(topicStats))

Of(top) == {m \in kept : topicOf[m] = top}

Init ==
  /\ topicOf = <<>> /\ kept = {} /\ topicStats = <<>>
  /\ step = [t \in Threads |-> "idle"]
  /\ topic = [t \in Threads |-> CHOOSE top \in Topics : TRUE]
  /\ count = [t \in Threads |-> 0]
  /\ reducing = [t \in Threads |-> FALSE]
  /\ sp = [t \in Threads |-> 0]
  /\ left = [t \in Threads |-> 0]
  /\ founds = [t \in Threads |-> {}]
  /\ overlapped = FALSE /\ wrapped = FALSE
  /\ Mutex!Init

-----------------------------------------------------------------------------
CalStat(t, n, by) ==
  /\ count' = [count EXCEPT ![t] = n]
  /\ reducing' = [reducing EXCEPT ![t] = by]

(* Pick has taken a message and calls Append.                              *)
Append_(t, top) ==
  LET new == Len(topicOf) + 1 IN
  /\ Go(t, "idle", "find")
  /\ new <= MaxMsgs
  /\ topicOf' = Append(topicOf, top) /\ kept' = kept \cup {new}
  /\ topic' = [topic EXCEPT ![t] = top]
  /\ CalStat(t, 1, FALSE)
  /\ founds' = [founds EXCEPT ![t] = {new}]
  /\ overlapped' = (overlapped \/ \E u \in Threads : step[u] \notin {"idle", "read"})
  /\ UNCHANGED <<wrapped, topicStats, sp, left, statMutex>>

(* CalStat: RLock ...                                                      *)
StatRLock(t) ==
  /\ step[t] = "find"
  /\ Mutex!RLockShare(t) \/ Mutex!RLockWait(t) \/ Mutex!RLockExclusive(t)
  /\ UNCHANGED <<overlapped, wrapped, topicOf, kept, topicStats, step, locals,
                 founds>>

(* ... GetPosition, RUnlock ...                                            *)
StatFind(t) ==
  /\ Go(t, "find", "update")
  /\ Mutex!RUnlockShare(t) \/ Mutex!RUnlockExclusive(t)
  /\ sp' = [sp EXCEPT ![t] = GetPosition(topic[t])]
  /\ UNCHANGED <<overlapped, wrapped, topicOf, kept, topicStats, topic, count,
                 reducing, left, founds>>

(* ... WLock ...                                                           *)
StatWLock(t) ==
  /\ step[t] = "update"
  /\ Mutex!WLockAnnounce(t) \/ Mutex!WLockSpin(t) \/ Mutex!WLockLock(t)
  /\ UNCHANGED <<overlapped, wrapped, topicOf, kept, topicStats, step, locals,
                 founds>>

(* Mutant: a new entry starts with 0 and is not counted.                   *)
StatUpdateLost(t) ==
  LET stats == IF sp[t] = 0 THEN Added(topic[t])
               ELSE [topicStats EXCEPT ![sp[t]].count = Wrap(@ + count[t])]
  IN
  /\ Go(t, "update", "unlock")
  /\ Mutex!WUnlockLeave(t)
  /\ topicStats' = stats
  /\ left' = [left EXCEPT ![t] = IF sp[t] = 0 THEN 0 ELSE stats[sp[t]].count]
  /\ UNCHANGED <<overlapped, wrapped, topicOf, kept, topic, count, reducing,
                 sp, founds>>

(* ... a new entry if there was none, the count added up, and WUnlock.     *)
StatUpdate(t) ==
  LET p     == IF sp[t] = 0 THEN FindPosition(topic[t]) ELSE sp[t]
      stats == IF sp[t] = 0 THEN Added(topic[t]) ELSE topicStats
  IN
  /\ Go(t, "update", "unlock")
  /\ Mutex!WUnlockLeave(t)
  /\ topicStats' = [stats EXCEPT ![p].count = Wrap(@ + count[t])]
  /\ left' = [left EXCEPT ![t] = topicStats'[p].count]
  /\ wrapped' = (wrapped \/ stats[p].count + count[t] >= 2^(Width - 1))
  /\ UNCHANGED <<overlapped, topicOf, kept, topic, count, reducing, sp, founds>>

(* Mutant: one message more.                                               *)
ExceedsByOne(t) == ~reducing[t] /\ left[t] > HistoryMax + 1
                     /\ Signed(Wrap(left[t] - HistoryMax)) > 0

Exceeds(t) == ~reducing[t] /\ left[t] > HistoryMax
                /\ Signed(Wrap(left[t] - HistoryMax)) > 0

(* Append calls CalReduce for what CalStat returned above the maximum.     *)
StatReturnMany(t) ==
  /\ Exceeds(t)
  /\ Go(t, "unlock", "reduce")
  /\ Mutex!WUnlockUnLock(t)
  /\ CalStat(t, left[t] - HistoryMax, TRUE)
  /\ left' = [left EXCEPT ![t] = @ - HistoryMax]
  /\ UNCHANGED <<overlapped, wrapped, topicOf, kept, topicStats, topic, sp, founds>>

StatReturn(t) ==
  /\ ~Exceeds(t)
  /\ Go(t, "unlock", "read")
  /\ Mutex!WUnlockUnLock(t)
  /\ left' = [left EXCEPT ![t] = 0]
  /\ UNCHANGED <<overlapped, wrapped, topicOf, kept, topicStats, topic, count,
                 reducing, sp, founds>>

(* Mutant: takes the newest.                                               *)
ReduceNewest(t) ==
  /\ step[t] = "reduce"
  /\ left[t] > 0 /\ Of(topic[t]) # {}
  /\ kept' = kept \ {Max(Of(topic[t]))}
  /\ left' = [left EXCEPT ![t] = @ - 1]
  /\ UNCHANGED <<overlapped, wrapped, topicOf, topicStats, step, topic, count,
                 reducing, sp, founds, statMutex>>

(* CalReduce: takes the oldest out and removes it from the storage, ...    *)
Reduce(t) ==
  /\ step[t] = "reduce"
  /\ left[t] > 0 /\ Of(topic[t]) # {}
  /\ kept' = kept \ {Min(Of(topic[t]))}
  /\ left' = [left EXCEPT ![t] = @ - 1]
  /\ UNCHANGED <<overlapped, wrapped, topicOf, topicStats, step, topic, count,
                 reducing, sp, founds, statMutex>>

(* Mutant: goes on looking for messages when there is none.                *)
ReduceEndNot(t) ==
  /\ step[t] = "reduce"
  /\ left[t] = 0 \/ Of(topic[t]) = {}
  /\ step' = [step EXCEPT ![t] = IF left[t] = 0 THEN "find" ELSE "reduce"]
  /\ UNCHANGED <<overlapped, wrapped, topicOf, kept, topicStats, locals,
                 founds, statMutex>>

(* ... then calls CalStat(topic, count), with a positive count.            *)
ReduceEnd(t) ==
  /\ Go(t, "reduce", "find")
  /\ left[t] = 0 \/ Of(topic[t]) = {}
  /\ UNCHANGED <<overlapped, wrapped, topicOf, kept, topicStats, locals,
                 founds, statMutex>>

(* GetHistory: an OverviewIterator collects the messages of a topic.       *)
GetHistory(t, top) ==
  /\ Go(t, "idle", "read")
  /\ founds' = [founds EXCEPT ![t] = Of(top)]
  /\ UNCHANGED <<overlapped, wrapped, topicOf, kept, topicStats, locals, statMutex>>

(* storage->Read(found, ...), in Pick and in GetHistory.                   *)
Read(t) ==
  /\ step[t] = "read" /\ founds[t] # {}
  /\ founds' = [founds EXCEPT ![t] = @ \ {Min(@)}]
  /\ UNCHANGED <<overlapped, wrapped, topicOf, kept, topicStats, step, locals,
                 statMutex>>

ReadEnd(t) ==
  /\ Go(t, "read", "idle")
  /\ founds[t] = {}
  /\ UNCHANGED <<overlapped, wrapped, topicOf, kept, topicStats, locals,
                 founds, statMutex>>

-----------------------------------------------------------------------------
InCall(t) ==
  \/ StatRLock(t) \/ StatFind(t) \/ StatWLock(t) \/ StatUpdate(t)
  \/ StatReturnMany(t) \/ StatReturn(t) \/ Reduce(t) \/ ReduceEnd(t)
  \/ Read(t) \/ ReadEnd(t)

Next == \E t \in Threads :
  InCall(t) \/ \E top \in Topics : Append_(t, top) \/ GetHistory(t, top)

(* A thread in a call goes on, and gets a lock that is free again and      *)
(* again.                                                                  *)
Fairness == \A t \in Threads : SF_vars(InCall(t))

Spec     == Init /\ [][Next]_vars
FairSpec == Spec /\ Fairness

-----------------------------------------------------------------------------
Positions == 0..Cardinality(Threads) * Cardinality(Topics)
Numbers   == 1..MaxMsgs

(* Type invariant.                                                         *)
TypeOK ==
  /\ topicOf \in Seq(Topics) /\ Len(topicOf) <= MaxMsgs
  /\ kept \subseteq 1..Len(topicOf)
  /\ topicStats \in Seq([topic : Topics, count : 0..2^Width - 1])
  /\ step \in [Threads -> Steps]
  /\ topic \in [Threads -> Topics]
  /\ count \in [Threads -> 0..2^Width - 1]
  /\ reducing \in [Threads -> BOOLEAN]
  /\ sp \in [Threads -> Positions]
  /\ left \in [Threads -> 0..2^Width - 1]
  /\ founds \in [Threads -> SUBSET Numbers]
  /\ overlapped \in BOOLEAN /\ wrapped \in BOOLEAN
  /\ Mutex!TypeOK

AtRest == \A t \in Threads : step[t] = "idle"

Sum(f) == MapThenSumSet(LAMBDA i : f[i].count, DOMAIN f)

(* At rest the counts cover the messages that are kept, all topics taken   *)
(* together: an update that is lost would let the history grow.            *)
CountsCover ==
  AtRest => Cardinality(kept) <= Sum(topicStats)

(* "TMQ keeps a fixed 128 messages per topic; when they are full, those at *)
(* the front are removed" (readme.md:75): at rest no topic has more.       *)
AtMostEver ==
  AtRest => \A top \in Topics : Cardinality(Of(top)) <= HistoryMax

(* It is so as long as the messages were appended one after the other,     *)
(* whatever reads of the history run meanwhile.                            *)
AtMostMax == ~overlapped => AtMostEver

(* What is kept of a topic is newer than what was removed of it.           *)
NewestKept ==
  \A m \in kept : \A n \in m..Len(topicOf) : topicOf[n] = topicOf[m] => n \in kept

(* A message that is reduced is still in the storage when it is read.      *)
(* "append it to the history, and read detail from storage"                *)
(* (TMQPicker.cpp:15).                                                     *)
ReadsStored == \A t \in Threads : step[t] = "read" => founds[t] \subseteq kept

(* The count of a topic is reduced with its messages: "if the message      *)
(* count with the topic is 10, the count in parameters is 2, so the Lookup *)
(* should be executed 2, and the result size will be 8" (TMQHistory.cpp:   *)
(* 95-97).                                                                 *)
CountsExact ==
  AtRest => \A i \in DOMAIN topicStats :
    topicStats[i].count = Cardinality(Of(topicStats[i].topic))

(* Every call returns, unless two Appends have overlapped, after which the *)
(* mutex may be left locked.                                               *)
CallsReturn == \A t \in Threads : []<>(step[t] = "idle" \/ overlapped)

(* Every call returns.                                                     *)
AlwaysReturns == \A t \in Threads : []<>(step[t] = "idle")
=============================================================================
