# TMQ: a verification development

TMQ is a message queue inside one process. Publishers put messages under a
topic; subscribers receive them through callbacks that a dispatcher runs on its
executors, or pick them themselves; a storage keeps the payloads in memory or in
a file. This directory holds TLA+ models of it, the TLC configurations that check
them on small instances, and proofs for every size of instance.

Paths below are relative to `src/Share/`. `PROJECT.json` lists the components,
the runs, the lines each definition models and the hazards.

## The system

| component | state | operations | depends on |
|---|---|---|---|
| Topic facade (`base/Topic.cpp`) | queues by priority, storage, history, dispatcher | Publish, Subscribe, UnSubscribe, CreatePicker, GetHistory | everything below |
| Receiver registry (`base/TMQDispatcher.cpp`) | receivers of each topic, running receivers, id counter, under `receiverMutex` | AddReceiver, RemoveReceiver, FindReceiver, dispatchMessage | callbacks of the application |
| Executors (`base/TMQDispatcher.cpp`, `base/Executor/ThreadExecutor.cpp`) | array of executors, their states, counters of wakeups, under `dispatcherMutex` | Wakeup, OnExecute, SetMaxExecutorCount, destructor | picker, registry |
| Message pool (`base/Common/RCQueue.h`) | lock-free list with reference counts, iterators | Enqueue, Lookup, Take, Clear | atomics |
| Picker (`base/TMQPicker.cpp`) | one iterator per priority, a watcher of topics | Pick | message pool, history, storage |
| History (`base/TMQHistory.cpp`) | pool of consumed messages, sorted list of counts | Append, CalStat, CalReduce, GetHistory | message pool, read-write mutex, storage |
| Read-write mutex (`base/Executor/RWMutex.cpp`) | counters of readers and writers in one word, a mutex | RLock, RUnlock, WLock, WUnlock | mutex |
| Id generator (`base/Executor/IDGenerator.cpp`) | instance, counter | GetInstance, GetMsgId, SetMsgId | atomics |
| Storage (`base/TMQStorage.cpp`) | the sections of the file, under `persistMutex` | EnablePersist, Write, Read, Remove, FindShadows | persistence |
| Persistence (`base/Persistence(内存持久化)/`) | pages, sections, allocations in a section | allocate, free, move, append | file |
| Context, C interface (`base/TMQContext.cpp`, `base/TMQC.cpp`) | topics and subscriptions of one client, last message id | AddTopic, RemoveTopic, Publish, Pick, OnReceive | topic facade |
| Pipe (`serice/`) | frames, parts of long messages | PSend, PReceive, SendMessage, ReceiveMessage | file I/O |
| Red-black tree (`base/Common/RbTree.h`) | nodes with links and colours | Insert, Find, Erase, Clear, iterators | |
| Settings, utilities, containers (`base/Data/`, `base/Common/`) | settings in a red-black tree; lists | Put, Get, Parse | red-black tree |

A Publish runs on the publisher's thread through the storage (Write), the pool of
its priority (Enqueue) and the dispatcher (Wakeup). Wakeup signals a sleeping
executor, starts one, or, when the maximum of executors is 0, dispatches on the
publisher's own thread. An executor picks until its Pick fails; Pick takes from
the pools in the order of priority, appends to the history and reads from the
storage; dispatchMessage calls the receivers of the topic, outside the mutex.
Callbacks may call any of this again.

What is hard: callbacks that re-enter; a receiver removed while its callback
runs; a Wakeup that races with an executor going to sleep; nodes of a lock-free
list freed under an iterator; a mutex written from a counter and a lock that can
leak; positions found under one lock and used under another; a destructor that
waits for threads; a file whose tables are moved in several writes. What makes
each component correct:

* registry: no callback on a deleted receiver, none after its removal, every
  receiver of a topic called in the order of subscription, removal ends;
* executors: no message disappears or is dispatched twice, no message stays while
  threads sleep, the pool keeps its limit, nothing runs after the destructor;
* message pool: what is enqueued is taken at most once and, by those who want
  it, in the order of the list; no node is used after its delete;
* history: at most the maximum per topic, the newest ones, and nothing removed
  from the storage that somebody is about to read;
* read-write mutex: writers are alone, writers go first, an unlock releases;
* id generator: no id twice;
* storage and persistence: allocations do not overlap, a message is found where
  it was put, no page has two owners, nothing is lost or doubled by a restart;
* contexts: the two lists of a context say what the registry says, no message
  calls a context twice, no callback for what was given up, and the mutex of a
  context, held over calls of the dispatcher, comes back;
* pipe: what a plugin sent is published as it was, whatever bytes it holds and
  wherever the reads cut it;
* red-black tree: a sorted map, balanced, also where it rebalances on the way up.

## Modules

| module | models | notes |
|---|---|---|
| `Receivers` | registry | a thread is a stack of frames, so that callbacks re-enter |
| `Contexts` | contexts of the C interface, the loop of OnExecute | composes with the registry (EXTENDS `Receivers`) |
| `ContextsProofs` | proofs about the registry and the contexts | the order of calls builds on the invariant of the registry, the contexts on both |
| `Executors` | executors and Wakeup | a look-up is one step, messages are numbers |
| `ExecutorsProofs` | proofs about it | |
| `MessagePool` | what the pool promises | abstract specification |
| `RCQueue` | the lock-free list | implements `MessagePool` |
| `RCQueueProofs` | proofs about it | for iterators with one user |
| `RWMutex` | read-write mutex | |
| `RWMutexProofs` | proofs about it | |
| `History` | history, and Pick as far as it uses it | composes `RWMutex` (`INSTANCE`), its pool is a message pool |
| `HistoryProofs` | proofs about it | cites the theorems of the mutex |
| `IDGenerator` | ids of messages | |
| `IDGeneratorProofs` | proofs about it | |
| `SortedMap` | what the tree promises | abstract specification |
| `RbTree` | red-black tree | implements `SortedMap` |
| `RbTreeProofs` | proofs about it | walks that end are defined by recursive functions; a rank in place of induction over data |
| `Persistence` | file, pages, lists on pages, sections | operators from a file to a file |
| `SectionSpace` | allocations of a section | operators, extends `Persistence` |
| `Sections` | section spaces at work, restart, crash | state machine over the operators |
| `Storage` | TMQStorage on its file | state machine over the same operators |
| `Pipe` | frames of the pipe | operators |
| `PipeService` | server and plugins over fifos | state machine, extends `Pipe` |
| `PipeProofs` | proofs about it | the ring, the detection of frames, the framing and the parsing as lemmas of their own |
| `MC*` | small instances for TLC | symmetry sets, values of constants that are functions, the constraint of `storage` |

An operator whose comment begins with "Mutant:" is a wrong variant of the
definition that follows it: a guard that is missing, a swapped order, an off-by-one.
No specification uses it. Replacing the definition by it must violate the
property that `PROJECT.json` names under "mutants", which shows that the property
depends on that piece of code.

### Receivers

Every critical section of `receiverMutex` is one action; nothing inside a section
blocks. Steps of their own are the callback (`ReceiveBegin`, `ReceiveEnd`), the
spin of RemoveReceiver until the receiver is in no callback (`RemoveWait`), the
delete, and the dereference in FindReceiver after it left the mutex. `heap` says
what became of each wrapper. `runningReceivers` is a multiset, because a receiver
may be in several callbacks at once. Early returns on null pointers change
nothing and are left out.

### Contexts

A context is a receiver of several topics. Each thread of `Receivers` is a client
or an executor; `Lock` and `Locked` are the two ends of `mutex.Lock()`. RemoveTopic
is three actions, because UnSubscribe waits inside it: the loop keeps its `index`
over that wait. The registry's actions are conjuncts of the actions here, so that a
context can only do to the registry what the dispatcher lets it do (`UsesRegistry`
proves it). The pool is a sequence, and a thread takes its head for which it looks
up; the order of priorities is not modelled. `TopicSent` notices carry the id 0,
as the code sends them.

### Executors

The mutex of one executor is held over single actions; `dispatcherMutex` is a
variable, because Wakeup holds it over the creation of a thread. Words the code
reads outside the mutexes (`activeExecutorCount`, the counters, `state`) are read
in the steps that read them. `ThreadExecutor::Wakeup` takes its mutex twice;
nothing it depends on changes in between except `state`, and the two sections are
one action. Callbacks that publish are not modelled here: the publisher's loop
already interleaves publishing and dispatching, on threads of their own.

What decides which thread gets a message is kept of the message pool and of Pick.
Enqueue is two steps (`Publish` swaps the tail, `Link` links), and a look-up finds
nothing while the oldest message is not linked, whatever waits behind it. `Pick` takes
a message out of the pool, and the Read of the storage that follows may fail
(`ReadFails`, for the messages in `Unreadable`): then nobody dispatches it and the
loop of OnExecute ends. The look-up itself is one step. Executors share the iterator of
their picker, and what two of them do to it at once is in `MCRCQueueShared.cfg`.
`answered` holds the messages whose Wakeup signalled or started an executor, without
those that waited when a thread left its loop at a message it could not read.

### MessagePool and RCQueue

`MessagePool` is the promise: messages wait in a sequence; a Take removes one
that the iterator wants. `RCQueue` is the code, one action per access of shared
memory. A node's word holds the flags removed and writing and two counters; an
iterator stands on a node; the last to leave a node cuts off the removed nodes
behind it, turns the link of the last one back and frees those whose remains are
0. `RCQueue!Waiting` maps the list to the sequence, and `IsMessagePool` states
that the list implements the pool. The comparison an iterator makes
(`ShadowIterator::OnCompare`) is the constant `Wants`.

### RWMutex and History

`RWMutex` has one action per atomic access of `rw` and per mutex call.
`History` runs Append, CalStat and CalReduce over it with their locals: the
position found under the read lock is used under the write lock, as in the code.
The count of a topic is a TMQSize: unsigned, compared as an int. Its pool has an
atomic Enqueue and Lookup; a failure of Lookup while messages wait
(`FailsAtTheEnd` below) is not carried over to it (`Executors` has it). A Lookup of
CalReduce and the Remove from the storage that follows it are one step. `overlapped` remembers that two
appends were inside at once: what holds only while that has not happened
(`AtMostMax`, `CallsReturn`) says so. `wrapped` remembers that a sum of CalStat has
come to half the range of TMQSize.

### IDGenerator

`GetMsgId` adds and, at `ID_INT_MAX`, sets the counter back in a second step.
`IntMax` stands for `0xFFFFFFFF`. `again` and `issued` record what was returned
since the last reset.

### SortedMap and RbTree

A call runs to its end before the next, but every iteration of the two
rebalancing loops is a step, so that `IsSortedMap` (the nodes reached from the
root are the map) holds in every state of the restructuring, too, and `RedBlack`
and `IteratorOrder` between calls. The mirrored halves of the code are one
definition with the side as a parameter. Assignment copies the child links and
computes the parent links anew; the copy is used from then on (`AssignTree`).

### Persistence, SectionSpace, Sections

All callers are under the mutex of TMQStorage, so an operation is an operator from
the file before it to the file after it; the files in between go to `log`, from
which a crash picks one (`CrashSpec`). A list on a page is a sequence with the page
that holds its header, its entries per page are the constants `MetaPerPage` and
`SecPerPage`, its binary search is `FindPosition`. `data` says of each byte of the
file who wrote it last. A section space keeps its own copy of the section, a count
and the tree of free pieces; `GetFreedAllocList` has two static variables that all
spaces share (`static`). `AllocIdMax` stands for 2^32 - 1, and ids are compared as
signed numbers, as the code does.

### Storage

The operators of the section spaces below Write, Read, Remove, FindShadows and
EnablePersist. The bytes of a message are its name, so that `Read` shows whose bytes
a shadow leads to. `crossed` is set once Remove has given back addresses that are
not the message's own (its meta address goes to the data space and vice versa, and
the two agree only while both spaces have grown alike), `spoilt` are the messages
whose bytes an overlapping allocation has taken: the two known ways to damage a
message. `KeptBytes` says that there is no third one.

### Pipe and PipeService

A frame is the sequence of its bytes, doubling included, since the property is
about which bytes can end a frame. A write of a frame is one action (it is atomic up
to PIPE_BUF), a read takes any number of the bytes that are there, and the ring is
read as `OnExecute` reads it, two bytes behind the end.

The two ends of a fifo are opened and closed by calls of their own, as `Pipe` makes
them. `reader[f]` is "closed", "waits" in open, "open", or "eof" between the read that
returned 0 and the close; `writer[p]` is the pipe of a plugin to the server, from its
open to the close in its destructor, `writer[Server]` that of the executor to the plugin
it forwards to. An open waits for the other end or fails, as the flags say; a write
without a reader fails; when nobody has a fifo open any more, what is left in it is
thrown away. So a plugin may open, write and close between the server's read and
its close: its frame is lost although `SendMessage` returns true. `sent` and
`asked` are what was written and not thrown away; `kept` remembers them at the last
end of the file, since what the server has then it has read. A write without a reader
also raises SIGPIPE; a plugin that dies of it is one that does nothing any more. The
answer to a registration (`Reply`) is one step of the server.

`overrun` remembers that PSend was given a message longer than its buffer, as the
condition of `SendMessage`, which leaves out the header, lets through.

## Runs

| run | instance | shows |
|---|---|---|
| `receivers` | 2 threads, 2 topics, 3 receivers, depth 2 | no callback on a deleted wrapper, one delete each, callbacks in order, nobody missed, no start after removal |
| `executors` | 2 publishers, 3 messages of which one may not be readable, at most 2 executors, a setting that changes to 0, destructor | messages conserved, counters in step, pool in its limit, nothing runs after the destructor; a message whose Wakeup reached an executor is picked; Publish returns |
| `rwmutex` | 4 threads | exclusion, exact counters, writers first; a writer's spin ends |
| `rcqueue` | 2 producers, together inside Enqueue for the first 2 of 3 nodes, 2 iterators that take everything | no use after free, exact references, nothing skipped, refinement of `MessagePool` |
| `rcqueue_live` | 2 producers, 2 nodes, an iterator that takes and an overview that takes nothing | Enqueue and Lookup return |
| `history` | 2 threads, 2 topics, maximum 1, 4 messages | counts cover what is kept, the newest are kept, at most the maximum and calls that return as long as appends do not overlap |
| `idgenerator` | 3 threads, 5 ids in a round | no id twice in a round |
| `contexts` | a client and 2 executors, 1 context, a topic and `TopicSent`, 2 subscriptions, 2 messages, callbacks that add and remove topics | lists agree with the registry, one call per message, callbacks only for what is subscribed; the mutex comes back |
| `rbtree` | 7 keys, 2 values | red-black, iterators in order, refinement of `SortedMap` |
| `sections` | 2 section spaces, pages of 3 bytes, 4 allocations or 6 page entries to a page, 5 calls, a restart | no page lost or owned twice, sizes add up, held addresses resolve |
| `storage` | messages of 2 lengths, pages of 12 bytes, 4 writes, persistence switched off and on, a restart | what was written is read back, sections share no page |
| `pipe` | a plugin, 3 messages of bytes that are doubled, a ring of 24 bytes, fifos opened and closed | what is not thrown away published as asked, nothing left in the ring, replies parsed whole |

Why the bounds are enough: two threads meet in every pair of critical sections;
depth 2 lets a callback run every operation, nested in another callback; three
nodes are a header with a removed node between two others, so that a cut has a
middle and an end and the tail is cut, too (the third comes from a producer that is
alone in Enqueue, `OneAtATimeLater`, which halves the run); two executors are one asleep and one
running, and 3 messages let one of them find the queue empty, sleep and be woken
again; with 4 threads two readers and two writers wait at the same time; four
messages on two topics let both threads of `history` reduce while the other's
position is stale. In `contexts` two executors are both inside OnReceive of the one
context while the client removes its topic, and 2 receivers are the two topics; a
second context would only add what `receivers` checks. Seven keys fill a tree of three
levels, and every case of both rebalancing loops occurs (all actions fire). In
`sections` a page of 3 bytes holds a piece of 1 and one of 2, or is left with a
rest; 4 entries make the list of a section outgrow its page within 5 calls, which
moves it (with `MaxCalls = 6`, which takes four minutes, the same holds); in `storage` the encoded messages have 5 and 9 bytes, so that a page of 12
holds two short ones or a long one, 4 writes outgrow the list on the page, and after
the switch the BACKUP section is appended to. In `pipe` frames have 19 to 24 bytes,
so in a ring of 24 every frame after the first wraps around, at a different place each;
three of them are one that is read, one that is lost at a close and one that follows
(two plugins, with `Plugins = {p1, p2}`, `FifoByte <- NamesOfFifos`,
`Payloads <- FewPayloads` and `Registrations <- NoTopics`, hold the same properties).

The type invariants (`TypeOK`) are stated in the modules and not listed in the runs;
those of `Receivers`, `RWMutex`, `Executors` and `IDGenerator` follow from the proofs.

`CHECK_DEADLOCK FALSE` stands where the system may stop: the message, call or
receiver bound is used up, or everything was destroyed.

`storage` has the CONSTRAINT `Uncrossed`: its properties promise nothing once
`crossed` is set, and `crossed` is never reset, so the states behind it need not be
looked at.

### Known deviations

The following properties are stated in the modules because a comment or the
documentation promises them, and the code does not keep them. They are the reason
for the restrictions of the runs above, and the check for a fix: TLC shows the
counterexample with the configuration named, or with that of the run after the
changes named.

| configuration | property | what happens |
|---|---|---|
| `MCReceiversSelfRemove.cfg` | `RemoveReturns` | a receiver that unsubscribes in its own callback waits for itself (callbacks that do not, end: `MCReceiversLive.cfg` passes) |
| `MCReceiversBarrier.cfg` | `UnsubscribeIsBarrier` | a second RemoveReceiver returns while the callback still runs |
| `MCReceivers.cfg`, `CallbackOps = {}`, 2 receivers, 1 topic | `RemoveSucceedsOnce` | removing a receiver that is not there returns true |
| the same | `FindReadsLive` | FindReceiver reads a wrapper after it has left the mutex, perhaps after its delete |
| `MCExecutorsLost.cfg` | `EventuallyPicked` | a message published while the last executor is on its way to sleep wakes nobody |
| `MCExecutorsGap.cfg` | `AnsweredLeavesQueue` | a message whose Wakeup signalled the executor stays in the queue behind one that was not linked yet and whose Wakeup then found nobody |
| `MCExecutors.cfg`, 1 publisher, 4 messages, `Settings = {}`, `Unreadable = {}`, `Destroys = FALSE`, `Spec` | `OneAtATime` | two executors dispatch one topic at once |
| `MCExecutorsArray.cfg` | `ExecutorsFitArray` | a setting beyond the constructor's maximum writes behind the array; hence the settings of `executors` |
| `MCExecutorsDestroy.cfg` | `DestroyReturns` | the thread overwrites ENDING, and the destructor spins for ever |
| `MCRWMutexLeak.cfg` | `UnlockReleases` | a reader that waited for the last writer leaves the mutex locked |
| `MCRWMutex.cfg`, 3 threads | `ReaderWaitEnds` | after that readers and writers wait for ever |
| `MCRCQueueShared.cfg` | `NoUseAfterFree` | executors share one iterator: a node is used after its delete; hence iterators with one user in `rcqueue` |
| `MCRCQueue.cfg`, 1 producer | `FailsAtTheEnd` | a Lookup fails although a message waits |
| `MCHistory.cfg` with `Spec` | `AtMostEver` | two first messages of a topic make two entries, and the topic keeps too many; with 1 thread, `Width = 3` and 6 messages the count wraps around |
| `MCHistoryCount.cfg` | `CountsExact` | CalReduce adds where it should subtract |
| `MCHistoryCount.cfg` | `ReadsStored` | Append removes the message from the storage before Pick reads it |
| `MCHistory.cfg`, `Topics = {1}` | `AlwaysReturns` | the leak of the mutex blocks the next Append of the other thread |
| `MCIDGenerator.cfg` | `StartsAgain` | ids beyond the maximum while the thread that drew it has not reset the counter |
| `MCContexts.cfg` | `PickFinds` | a Pick finds nothing although a message for the context waits |
| `MCContexts.cfg` | `NoticeDelivered` | every notice has the id 0, so a context drops all but the first |
| `MCContexts.cfg` | `RemoveTopicReturns` | RemoveTopic holds the mutex and waits for a callback that waits for the mutex |
| `MCContexts.cfg`, `DestroyAnytime = TRUE`, `CSpec` | `DestroyReleases` | the destructor does not unsubscribe |
| `MCSections.cfg`, `CrashSpec` | `OneOwner` | a process that dies within UpdateSection leaves pages free that are in use |
| `MCSections.cfg`, `AllocIdMax = 7` | `HeldResolve` | ids that start again: two addresses find one entry |
| `MCSections.cfg`, `Names = {"DATA"}` | `NoOverlap` | the sizes of free pieces are added up over a piece in use, and the sum is given away |
| `MCStorage.cfg` without the constraint | `RemoveTakesOne` | removing one message frees the bytes of another |
| the same | `LengthKept` | a persistent message is read with the length of its Base64 form |
| the same | `FoundOnce` | the append to BACKUP writes to the old pages of a section that has moved: a message is found twice or never |
| the same | `FoundReadable` | FindShadows gives shadows that Read refuses |
| the same | `DisableErases` | META survives EnablePersist(false) |
| `MCPipeFrame.cfg` | `FrameFits` | the limit leaves out the header: a frame may be longer than PSend's buffer |
| `MCPipe.cfg`, `Plugins = {p1, p2}`, `FifoByte <- NamesOfFifos` | `ReceivesData` | Receive returns a message without its data |
| the same, as PROPERTY | `NothingThrownAway` | a plugin closes its fifo and loses what was written meanwhile |
| `MCPipe.cfg`, as PROPERTY | `SentStays` | a frame written between the server's read of 0 and its close is thrown away |
| `MCPipe.cfg`, `Registrations <- FifoOnly`, `Topics <- NoTopics`, `MaxSends = 1`, `FairSpec` | `RegisterReturns` | the server expects a topic in front of the fifo's name and never answers |

Two more are not in any model: `Topic::EnablePersistent` (`base/Topic.cpp:117`) calls
itself without an end, and `SendMessage` gives PSend the whole of a long message for
each of its parts.

## Fairness

Threads are scheduled: a thread whose next step stays possible takes it (WF).
Where a thread waits for a mutex or repeats a compare-and-set, its step is
possible only from time to time, and WF promises nothing; there the models assume
SF: a thread that can get the mutex again and again gets it once, a
compare-and-set that is tried again and again succeeds once. Neither TMQMutex
(a pthread mutex) nor the hardware guarantees it formally; on the schedulers the
code runs on both hold with probability 1, and the code relies on them. No
fairness is assumed for what the application does: publishing, subscribing,
setting; of callbacks only that they end (`Receivers`: each one by itself;
`Contexts`: SF of `ReceiveReturn`, as a callback that has finished its last call
returns). `Executors` assumes WF only: its publications are bounded, so a thread that
wants `dispatcherMutex` cannot be passed for ever. In `PipeService` WF of the server's
loop, of opening, writing and closing a fifo and of a plugin's Receive is assumed only
for `RegisterReturns`; the properties of `pipe` are safety.

## Proofs

All theorems hold for every value of the constants under the assumptions the
modules name.

`ContextsProofs`, about the registry. The wait in RemoveReceiver works because of a count:
`runningReceivers[id]` is the number of frames inside the callback of `id`
(`Counted`). The registry's invariants do not say so and are not inductive. `IInv`
adds it, and that removal takes an id out of every list (`Listed`,
`RemovingSafely`), that a frame inside a callback refers to a live wrapper
(`Receiving`), and that frames above the top are empty (`Stacked`). There is one
lemma per action. From it: `TypeCorrect`, `ReceiverLiveness`, `SingleDelete`, and
the action property `RemovalIsFinal`.

There, too: `CalledInOrder` speaks of what a dispatch has called, `NobodyMissed` of
what it has left out; neither says what it still has to call. `OInv` adds that called
and remaining ids together are one increasing sequence, that the snapshot's border
separates them from younger receivers, and that every id of the topic below that
border is in one of the two (`Accounts`). From it: `OrderOfCalls`, `NoneMissed`.

`ContextsProofs`, about the contexts. `UsesRegistry` shows that every step of a context is a step of the
registry or leaves it alone, so the theorems above hold for the composition. `CIInv`
adds who holds a mutex and in which call (`Holding`) and what the lists, the registry
and the saved index of a RemoveTopic have to do with each other while it waits
(`Agreeing`). From it: `ContextLists`, `CallbacksAreSafe`. `OneCallPerMessage` needs
more, for `calls` counts what many dispatches did over time: `OnceInv` adds that a topic
lists a context at most once (`ListedApart`, from AddTopic's test of its list), that
the pool is in the order of its ids and no two executors have the same message
(`Queued`), that a message not yet dispatched has called nobody (`Uncalled`), and that
a dispatch has still to call only contexts it has not called (`OnTopic`).

`ExecutorsProofs`. `DestructorWaits`: RELEASE is the last thing a thread writes
(`Released`), the destructor has passed only executors that are released (`Closing`),
and no publisher is left inside to start another (`Started`). `PoolWithinLimits` and
`PoolOfExecutors`: the number of executors is below a limit somebody set
(`Limited`), although Wakeup reads the setting before it takes the mutex. The second
is the run's `ExecutorPool`; its hypothesis is that the settings have some upper bound,
as ints have; the greatest of them is the bound. `MessagesAreConserved` is
`NothingLost`, also for messages that cannot be read: the places together hold what was
published and their sizes add up to as much (`Placed`), so no message is in two. A
message in the hands of a thread that was delivered before would leave fewer than were
published (`HeldOnce`), so what a thread delivers is new; `Woken` counts the publishers
that wakeupCount lacks. Its sum over the threads is a fold,
so the module first proves, by induction on finite sets, that such a fold exists, is a
number, and changes by what one entry changes (`SubsetInduction`, `SumsExist`,
`SumChange`).

`RCQueueProofs`. The remains of a node are right only if one says who holds each
reference in the middle of a call, where it moves from a link to a local, from there to
an iterator, or is counted before it is stored. `Exact` names the holders: links, except
those that Clear has cut off or not yet counted (`Hides`), nodes of producers before
they are linked, the two pointers of an iterator, `at` of a Leave and `nx` of a Clear.
`ReadersExact` does the same for the readers. That nobody reaches a node whose remains
are 0 needs the shape of the list (`InOrder`): the nodes between the header and the tail
are a line, broken only behind the old tail of a producer that is about to link
(`InLine`); the removed nodes a Clear has cut off are a chain of which it alone holds
the head (`Chain`); and a node that is not removed is in the line. `Locks`, `Doom` and
`Entering` say what the flag writing excludes, that a doomed node has no reference left,
and that the link an iterator has read is still there when it enters. There is one
lemma per action and part. From it: `CountingHolds`, `NobodyTouchesFreed`,
`CountsExactAtRest`, for every number of producers, consumers, iterators and nodes. The
hypothesis `OneEach`, that no two consumers use one iterator, is that of the run
`rcqueue`; it is needed (`MCRCQueueShared.cfg`).

There, too: `QueueIsMessagePool` is the refinement `IsMessagePool`: every step of the
list is a step of the pool or leaves it alone. A Take gets the oldest message its
iterator wants because nothing it wants waits behind it (`Passing`): no message waits
between a node and the one its link leads to, in the chain a Clear unlinks, or between
the node of a producer and the one it will be linked to; an iterator that follows links
passes only what is taken or not wanted. For the link that Clear moves over the chain
this needs that the nodes of the line are in the order of their numbers. `NothingIsSkipped`
is the run's `NothingSkipped`, of which that is one half: the links never lead beyond a
message that waits. The other half is that they do lead on (`Ending`): they end only at
the tail, at a node whose producer is about to link the next one and at the last node
of a chain that was cut off (`LinkLast`), and never go round (`Acyclic`) although Clear
turns a link back: a circle through the line would have a last node there (`NoCircle`).

`RWMutexProofs`. `IInv` adds to the exact counters who owns the mutex (`Owned`)
and that a writer behind its spin has no shared reader (`Alone`); it holds although
the mutex may leak, because a leaked mutex stays owned. From it: `TypeCorrect`,
`Counting`, `Exclusion`, `NoOvertaking`.

`HistoryProofs`. `NewestAreKept`: CalReduce removes the least message of a topic, so
those that are kept are the newest, even where the counts are wrong and the positions
stale: none of both is in the invariant. `UsesMutex`: each step of the history is a step
of the mutex or leaves it alone, so `RWMutexProofs` applies to it, and with it
`StatsGuarded`: the list of counts changes only while nobody else is inside.

There, too: `CountsCoverAlways` and `AtMostMaxAlways`, of every behaviour, up to the step
in which a sum that CalStat forms comes to half the range of TMQSize (`wrapped`). They
end there because the code does: Append takes a greater excess for negative and reduces
nothing, and a count that has gone round may be less than what is kept. The step does come:
since CalReduce adds to the count what it should subtract, the excess doubles with
every append, and with 128 messages and 32 bits a topic reaches it at its 158th append
(`AtMostEver` and `CountsExact`, under the known deviations). So what the theorems
say is how long the maximum holds although the sign is wrong. On the constants of the run
`history` it is not reached. That the counts cover
what is kept needs `Covered`: a message that is kept is counted, or its thread has yet to
count it (`Uncounted`); this holds for overlapping appends and stale positions, which
may count a message under the wrong topic but never lose one. That no topic keeps
too many needs `Alone`, what holds while appends have not overlapped: the list is sorted
and the position found is that of the topic (`WellPlaced`); a topic at rest has at most
the maximum and at least as much counted (`Fine`); and the topic of the call in progress
lacks what the step has yet to do (`InHand`). The counts are only bounded from below, which
is why the wrong sign does no harm here. The lemmas under it: the recursive function of
FindPosition has a solution and, on a sorted list, finds the place of the topic
(`SearchEnds`, `FindPositionIs`; `WalkExists` solves a recursion that ends by a rank), and
a sum over a list, which the library folds in an order it leaves open, is the same in
every order (`SumsExist`, `AnyFirst`, `SumsAgree`) and changes by what one entry
changes (`SumPut`, `SumInserted`). The assumption `2^(Width - 1) < 2^Width` of `History`
is a fact about powers that the provers do not know.

`IDGeneratorProofs`. `IdsAreUnique`: all threads that have seen the instance share
one counter (`Shared`), and no issued id is ahead of it (`Behind`).

`RbTreeProofs`, for every finite set of keys. What the tree has to satisfy is defined
by recursion over it, which the provers cannot do. The invariant says instead that there
is a function `S` from the nodes to the sets of keys below them, and a function `H` to
the numbers of black nodes on the ways down, that satisfy at every node the equation
their definition would have (`Parts`, `Level`); `Shape` adds that each side of a node is
before or behind it (`Ordered`), that the parent links are the inverse of the child
links (`Linked`), and that a key that is not in the tree has no links (`Apart`). `IInv` says which of this holds in the middle of a call: the shape always; of
the colours and heights everything but what the call in progress has left to mend, which
is a red node with a red parent at `x` (`Balancing`), or one black node too few on the
side of `x` (`Lacking`), or nothing any more (`Settled`). The argument:

* Walks. Every loop of the code that goes down (or up) visits nodes with ever smaller
  (larger) `S`, so its recursive function has a solution, and what it returns follows
  by taking a node with the least rank at which it were wrong (`FindNodeIs`, `PlaceIsOf`,
  `ExtremeIs`, `AdvanceIs`, `BlackHeightIs`).
* Rotations change `S` and `H` at the two nodes they turn and nowhere else, provided the
  equation of the two heights holds in the new order; the cases of the two loops differ in
  the colours that make it so.
* An erase of a node with one child or none splices it out: the sets of its ancestors lose
  its key (the lemmas `Splice...`). An erase of a node with two is that for its
  successor, followed by a renaming of the node to the successor (the lemmas `Rename...`),
  which keeps the order because no key lies between the two. That the code relinks
  in another order and arrives at the same links is `UnlinkTwo`.

From it: `TypeCorrect`, `RedBlackHolds` and `IteratorOrderHolds` are the invariants of
the run `rbtree`, and `ImplementsMap` is its refinement `IsSortedMap`: under `IInv`
`Found` is `value`, and `NextStep` shows with the invariant how each action changes
`value`. `CopyIsSame` is why the copy of a tree is the tree.

`PipeProofs`, of every behaviour, as long as PSend was given no frame that is longer than
its buffer, which is as long as the ring (`overrun`). SendMessage means to see to that and
forgets the header (`FrameFits` does not hold); such a frame is written behind the buffer.
In the ring it would fill it before its end has come; start and end are then equal, which
counts as empty. How many messages there are, of which plugins, with which bytes and on
which topics is left open, as are the size of the ring and the longest message.

The invariant (`IInv`) is about one stream, the bytes of all the messages in the order of
their writes. The server has dispatched a first part of it, whole frames; the ring holds
a second, wherever it wraps around; the fifo holds the rest (`Flow`). What is published is
what the dispatched messages were asked to say, the others being registrations (`Link`).
Neither property says anything of the ring or the fifo, from which the next messages
come. While the server is at the end of its fifo or has it not open, the same holds of what
was sent when it came there and of an empty fifo (`kept`): this is what becomes the
stream again if what was written since is thrown away. A letter that waits for its write is
one the server can read (`Ready`). The argument:

* Framing. A code is described by the places where the code of each byte begins (`Codes`),
  not by recursion over the bytes. What Decode returns is what was encoded (`DecodeIs`),
  and the loop of OnExecute, which steps over doubled zeros, never meets a single zero
  inside of a body (`TrackIs`).
* Detection. That loop is a recursive function of its state. It has a solution because the
  position grows (`RecursionExists`), and what holds at its end follows from the state with
  the least rank at which it were wrong, in place of an induction (`LoopKeeps`). It cuts
  out the body of each frame of which the end has come (`DetectsFrames`). It goes on from
  the first byte behind the body's zero, so the `ff 00` that closes the frame stays in the
  ring (`Behind`, its second case) and together with the next frame makes an empty
  message, which OnPipeMessage drops.
* Ring. What a read adds behind `end` and what the detection takes at `start` are the
  stream's next bytes (`RingReads`, `RingMoves`). Less than a frame is left, so the ring is
  never full after a turn and `start = end` does mean empty.
* Messages. Split finds the first `@`, which no topic contains (`SplitIs`), and the type
  and the data are read back (`ReadIs`); a registration changes the receivers and
  publishes nothing.

From it: `PublishedAsAskedAlways`, `CaughtUpAlways`. The second holds because, when the
fifo is empty, the stream ends in the ring, and the next frame would be there in full.

Model-checked only:

* everything under fairness (`AnsweredIsPicked`, `PublishReturns`, `SpinEnds`,
  `CallsReturn`, `MutexReleased`), which the prover cannot express;
* `Sections` and `Storage`: what they do is in nested recursive operators over pages and
  pieces, which the provers cannot expand;
* `ParsedWhole` of `PipeService`: there are no lemmas about the recursion of PReceive
  over the bytes.

## What the models assume

* Memory is sequentially consistent. The code uses relaxed atomics and plain
  accesses; a weaker memory has more behaviours than these models.
* Addresses of freed nodes are not reused (no ABA).
* Counters in the state word of a node (8 and 16 bits) and in `rw` (16 bits) do
  not overflow, as no process has that many threads inside.
* Spin loops read their word again in every round, although not every one is
  declared volatile.
* TMQMutex is recursive: a thread that holds it may take it again.
* The file calls succeed; a crash loses no write that was made before it.
* The names a client of the pipe sends are shorter than `TMQ_TOPIC_MAX_LENGTH`, which
  Publish and Subscribe require (`PipeAssumption`). OnReceive and OnRegister copy them into
  buffers of 255 bytes without a test (`serice/TMQPipe.cpp:146`); what a longer name
  does there is not modelled, nor are messages of the settings topic.

## Not modelled

* The lists and strings (`List.h`, `Chars.h`), the copying in `TMQTypes.cpp` and the
  encoding of Base64: sequential data handling. Only the length of an encoding matters
  to what is modelled, and is.
* `Settings.Parse` and the string helpers: sequential text handling.
* `MemSpace`, which only the tests use, `LazyLinkList`, `LinkList`, `RWList`, `RWQueue`,
  `SpinList`: not used by the library.
* The cache of mapped pages of FileSpace and the errors of its system calls.
* The loop of the picker over the priorities (one iterator each, highest first), and
  messages of the settings topic.
* In `Contexts`: dispatching on the publisher's own thread (a maximum of 0 executors,
  which `Executors` has) and topics that are refused.
* In `Storage`: the test of the spaces outside the mutex in Write (`base/TMQStorage.cpp:60`),
  which races with EnablePersist(false), and a crash within a call of AppendLinearSpace or
  Write (`:72` writes the shadow before it is complete).
* The long-message branch of the pipe's SendMessage.
* `GetTopicId` and `SetTopicId` (nobody calls them), Exist of the ordered list.

## What is left

* Proofs: the sections and the storage, which need their recursive functions stated as
  lemmas first.
* The picker's priorities between `RCQueue` and `Contexts`; two calls of TMQStorage at
  once; a crash within AppendLinearSpace.
