--------------------------- MODULE ExecutorsProofs ---------------------------
(***************************************************************************)
(* Proofs about the pool of executors, for every number of publishers and  *)
(* messages, every array and every setting: which threads exist, that the  *)
(* destructor leaves none behind, and that no message is lost.             *)
(*                                                                         *)
(* The spin of the destructor reads the state RELEASE of an executor, not  *)
(* its thread.  It is enough because the thread writes that state last     *)
(* (Released), and because no publisher is left that could start another   *)
(* executor (Closing).                                                     *)
(***************************************************************************)
EXTENDS Executors, FiniteSetTheorems, WellFoundedInduction, TLAPS

(* A set of naturals that is not empty has a least element, and Min is it. *)
LEMMA NatMin ==
  ASSUME NEW S, S \subseteq Nat, S # {}
  PROVE  Min(S) \in S /\ \A y \in S : Min(S) <= y
  <1> DEFINE Less == {ss \in Nat \X Nat : ss[1] < ss[2]}
  <1>0. IsWellFoundedOn(Less, Nat)
    BY NatLessThanWellFounded DEF OpToRel
  <1>1. PICK x \in S : \A y \in S : ~ (<<y, x>> \in Less)
    <2> HIDE DEF Less
    <2> QED BY <1>0, WFMin
  <1>2. \A y \in S : x <= y
    <2>1. ASSUME NEW y \in S PROVE ~(y < x)
      BY <1>1
    <2>2. QED
      BY <2>1
  <1>3. QED
    BY <1>2 DEF Min

(* A bounded one has a greatest element, and Max is it.                    *)
LEMMA NatMax ==
  ASSUME NEW S, NEW k \in Nat, S \subseteq 0..k, S # {}
  PROVE  Max(S) \in S /\ \A y \in S : y <= Max(S)
  <1> DEFINE Below == {k - y : y \in S}
  <1>1. Below \subseteq Nat /\ Below # {}
    <2>1. \A y \in S : y \in 0..k
      OBVIOUS
    <2>2. \A y \in 0..k : k - y \in Nat
      OBVIOUS
    <2>3. \A y \in S : k - y \in Nat
      BY <2>1, <2>2, Zenon
    <2>4. Below \subseteq Nat
      BY <2>3, Zenon
    <2>5. PICK y \in S : TRUE
      BY Zenon
    <2>6. k - y \in Below
      BY <2>5, Zenon
    <2>7. QED
      BY <2>4, <2>6
  <1>2. Min(Below) \in Below /\ \A z \in Below : Min(Below) <= z
    BY <1>1, NatMin
  <1>3. PICK x \in S : Min(Below) = k - x
    BY <1>2
  <1>4. \A y \in S : y <= x
    <2>1. ASSUME NEW y \in S PROVE y <= x
      <3>1. k - x <= k - y
        BY <1>2, <1>3
      <3>2. QED
        BY <3>1
    <2>2. QED
      BY <2>1
  <1>5. QED
    BY <1>4 DEF Max

-----------------------------------------------------------------------------

Places == PublisherPCs \cup DispatchPCs \cup ExecutorPCs

(* As much of the types as the argument needs.                             *)
Typed ==
  /\ activeExecutorCount \in Nat
  /\ closeAt \in Nat
  /\ closing \in {"open", "signal", "spin", "closed"}
  /\ pc \in [Threads -> Places] /\ state \in [Executors -> States]

(* Exactly the first activeExecutorCount executors have or had a thread.   *)
Started == \A e \in Executors : pc[e] = "none" <=> e > activeExecutorCount

(* RELEASE is the last thing a thread writes.                              *)
Released == \A e \in Executors : state[e] = "release" => pc[e] = "gone"

(* The destructor goes through the array while no publisher is inside.     *)
Closing ==
  /\ closing = "open" => closeAt = 0
  /\ closing # "open" => \A p \in Publishers : pc[p] = "outside"
  /\ closing = "closed" => closeAt > activeExecutorCount
  /\ \A e \in Executors : e < closeAt => pc[e] \in {"none", "gone"}

IInv == Typed /\ Started /\ Released /\ Closing

(* There are publishers and executors, and nobody is both.                 *)
LEMMA Disjoint ==
  /\ Executors \subseteq Threads /\ Publishers \subseteq Threads
  /\ \A e \in Executors : e \notin Publishers /\ e \in Nat /\ e >= 1
  <1>1. \A e \in Executors : e \in Nat /\ e >= 1
    BY DEF Executors
  <1>2. \A e \in Executors : e \notin Publishers
    BY ExecutorsAssumption DEF Executors
  <1>3. QED
    BY <1>1, <1>2 DEF Threads

(* No executor exists before the first Wakeup.                             *)
THEOREM InitIInv == Init => IInv
  <1> SUFFICES ASSUME Init PROVE IInv
    OBVIOUS
  <1>1. \A e \in Executors : pc[e] = "none" /\ state[e] = "init" /\ e > 0
    BY Disjoint DEF Init
  <1>2. Typed
    BY DEF Init, Typed, States, Places, PublisherPCs, ExecutorPCs
  <1>3. QED
    BY <1>1, <1>2 DEF Init, IInv, Started, Released, Closing

(* A step of one thread that is there and stays there.                     *)
LEMMA ThreadMoves ==
  ASSUME IInv, NEW t \in Threads, NEW place \in Places,
         pc[t] \notin {"none", "gone", "outside"},
         place \notin {"none", "gone"},
         pc' = [pc EXCEPT ![t] = place],
         UNCHANGED <<activeExecutorCount, state, closing, closeAt>>
  PROVE  IInv'
  <1>1. Typed'
    BY DEF IInv, Typed
  <1>2. Started' /\ Released' /\ Closing'
    BY Disjoint DEF IInv, Typed, Started, Released, Closing
  <1>3. QED
    BY <1>1, <1>2 DEF IInv

(* A step of a publisher enters or goes on while the topic is open.        *)
LEMMA PublisherMoves ==
  ASSUME IInv, NEW p \in Publishers, NEW place \in Places, closing = "open",
         pc' = [pc EXCEPT ![p] = place],
         UNCHANGED <<activeExecutorCount, state, closing, closeAt>>
  PROVE  IInv'
  BY Disjoint DEF IInv, Typed, Started, Released, Closing

(* A publisher inside the topic keeps it open.                             *)
LEMMA OpenInside ==
  ASSUME IInv, NEW p \in Publishers, pc[p] # "outside"
  PROVE  closing = "open"
  BY DEF IInv, Closing

(* A step that moves no thread.                                            *)
LEMMA NobodyMoves ==
  ASSUME IInv, UNCHANGED <<pc, activeExecutorCount, state, closing, closeAt>>
  PROVE  IInv'
  BY DEF IInv, Typed, Started, Released, Closing

(* Wakeup finds an executor that waits.                                    *)
LEMMA WakeupSignalStep ==
  ASSUME IInv, NEW p \in Publishers, WakeupSignal(p)
  PROVE  IInv'
  <1> DEFINE e == at[p]
  <1>1. /\ closing = "open" /\ closeAt = 0
        /\ pc' = [pc EXCEPT ![p] = "outside", ![e] = IF @ = "wait" THEN "test" ELSE @]
        /\ UNCHANGED <<activeExecutorCount, state, closing, closeAt>>
    BY DEF WakeupSignal, counters, closer, IInv, Closing
  <1> HIDE DEF e
  <1>2. pc' \in [Threads -> Places]
    <2>1. "outside" \in Places /\ "test" \in Places
      BY DEF Places, PublisherPCs, ExecutorPCs
    <2>2. QED
      BY <1>1, <2>1 DEF IInv, Typed
  <1>3. \A x \in Executors : pc'[x] = pc[x] \/ (pc[x] = "wait" /\ pc'[x] = "test")
    BY <1>1, Disjoint DEF IInv, Typed
  <1>4. QED
    BY <1>1, <1>2, <1>3, Disjoint DEF IInv, Typed, Started, Released, Closing

(* Wakeup starts one more executor.                                        *)
LEMMA WakeupCreateStep ==
  ASSUME IInv, NEW p \in Publishers, WakeupCreate(p)
  PROVE  IInv'
  <1> DEFINE new == activeExecutorCount + 1
  <1>1. /\ closing = "open" /\ closeAt = 0
        /\ activeExecutorCount' = new
        /\ state' = [state EXCEPT ![new] = "starting"]
        /\ pc' = [t \in Threads |-> CASE t = p   -> "outside"
                                      [] t = new -> "new"
                                      [] OTHER   -> pc[t]]
        /\ UNCHANGED <<closing, closeAt>>
    BY DEF WakeupCreate, closer, IInv, Closing
  <1>2. new \in Nat
    BY DEF IInv, Typed
  <1>3. \A x \in Executors : pc'[x] = IF x = new THEN "new" ELSE pc[x]
    BY <1>1, Disjoint
  <1>4. \A x \in Executors : state'[x] = IF x = new THEN "starting" ELSE state[x]
    BY <1>1 DEF IInv, Typed
  <1>5. \A x \in Executors : x > new <=> x > activeExecutorCount /\ x # new
    BY Disjoint DEF IInv, Typed
  <1> HIDE DEF new
  <1>6. Typed'
    <2>1. pc' \in [Threads -> Places]
      BY <1>1 DEF IInv, Typed, Places, PublisherPCs, ExecutorPCs
    <2>2. state' \in [Executors -> States]
      BY <1>1 DEF IInv, Typed, States
    <2>3. QED
      BY <1>1, <1>2, <2>1, <2>2 DEF IInv, Typed
  <1>7. Started'
    BY <1>1, <1>3, <1>5 DEF IInv, Started
  <1>8. Released'
    BY <1>3, <1>4 DEF IInv, Released
  <1>9. Closing'
    BY <1>1, Disjoint DEF Closing
  <1>10. QED
    BY <1>6, <1>7, <1>8, <1>9 DEF IInv

(* A step of the thread of an executor, which may write its state.         *)
LEMMA ExecutorMoves ==
  ASSUME IInv, NEW e \in Executors, NEW place \in Places, NEW s \in States,
         pc[e] \notin {"none", "gone"}, place # "none",
         s = "release" => place = "gone",
         pc' = [pc EXCEPT ![e] = place], state' = [state EXCEPT ![e] = s],
         UNCHANGED <<activeExecutorCount, closing, closeAt>>
  PROVE  IInv'
  <1>1. /\ \A x \in Executors : pc'[x] = IF x = e THEN place ELSE pc[x]
        /\ \A x \in Executors : state'[x] = IF x = e THEN s ELSE state[x]
        /\ \A p \in Publishers : pc'[p] = pc[p]
    BY Disjoint DEF IInv, Typed
  <1>2. Typed'
    BY DEF IInv, Typed
  <1>3. Started'
    BY <1>1 DEF IInv, Started
  <1>4. Released'
    BY <1>1 DEF IInv, Released
  <1>5. Closing'
    BY <1>1 DEF IInv, Closing
  <1>6. QED
    BY <1>2, <1>3, <1>4, <1>5 DEF IInv

(* The loop of an executor.                                                *)
LEMMA ThreadStepKeeps ==
  ASSUME IInv, NEW e \in Executors, ThreadStep(e) \/ SpuriousWakeup(e)
  PROVE  IInv'
  <1>1. /\ pc[e] \notin {"none", "gone"}
        /\ UNCHANGED <<activeExecutorCount, closing, closeAt>>
    BY DEF ThreadStep, SpuriousWakeup, ThreadReady, ThreadTest, ThreadRun,
           ThreadPark, ThreadEnd, UnchangedByThread, counters, closer
  <1>2. /\ {"test", "end", "run", "pick", "wait", "gone"} \subseteq Places
        /\ {"ready", "running", "waiting", "release"} \subseteq States
    BY DEF Places, ExecutorPCs, DispatchPCs, States
  <1>3. /\ state[e] \in States /\ state[e] # "release"
        /\ state = [state EXCEPT ![e] = state[e]]
    BY <1>1 DEF IInv, Typed, Released
  <1>4. \E place \in Places, s \in States :
          /\ place # "none" /\ (s = "release" => place = "gone")
          /\ pc' = [pc EXCEPT ![e] = place] /\ state' = [state EXCEPT ![e] = s]
    BY <1>2, <1>3 DEF ThreadStep, SpuriousWakeup, ThreadReady, ThreadTest,
                      ThreadRun, ThreadPark, ThreadEnd, SetState, Go
  <1>5. QED
    BY <1>1, <1>4, ExecutorMoves

(* An executor or the publisher dispatches what waits.                     *)
LEMMA DispatchStepKeeps ==
  ASSUME IInv, NEW t \in Threads, DispatchStep(t)
  PROVE  IInv'
  <1>1. /\ pc[t] \in DispatchPCs
        /\ UNCHANGED <<activeExecutorCount, state, closing, closeAt>>
    BY DEF DispatchStep, Pick, Read, ReadFails, Delivered, PickNothing, Count,
           DispatchPCs, Unchanged4Dispatch, closer
  <1>2. \E place \in {"read", "deliver", "pick", "count", "outside", "park"} :
          pc' = [pc EXCEPT ![t] = place]
    BY DEF DispatchStep, Pick, Read, ReadFails, Delivered, PickNothing, Count, Go
  <1>3. {"read", "deliver", "pick", "count", "outside", "park"} \subseteq Places
    BY DEF Places, ExecutorPCs, DispatchPCs, PublisherPCs
  <1>4. QED
    BY <1>1, <1>2, <1>3, ThreadMoves DEF DispatchPCs

(* A publisher enters an open topic and finds it open until it leaves.     *)
LEMMA PublisherStep ==
  ASSUME IInv, NEW p \in Publishers, Publish(p) \/ WakeupStep(p)
  PROVE  IInv'
  <1>1. CASE WakeupSignal(p) \/ WakeupCreate(p)
    <2>1. pc[p] # "outside"
      BY <1>1 DEF WakeupSignal, WakeupCreate
    <2>2. QED
      BY <1>1, <2>1, OpenInside, WakeupSignalStep, WakeupCreateStep
  <1>2. CASE WakeupNext(p)
    BY <1>2, NobodyMoves DEF WakeupNext, counters, closer
  <1>3. CASE Publish(p) \/ Link(p) \/ WakeupSettings(p) \/ SetMaxExecutorCount(p)
               \/ WakeupSelf(p) \/ WakeupLock(p) \/ WakeupLeave(p)
    <2>1. closing = "open"
      BY <1>3, OpenInside DEF Publish, Link, WakeupSettings, SetMaxExecutorCount,
                              WakeupSelf, WakeupLock, WakeupLeave
    <2>2. UNCHANGED <<activeExecutorCount, state, closing, closeAt>>
      BY <1>3 DEF Publish, Link, WakeupSettings, SetMaxExecutorCount, WakeupSelf,
                  WakeupLock, WakeupLeave, UnchangedByWakeup, counters, closer
    <2>3. \E place \in {"link", "settings", "set", "self", "pick", "lock", "scan",
                        "outside"} :
            pc' = [pc EXCEPT ![p] = place]
      BY <1>3 DEF Publish, Link, WakeupSettings, SetMaxExecutorCount, WakeupSelf,
                  WakeupLock, WakeupLeave, Go
    <2>4. {"link", "settings", "set", "self", "pick", "lock", "scan", "outside"}
            \subseteq Places
      BY DEF Places, DispatchPCs, PublisherPCs
    <2>5. QED
      BY <2>1, <2>2, <2>3, <2>4, PublisherMoves
  <1>4. QED
    BY <1>1, <1>2, <1>3 DEF WakeupStep

(* The destructor.                                                         *)
LEMMA DestroyBegins ==
  ASSUME IInv, Destroy
  PROVE  IInv'
  <1>1. /\ closing = "open" /\ closing' = "signal" /\ closeAt' = 1
        /\ \A p \in Publishers : pc[p] = "outside"
        /\ UNCHANGED <<activeExecutorCount, state, pc>>
    BY DEF Destroy, UnchangedByCloser, counters
  <1>2. Typed' /\ Started' /\ Released'
    BY <1>1 DEF IInv, Typed, Started, Released
  <1>3. Closing'
    BY <1>1, Disjoint DEF Closing
  <1>4. QED
    BY <1>2, <1>3 DEF IInv

(* The destructor raises close and signals an executor.                    *)
LEMMA DestroySignalStep ==
  ASSUME IInv, DestroySignal
  PROVE  IInv'
  <1>1. /\ closing = "signal" /\ closing' = "spin"
        /\ state' = [state EXCEPT ![closeAt] = "ending"]
        /\ pc' = [pc EXCEPT ![closeAt] =
                    IF @ = "wait" /\ state[closeAt] = "waiting" THEN "test" ELSE @]
        /\ UNCHANGED <<activeExecutorCount, closeAt>>
    BY DEF DestroySignal, SetState, UnchangedByCloser, counters
  <1>2. closeAt \notin Publishers \/ pc' = pc
    BY <1>1 DEF IInv, Typed, Closing
  <1>3. /\ \A x \in Executors : \/ pc'[x] = pc[x]
                                \/ x = closeAt /\ pc[x] = "wait" /\ pc'[x] = "test"
        /\ \A x \in Executors : state'[x] # "release" \/ state'[x] = state[x]
        /\ \A p \in Publishers : pc'[p] = pc[p]
    BY <1>1, <1>2, Disjoint DEF IInv, Typed
  <1>4. Typed'
    <2>1. "test" \in Places /\ "ending" \in States
      BY DEF Places, ExecutorPCs, States
    <2>2. QED
      BY <1>1, <2>1 DEF IInv, Typed
  <1>5. Started' /\ Released'
    BY <1>1, <1>3 DEF IInv, Started, Released
  <1>6. Closing'
    BY <1>1, <1>3, Disjoint DEF IInv, Typed, Closing
  <1>7. QED
    BY <1>4, <1>5, <1>6 DEF IInv

(* The destructor spins until an executor is released.                     *)
LEMMA DestroySpinStep ==
  ASSUME IInv, DestroySpin
  PROVE  IInv'
  <1>1. /\ closing = "spin" /\ closing' = "signal" /\ closeAt' = closeAt + 1
        /\ state[closeAt] = "release"
        /\ UNCHANGED <<activeExecutorCount, state, pc>>
    BY DEF DestroySpin, UnchangedByCloser, counters
  <1>2. Typed' /\ Started' /\ Released'
    BY <1>1 DEF IInv, Typed, Started, Released
  <1>3. \A e \in Executors : e < closeAt + 1 => e < closeAt \/ e = closeAt
    BY Disjoint DEF IInv, Typed
  <1>4. Closing'
    BY <1>1, <1>3 DEF IInv, Closing, Released
  <1>5. QED
    BY <1>2, <1>4 DEF IInv

(* The destructor has passed them all.                                     *)
LEMMA DestroyReturnStep ==
  ASSUME IInv, DestroyReturn
  PROVE  IInv'
  <1>1. /\ closing = "signal" /\ closing' = "closed"
        /\ closeAt > activeExecutorCount
        /\ UNCHANGED <<activeExecutorCount, state, pc, closeAt>>
    BY DEF DestroyReturn, UnchangedByCloser, counters
  <1>2. QED
    BY <1>1 DEF IInv, Typed, Started, Released, Closing

(* Every step keeps the inductive invariant.                               *)
THEOREM NextIInv == IInv /\ [Next]_vars => IInv'
  <1>1. ASSUME IInv, UNCHANGED vars PROVE IInv'
    BY <1>1, NobodyMoves DEF vars, counters, threads, closer
  <1>2. ASSUME IInv, NEW n \in Settings, PutSetting(n) PROVE IInv'
    BY <1>2, NobodyMoves DEF PutSetting, counters, threads, closer
  <1>3. QED
    BY <1>1, <1>2, PublisherStep, DispatchStepKeeps, ThreadStepKeeps,
       DestroyBegins, DestroySignalStep, DestroySpinStep, DestroyReturnStep
       DEF Next, DestroyStep

(* NothingRunsAfterDestroy: when ~ThreadExecutor of an executor has        *)
(* returned, its thread is gone, and when ~TMQDispatcher has, all are,     *)
(* although a thread may overwrite ENDING and although Wakeup creates      *)
(* executors of its own accord.                                            *)
THEOREM DestructorWaits == Spec => []NothingRunsAfterDestroy
  <1>1. IInv => NothingRunsAfterDestroy
    <2> SUFFICES ASSUME IInv, NEW e \in Executors, e < closeAt \/ closing = "closed"
                 PROVE  pc[e] \in {"none", "gone"}
      BY DEF NothingRunsAfterDestroy
    <2>1. CASE e < closeAt
      BY <2>1 DEF IInv, Closing
    <2>2. CASE closing = "closed" /\ ~(e < closeAt)
      <3>1. e > activeExecutorCount
        BY <2>2, Disjoint DEF IInv, Typed, Closing
      <3>2. QED
        BY <3>1 DEF IInv, Started
    <2>3. QED
      BY <2>1, <2>2
  <1>2. QED
    BY <1>1, InitIInv, NextIInv, PTL DEF Spec

-----------------------------------------------------------------------------
(* The limit of the pool.                                                  *)

Limits == Settings \cup {InitialMax}

(* Every limit in force is one that was set or given to the constructor.   *)
Limited ==
  /\ maxExecutorCount \in Limits
  /\ setting \in Settings \cup {-1}
  /\ value \in [Publishers -> Settings \cup {-1}]
  /\ activeExecutorCount \in Nat
  /\ \E n \in Limits : activeExecutorCount <= n

(* No step starts an executor above all limits.                            *)
LEMMA LimitedStep ==
  ASSUME Limited, [Next]_vars
  PROVE  Limited'
  <1>1. CASE UNCHANGED <<maxExecutorCount, setting, value, activeExecutorCount>>
    BY <1>1 DEF Limited
  <1>2. ASSUME NEW n \in Settings, PutSetting(n) PROVE Limited'
    BY <1>2 DEF Limited, PutSetting, counters
  <1>3. ASSUME NEW p \in Publishers, WakeupSettings(p) PROVE Limited'
    <2>1. value' \in [Publishers -> Settings \cup {-1}]
      BY <1>3 DEF Limited, WakeupSettings, UnchangedByWakeup
    <2>2. QED
      BY <1>3, <2>1 DEF Limited, WakeupSettings, UnchangedByWakeup, counters
  <1>4. ASSUME NEW p \in Publishers, SetMaxExecutorCount(p) PROVE Limited'
    <2>1. value[p] \in Settings \cup {-1}
      BY DEF Limited
    <2>2. maxExecutorCount' \in Limits
      BY <1>4, <2>1 DEF Limited, Limits, SetMaxExecutorCount
    <2>3. value' \in [Publishers -> Settings \cup {-1}]
      BY <1>4 DEF Limited, SetMaxExecutorCount
    <2>4. QED
      BY <1>4, <2>2, <2>3
         DEF Limited, SetMaxExecutorCount, UnchangedByWakeup, counters
  <1>5. ASSUME NEW p \in Publishers, WakeupCreate(p) PROVE Limited'
    <2>1. /\ activeExecutorCount < maxExecutorCount
          /\ activeExecutorCount' = activeExecutorCount + 1
          /\ UNCHANGED <<maxExecutorCount, setting, value>>
      BY <1>5 DEF WakeupCreate, config
    <2>2. maxExecutorCount \in Nat
      BY ExecutorsAssumption DEF Limited, Limits
    <2>3. activeExecutorCount' \in Nat /\ activeExecutorCount' <= maxExecutorCount
      BY <2>1, <2>2 DEF Limited
    <2>4. QED
      BY <2>1, <2>3 DEF Limited
  <1>6. \/ UNCHANGED <<maxExecutorCount, setting, value, activeExecutorCount>>
        \/ \E n \in Settings : PutSetting(n)
        \/ \E p \in Publishers : WakeupSettings(p) \/ SetMaxExecutorCount(p)
                                   \/ WakeupCreate(p)
    BY DEF vars, config, counters, Next, Publish, WakeupStep, Link, WakeupSelf,
           WakeupLock, WakeupSignal, WakeupNext, WakeupLeave, UnchangedByWakeup,
           DispatchStep, Pick, Read, ReadFails, Delivered, PickNothing, Count, Unchanged4Dispatch, ThreadStep, ThreadReady,
           ThreadTest, ThreadRun, ThreadPark, ThreadEnd, SpuriousWakeup,
           UnchangedByThread, Destroy, DestroyStep, DestroySignal, DestroySpin,
           DestroyReturn, UnchangedByCloser
  <1>7. QED
    BY <1>1, <1>2, <1>3, <1>4, <1>5, <1>6

(* The pool grows to no more executors than a limit that was given to the  *)
(* constructor or put into the settings, although Wakeup reads the setting *)
(* before it takes the mutex under which it creates an executor.           *)
THEOREM PoolWithinLimits ==
  Spec => [](\E n \in Limits : activeExecutorCount <= n)
  <1>1. Init => Limited
    BY ExecutorsAssumption DEF Init, Limited, Limits
  <1>2. Limited => \E n \in Limits : activeExecutorCount <= n
    BY DEF Limited
  <1>3. QED
    BY <1>1, <1>2, LimitedStep, PTL DEF Spec

(* ExecutorPool: executors are started in the order of the array and at    *)
(* most as many as were ever allowed.  The settings are ints, so that they *)
(* have an upper bound k.                                                  *)
THEOREM PoolOfExecutors ==
  ASSUME NEW k \in Nat, Limits \subseteq 0..k
  PROVE  Spec => []ExecutorPool
  <1>1. IInv /\ Limited => ExecutorPool
    <2> SUFFICES ASSUME IInv, Limited PROVE ExecutorPool
      OBVIOUS
    <2>1. PICK n \in Limits : activeExecutorCount <= n
      BY DEF Limited
    <2>2. Max(Limits) \in Limits /\ n <= Max(Limits)
      BY <2>1, NatMax
    <2>3. n \in Nat /\ Max(Limits) \in Nat /\ activeExecutorCount \in Nat
      <3>1. Limits \subseteq Nat
        BY ExecutorsAssumption DEF Limits
      <3>2. QED
        BY <2>1, <2>2, <3>1 DEF Limited
    <2>4. activeExecutorCount <= Max(Limits)
      BY <2>1, <2>2, <2>3
    <2>5. QED
      BY <2>4 DEF IInv, Started, ExecutorPool, Limits
  <1>2. Init => Limited
    BY ExecutorsAssumption DEF Init, Limited, Limits
  <1>3. QED
    BY <1>1, <1>2, InitIInv, NextIInv, LimitedStep, PTL DEF Spec

-----------------------------------------------------------------------------
(* Sums over finite sets.                                                  *)

(* The element a sum over s takes first, and what it goes on with.         *)
First(s) == CHOOSE x \in s : TRUE
Rest(s)  == s \ {First(s)}

(* g gives, for the sets of D, or for the subsets of S, the sums of f.     *)
Recurs(g, f, D) ==
  g = [s \in D |-> IF s = {} THEN 0 ELSE f[First(s)] + g[Rest(s)]]

SumsUp(g, f, S) ==
  \A s \in SUBSET S : g[s] = IF s = {} THEN 0 ELSE f[First(s)] + g[Rest(s)]

(* The sets of at most k elements.                                        *)
Small(S, k) == {s \in SUBSET S : Cardinality(s) <= k}

(* All the subsets of a finite set are in a class that has the empty one   *)
(* and, with the rest of a set, that set.                                  *)
LEMMA SubsetInduction ==
  ASSUME NEW S, IsFiniteSet(S), NEW P,
         {} \in P,
         \A s \in SUBSET S : s # {} /\ Rest(s) \in P => s \in P
  PROVE  SUBSET S \subseteq P
  <1> SUFFICES ASSUME (SUBSET S) \ P # {} PROVE FALSE
    OBVIOUS
  <1> DEFINE Sizes == {Cardinality(s) : s \in (SUBSET S) \ P}
  <1>1. \A s \in SUBSET S : IsFiniteSet(s) /\ Cardinality(s) \in Nat
    BY FS_Subset, FS_CardinalityType
  <1>2. Sizes \subseteq Nat /\ Sizes # {}
    BY <1>1
  <1>3. PICK k \in Sizes : \A n \in Sizes : k <= n
    <2> HIDE DEF Sizes
    <2> QED BY <1>2, NatMin
  <1>8. PICK s \in (SUBSET S) \ P : k = Cardinality(s)
    OBVIOUS
  <1>4. s # {} /\ First(s) \in s
    BY <1>8 DEF First
  <1>5. Rest(s) \in SUBSET S /\ Rest(s) \notin P
    BY <1>8, <1>4 DEF Rest
  <1>9. k <= Cardinality(Rest(s))
    BY <1>3, <1>5
  <1>6. Cardinality(Rest(s)) = Cardinality(s) - 1
    BY <1>1, <1>4, FS_RemoveElement DEF Rest
  <1>7. QED
    BY <1>1, <1>6, <1>8, <1>9

(* The sums over the subsets of a finite set exist.                        *)
LEMMA SumsExist ==
  ASSUME NEW S, IsFiniteSet(S), NEW f
  PROVE  \E g : Recurs(g, f, SUBSET S)
  <1> DEFINE Upto(k) == \E g : Recurs(g, f, Small(S, k))
             Bad == {k \in Nat : ~ Upto(k)}
  <1>0. \A s \in SUBSET S : IsFiniteSet(s) /\ Cardinality(s) \in Nat
    BY FS_Subset, FS_CardinalityType
  <1>1. \A s \in SUBSET S : s # {} =>
          Rest(s) \in SUBSET S /\ Cardinality(Rest(s)) = Cardinality(s) - 1
    BY <1>0, FS_RemoveElement DEF First, Rest
  <1>2. Upto(0)
    <2> DEFINE z == [s \in Small(S, 0) |-> 0]
    <2>1. \A s \in Small(S, 0) : s = {}
      BY <1>0, FS_EmptySet DEF Small
    <2>2. z = [s \in Small(S, 0) |-> IF s = {} THEN 0 ELSE f[First(s)] + z[Rest(s)]]
      BY <2>1
    <2> HIDE DEF z
    <2>3. QED
      BY <2>2 DEF Recurs
  <1>3. ASSUME NEW k \in Nat, Upto(k) PROVE Upto(k + 1)
    <2>1. PICK g : g = [s \in Small(S, k) |-> IF s = {} THEN 0 ELSE f[First(s)] + g[Rest(s)]]
      BY <1>3 DEF Recurs
    <2> DEFINE h == [s \in Small(S, k + 1) |-> IF s = {} THEN 0 ELSE f[First(s)] + g[Rest(s)]]
    <2>2. \A s \in Small(S, k + 1) : s # {} => Rest(s) \in Small(S, k) /\ Rest(s) \in Small(S, k + 1)
      BY <1>0, <1>1 DEF Small
    <2>3. \A s \in Small(S, k) : s \in Small(S, k + 1) /\ h[s] = g[s]
      <3>1. \A s \in Small(S, k) : s \in Small(S, k + 1)
        BY <1>0 DEF Small
      <3>2. \A s \in Small(S, k) : g[s] = IF s = {} THEN 0 ELSE f[First(s)] + g[Rest(s)]
        BY <2>1
      <3>3. QED
        BY <3>1, <3>2
    <2>4. \A s \in Small(S, k + 1) : h[s] = IF s = {} THEN 0 ELSE f[First(s)] + h[Rest(s)]
      BY <2>2, <2>3
    <2>5. h = [s \in Small(S, k + 1) |-> h[s]]
      OBVIOUS
    <2> HIDE DEF h
    <2>6. h = [s \in Small(S, k + 1) |-> IF s = {} THEN 0 ELSE f[First(s)] + h[Rest(s)]]
      BY <2>4, <2>5
    <2>7. QED
      BY <2>6 DEF Recurs
  <1>4. Bad = {}
    <2> SUFFICES ASSUME Bad # {} PROVE FALSE
      OBVIOUS
    <2>1. PICK k \in Bad : \A n \in Bad : k <= n
      <3>1. Bad \subseteq Nat
        OBVIOUS
      <3> HIDE DEF Bad
      <3>2. QED
        BY <3>1, NatMin
    <2>2. k \in Nat /\ k # 0 /\ ~ Upto(k)
      BY <1>2, <2>1
    <2>3. k - 1 \in Nat /\ k - 1 \notin Bad
      BY <2>1, <2>2
    <2>4. Upto(k - 1)
      BY <2>3
    <2> HIDE DEF Upto
    <2>5. k = (k - 1) + 1
      BY <2>2
    <2>6. QED
      BY <1>3, <2>2, <2>3, <2>4, <2>5
  <1>5. Cardinality(S) \in Nat /\ Small(S, Cardinality(S)) = SUBSET S
    BY FS_CardinalityType, FS_Subset, <1>0 DEF Small
  <1>6. Upto(Cardinality(S))
    BY <1>4, <1>5
  <1>7. QED
    BY <1>5, <1>6

(* The sum of f over S, as NothingLost writes it.                          *)
SumOver(f, S) == MapThenSumSet(LAMBDA x : f[x], S)

(* MapThenSumSet takes the elements in that order.                         *)
LEMMA SumRec ==
  ASSUME NEW S, IsFiniteSet(S), NEW f
  PROVE  \E g : SumOver(f, S) = g[S] /\ SumsUp(g, f, S)
  <1> DEFINE h == CHOOSE g : Recurs(g, f, SUBSET S)
  <1>1. SumOver(f, S) = h[S]
    BY DEF SumOver, MapThenSumSet, MapThenFoldSet, Recurs, First, Rest
  <1>2. Recurs(h, f, SUBSET S)
    <2>1. \E g : Recurs(g, f, SUBSET S)
      BY SumsExist
    <2>2. QED
      BY <2>1
  <1> HIDE DEF h
  <1>3. SumsUp(h, f, S)
    BY <1>2 DEF Recurs, SumsUp
  <1>4. QED
    BY <1>1, <1>3

(* A sum of naturals is a natural.                                         *)
LEMMA SumType ==
  ASSUME NEW S, IsFiniteSet(S), NEW f, \A x \in S : f[x] \in Nat
  PROVE  SumOver(f, S) \in Nat
  <1>1. PICK g : /\ SumOver(f, S) = g[S]
                 /\ \A s \in SUBSET S : g[s] = IF s = {} THEN 0 ELSE f[First(s)] + g[Rest(s)]
    <2>1. PICK g : SumOver(f, S) = g[S] /\ SumsUp(g, f, S)
      BY SumRec
    <2>2. QED
      BY <2>1 DEF SumsUp
  <1> DEFINE P == {s \in SUBSET S : g[s] \in Nat}
  <1>2. \A s \in SUBSET S : s # {} => First(s) \in S
    BY DEF First
  <1>3. \A s \in SUBSET S : s # {} /\ Rest(s) \in P => s \in P
    BY <1>1, <1>2
  <1>4. {} \in P
    BY <1>1
  <1>5. SUBSET S \subseteq P
    <2> HIDE DEF P
    <2> QED BY <1>3, <1>4, SubsetInduction
  <1>6. QED
    BY <1>1, <1>5

(* A sum of nothing but zeros is zero.                                     *)
LEMMA SumZero ==
  ASSUME NEW S, IsFiniteSet(S), NEW f, \A x \in S : f[x] = 0
  PROVE  SumOver(f, S) = 0
  <1>1. PICK g : /\ SumOver(f, S) = g[S]
                 /\ \A s \in SUBSET S : g[s] = IF s = {} THEN 0 ELSE f[First(s)] + g[Rest(s)]
    <2>1. PICK g : SumOver(f, S) = g[S] /\ SumsUp(g, f, S)
      BY SumRec
    <2>2. QED
      BY <2>1 DEF SumsUp
  <1> DEFINE P == {s \in SUBSET S : g[s] = 0}
  <1>2. \A s \in SUBSET S : s # {} => First(s) \in S
    BY DEF First
  <1>3. \A s \in SUBSET S : s # {} /\ Rest(s) \in P => s \in P
    BY <1>1, <1>2
  <1>4. {} \in P
    BY <1>1
  <1>5. SUBSET S \subseteq P
    <2> HIDE DEF P
    <2> QED BY <1>3, <1>4, SubsetInduction
  <1>6. QED
    BY <1>1, <1>5

(* Where one entry changes the sum changes by as much.                     *)
LEMMA SumChange ==
  ASSUME NEW S, IsFiniteSet(S), NEW f, \A x \in S : f[x] \in Nat,
         NEW h, NEW t \in S, h[t] \in Nat, \A x \in S : x # t => h[x] = f[x]
  PROVE  SumOver(h, S) + f[t] = SumOver(f, S) + h[t]
  <1>1. PICK g : /\ SumOver(f, S) = g[S]
                 /\ \A s \in SUBSET S : g[s] = IF s = {} THEN 0 ELSE f[First(s)] + g[Rest(s)]
    <2>1. PICK g : SumOver(f, S) = g[S] /\ SumsUp(g, f, S)
      BY SumRec
    <2>2. QED
      BY <2>1 DEF SumsUp
  <1>2. PICK k : /\ SumOver(h, S) = k[S]
                 /\ \A s \in SUBSET S : k[s] = IF s = {} THEN 0 ELSE h[First(s)] + k[Rest(s)]
    <2>1. PICK k : SumOver(h, S) = k[S] /\ SumsUp(k, h, S)
      BY SumRec
    <2>2. QED
      BY <2>1 DEF SumsUp
  <1> DEFINE P == {s \in SUBSET S :
                     /\ g[s] \in Nat /\ k[s] \in Nat
                     /\ t \notin s => k[s] = g[s]
                     /\ t \in s => k[s] + f[t] = g[s] + h[t]}
  <1>3. \A s \in SUBSET S : s # {} =>
          /\ First(s) \in s /\ First(s) \in S /\ First(s) \notin Rest(s)
          /\ \A x : x # First(s) => (x \in s <=> x \in Rest(s))
    BY DEF First, Rest
  <1>4. ASSUME NEW s \in SUBSET S, s # {}, Rest(s) \in P PROVE s \in P
    <2> DEFINE y == First(s)  r == Rest(s)
    <2>1. /\ g[s] = f[y] + g[r] /\ k[s] = h[y] + k[r]
          /\ g[r] \in Nat /\ k[r] \in Nat /\ f[y] \in Nat /\ h[y] \in Nat
      BY <1>1, <1>2, <1>3, <1>4
    <2>2. CASE y = t
      <3>1. t \in s /\ t \notin r /\ k[r] = g[r]
        BY <1>3, <1>4, <2>2
      <3>2. QED
        BY <2>1, <2>2, <3>1
    <2>3. CASE y # t
      <3>1. h[y] = f[y] /\ (t \in s <=> t \in r)
        BY <1>3, <1>4, <2>3
      <3>2. /\ t \notin r => k[r] = g[r]
            /\ t \in r => k[r] + f[t] = g[r] + h[t]
        BY <1>4
      <3>3. /\ t \notin s => k[s] = g[s]
            /\ t \in s => k[s] + f[t] = g[s] + h[t]
        BY <2>1, <3>1, <3>2
      <3>4. g[s] \in Nat /\ k[s] \in Nat
        BY <2>1
      <3>5. QED
        BY <3>3, <3>4
    <2>4. QED
      BY <2>2, <2>3
  <1>5. {} \in P
    <2>1. {} \in SUBSET S /\ g[{}] = 0 /\ k[{}] = 0
      BY <1>1, <1>2, Zenon
    <2>2. QED
      BY <2>1
  <1>6. SUBSET S \subseteq P
    <2> HIDE DEF P
    <2> QED BY <1>4, <1>5, SubsetInduction
  <1>7. QED
    BY <1>1, <1>2, <1>6

-----------------------------------------------------------------------------
(* The messages.                                                           *)

Hands == {msg[t] : t \in Holding}

(* Every published message is where NothingLost looks for it, and every    *)
(* place has as many as it counts.                                         *)
Placed ==
  /\ queue \in Seq(Nat) /\ published \in Nat /\ sentCount \in Nat
  /\ local \in [Threads -> Nat] /\ msg \in [Threads -> Nat]
  /\ IsFiniteSet(delivered) /\ IsFiniteSet(unread)
  /\ 1..published = ToSet(queue) \cup Hands \cup delivered \cup unread
  /\ published = Len(queue) + Cardinality(Holding)
                   + Cardinality(delivered) + Cardinality(unread)
  /\ Cardinality(delivered) = SumOver(local, Threads) + sentCount

(* There are finitely many threads.                                        *)
LEMMA FiniteThreads ==
  /\ IsFiniteSet(Threads)
  /\ IsFiniteSet(Holding) /\ Cardinality(Holding) \in Nat
  /\ Cardinality(Holding)' \in Nat
  <1>1. IsFiniteSet(Threads)
    <2>1. IsFiniteSet(Executors)
      BY ExecutorsAssumption, FS_Interval DEF Executors
    <2>2. QED
      BY <2>1, ExecutorsAssumption, FS_Union DEF Threads
  <1>2. Holding \subseteq Threads /\ Holding' \subseteq Threads
    BY DEF Holding
  <1>3. QED
    BY <1>1, <1>2, FS_Subset, FS_CardinalityType

(* The sizes of the places and the sum of the counts are numbers.          *)
LEMMA Sizes ==
  ASSUME Placed
  PROVE  /\ SumOver(local, Threads) \in Nat /\ Len(queue) \in Nat
         /\ Cardinality(delivered) \in Nat /\ Cardinality(unread) \in Nat
  BY FiniteThreads, SumType, FS_CardinalityType DEF Placed

(* The elements of a sequence.                                             *)
LEMMA RangeOf ==
  ASSUME NEW s \in Seq(Nat)
  PROVE  ToSet(s) = {s[i] : i \in 1..Len(s)}
  <1>1. DOMAIN s = 1..Len(s)
    OBVIOUS
  <1>2. QED
    BY <1>1 DEF ToSet

(* A function takes at most as many values as it has arguments.            *)
LEMMA ImageSize ==
  ASSUME NEW S, IsFiniteSet(S), NEW f
  PROVE  /\ IsFiniteSet({f[x] : x \in S})
         /\ Cardinality({f[x] : x \in S}) <= Cardinality(S)
  <1> DEFINE g == [x \in S |-> f[x]]
             T == {f[x] : x \in S}
  <1>1. g \in Surjection(S, T)
    BY DEF Surjection
  <1>2. QED
    BY <1>1, FS_Surjection

(* A union has at most as many elements as its parts.                      *)
LEMMA UnionSize ==
  ASSUME NEW S, NEW T, IsFiniteSet(S), IsFiniteSet(T)
  PROVE  /\ IsFiniteSet(S \cup T)
         /\ Cardinality(S \cup T) <= Cardinality(S) + Cardinality(T)
  <1>1. /\ Cardinality(S) \in Nat /\ Cardinality(T) \in Nat
        /\ Cardinality(S \cap T) \in Nat
    BY FS_CardinalityType, FS_Intersection
  <1>2. Cardinality(S \cup T) = Cardinality(S) + Cardinality(T) - Cardinality(S \cap T)
    BY FS_Union
  <1>3. QED
    BY <1>1, <1>2, FS_Union

(* Places of sizes q, h, d and u, of which h is one less than the threads  *)
(* n that hold a message, do not hold q + n + d + u messages.              *)
LEMMA FewerThan ==
  ASSUME NEW l \in Nat, NEW n \in Nat, NEW d \in Nat, NEW u \in Nat,
         NEW q \in Nat, NEW h \in Nat, NEW qh \in Nat, NEW qhd \in Nat, NEW m,
         q <= l, h <= n - 1, qh <= q + h, qhd <= qh + d, m <= qhd + u,
         m = l + n + d + u
  PROVE  FALSE
  OBVIOUS

(* A message in the hands of a thread has not been delivered, nor given    *)
(* up: there would be fewer messages than were published.                  *)
LEMMA HeldOnce ==
  ASSUME Placed, NEW t \in Holding
  PROVE  msg[t] \notin delivered /\ msg[t] \notin unread
  <1> SUFFICES ASSUME msg[t] \in delivered \cup unread PROVE FALSE
    OBVIOUS
  <1> DEFINE Others == Holding \ {t}
             InQueue == ToSet(queue)
             InHands == {msg[u] : u \in Others}
  <1>1. /\ IsFiniteSet(Others) /\ Cardinality(Others) = Cardinality(Holding) - 1
    BY FiniteThreads, FS_RemoveElement
  <1>2. IsFiniteSet(InHands) /\ Cardinality(InHands) <= Cardinality(Holding) - 1
    <2>1. IsFiniteSet(InHands) /\ Cardinality(InHands) <= Cardinality(Others)
      BY <1>1, ImageSize
    <2>2. QED
      BY <1>1, <2>1
  <1>3. IsFiniteSet(InQueue) /\ Cardinality(InQueue) <= Len(queue)
    <2>1. InQueue = {queue[i] : i \in 1..Len(queue)}
      BY RangeOf DEF Placed
    <2>2. /\ IsFiniteSet(1..Len(queue))
          /\ Cardinality(1..Len(queue)) = Len(queue)
      <3>1. PICK n \in Nat : n = Len(queue)
        BY Sizes
      <3>2. IsFiniteSet(1..n) /\ Cardinality(1..n) = n
        <4>1. 1 \in Int /\ n \in Int
          BY <3>1
        <4>2. /\ IsFiniteSet(1..n)
              /\ Cardinality(1..n) = IF 1 > n THEN 0 ELSE n - 1 + 1
          BY <4>1, FS_Interval
        <4>3. QED
          BY <3>1, <4>2
      <3>3. QED
        BY <3>1, <3>2
    <2>3. QED
      BY <2>1, <2>2, ImageSize
  <1>4. 1..published = InQueue \cup InHands \cup delivered \cup unread
    BY DEF Placed, Hands
  <1>5. Cardinality(1..published) = published
    BY FS_Interval DEF Placed
  <1> HIDE DEF Others, InQueue, InHands
  <1>6. IsFiniteSet(delivered) /\ IsFiniteSet(unread)
    BY DEF Placed
  <1>7. /\ IsFiniteSet(InQueue \cup InHands)
        /\ Cardinality(InQueue \cup InHands) <= Cardinality(InQueue) + Cardinality(InHands)
    BY <1>2, <1>3, UnionSize
  <1>8. /\ IsFiniteSet(InQueue \cup InHands \cup delivered)
        /\ Cardinality(InQueue \cup InHands \cup delivered)
             <= Cardinality(InQueue \cup InHands) + Cardinality(delivered)
    BY <1>6, <1>7, UnionSize
  <1>9. Cardinality(1..published)
          <= Cardinality(InQueue \cup InHands \cup delivered) + Cardinality(unread)
    BY <1>4, <1>6, <1>8, UnionSize
  <1>10. /\ Cardinality(InQueue) \in Nat /\ Cardinality(InHands) \in Nat
         /\ Cardinality(InQueue \cup InHands) \in Nat
         /\ Cardinality(InQueue \cup InHands \cup delivered) \in Nat
    BY <1>2, <1>3, <1>7, <1>8, FS_CardinalityType
  <1>11. published = Len(queue) + Cardinality(Holding)
                       + Cardinality(delivered) + Cardinality(unread)
    BY DEF Placed
  <1>12. /\ Len(queue) \in Nat /\ Cardinality(delivered) \in Nat
         /\ Cardinality(unread) \in Nat /\ Cardinality(Holding) \in Nat
    BY Sizes, FiniteThreads
  <1>13. QED
    BY ONLY <1>2, <1>3, <1>5, <1>7, <1>8, <1>9, <1>10, <1>11, <1>12, FewerThan

(* A step that moves no message and no count.                              *)
LEMMA PlacedQuiet ==
  ASSUME Placed,
         UNCHANGED <<queue, published, sentCount, local, delivered, unread>>,
         Holding' = Holding, \A t \in Holding : msg'[t] = msg[t],
         msg' \in [Threads -> Nat]
  PROVE  Placed'
  <1>1. Hands' = Hands
    BY DEF Hands
  <1>2. QED
    BY <1>1 DEF Placed

(* A thread that goes from one place to another and holds a message at     *)
(* neither, or at both.                                                    *)
LEMMA HoldingSame ==
  ASSUME NEW t, NEW place, pc' = [pc EXCEPT ![t] = place],
         pc \in [Threads -> Places],
         pc[t] \in {"read", "deliver"} <=> place \in {"read", "deliver"}
  PROVE  Holding' = Holding
  BY DEF Holding

(* Publish puts a message into the queue.                                  *)
LEMMA PublishPlaced ==
  ASSUME IInv, Placed, NEW p \in Publishers, Publish(p)
  PROVE  Placed'
  <1>1. /\ published' = published + 1 /\ queue' = Append(queue, published + 1)
        /\ UNCHANGED <<sentCount, local, delivered, unread>>
        /\ pc[p] = "outside" /\ pc' = [pc EXCEPT ![p] = "link"]
        /\ msg' = [msg EXCEPT ![p] = published + 1]
    BY DEF Publish, counters, fates, Go
  <1>2. Holding' = Holding /\ p \notin Holding
    BY <1>1, HoldingSame DEF IInv, Typed, Holding
  <1>3. msg' \in [Threads -> Nat] /\ Hands' = Hands
    <2>1. msg' \in [Threads -> Nat] /\ \A t \in Threads : t # p => msg'[t] = msg[t]
      <3>1. published + 1 \in Nat
        BY DEF Placed
      <3>2. QED
        BY <1>1, <3>1 DEF Placed
    <2>2. \A t \in Holding : t \in Threads /\ t # p
      BY <1>2 DEF Holding
    <2>3. \A t \in Holding : msg'[t] = msg[t]
      BY <2>1, <2>2
    <2>4. QED
      BY <1>2, <2>1, <2>3 DEF Hands
  <1>4. Len(queue') = Len(queue) + 1 /\ queue' \in Seq(Nat) /\ Len(queue) \in Nat
    BY <1>1 DEF Placed
  <1>5. ToSet(queue') = ToSet(queue) \cup {published + 1}
    <2>1. \A i \in 1..Len(queue) : queue'[i] = queue[i]
      BY <1>1 DEF Placed
    <2>2. queue'[Len(queue) + 1] = published + 1
      BY <1>1 DEF Placed
    <2>3. 1..(Len(queue) + 1) = 1..Len(queue) \cup {Len(queue) + 1}
      BY <1>4
    <2>4. /\ ToSet(queue) = {queue[i] : i \in 1..Len(queue)}
          /\ ToSet(queue') = {queue'[i] : i \in 1..(Len(queue) + 1)}
      <3>1. queue \in Seq(Nat)
        BY DEF Placed
      <3>2. QED
        BY <1>4, <3>1, RangeOf
    <2>5. QED
      BY <2>1, <2>2, <2>3, <2>4
  <1>6. 1..published' = 1..published \cup {published + 1} /\ published' \in Nat
    BY <1>1 DEF Placed
  <1>7. 1..published' = ToSet(queue') \cup Hands' \cup delivered' \cup unread'
    BY <1>1, <1>3, <1>5, <1>6 DEF Placed
  <1>8. published' = Len(queue') + Cardinality(Holding')
                      + Cardinality(delivered') + Cardinality(unread')
    <2>1. published = Len(queue) + Cardinality(Holding)
                       + Cardinality(delivered) + Cardinality(unread)
      BY DEF Placed
    <2>2. PICK h \in Nat, d \in Nat, u \in Nat :
            /\ h = Cardinality(Holding) /\ d = Cardinality(delivered)
            /\ u = Cardinality(unread)
      BY Sizes, FiniteThreads
    <2>3. published = Len(queue) + h + d + u
      BY <2>1, <2>2
    <2>4. published + 1 = (Len(queue) + 1) + h + d + u
      <3>1. h \in Nat /\ d \in Nat /\ u \in Nat /\ Len(queue) \in Nat
        BY <1>4, <2>2
      <3>2. QED
        BY ONLY <2>3, <3>1
    <2>5. QED
      BY <1>1, <1>2, <1>4, <2>2, <2>4
  <1>9. QED
    BY <1>1, <1>3, <1>4, <1>6, <1>7, <1>8 DEF Placed

(* Pick takes it into the hands of a thread.                               *)
LEMMA PickPlaced ==
  ASSUME IInv, Placed, NEW t \in Threads, Pick(t)
  PROVE  Placed'
  <1>1. /\ queue # <<>> /\ queue' = Tail(queue)
        /\ UNCHANGED <<published, sentCount, local, delivered, unread>>
        /\ pc[t] = "pick" /\ pc' = [pc EXCEPT ![t] = "read"]
        /\ msg' = [msg EXCEPT ![t] = Head(queue)]
    BY DEF Pick, Found, Unchanged4Dispatch, Go
  <1>2. Holding' = Holding \cup {t} /\ t \notin Holding
    BY <1>1 DEF IInv, Typed, Holding
  <1>3. Cardinality(Holding') = Cardinality(Holding) + 1
    BY <1>2, FiniteThreads, FS_AddElement
  <1>4. Len(queue') = Len(queue) - 1 /\ queue' \in Seq(Nat) /\ Head(queue) \in Nat
    BY <1>1 DEF Placed
  <1>5. ToSet(queue) = {Head(queue)} \cup ToSet(queue')
    <2>1. \A i \in 1..(Len(queue) - 1) : queue'[i] = queue[i + 1]
      BY <1>1 DEF Placed
    <2>2. Head(queue) = queue[1] /\ Len(queue) \in Nat /\ Len(queue) >= 1
      BY <1>1 DEF Placed
    <2>3. /\ ToSet(queue) = {queue[i] : i \in 1..Len(queue)}
          /\ ToSet(queue') = {queue'[i] : i \in 1..(Len(queue) - 1)}
      <3>1. queue \in Seq(Nat)
        BY DEF Placed
      <3>2. QED
        BY <1>4, <3>1, RangeOf
    <2>4. ASSUME NEW i \in 1..Len(queue)
          PROVE  i = 1 \/ (i - 1 \in 1..(Len(queue) - 1) /\ queue[i] = queue'[i - 1])
      BY <2>1, <2>2
    <2>5. ToSet(queue) \subseteq {Head(queue)} \cup ToSet(queue')
      BY <2>2, <2>3, <2>4
    <2>6. \A i \in 1..(Len(queue) - 1) : i + 1 \in 1..Len(queue)
      BY <2>2
    <2>7. 1 \in 1..Len(queue)
      BY <2>2
    <2>8. QED
      BY <2>1, <2>2, <2>3, <2>5, <2>6, <2>7
  <1>6. msg' \in [Threads -> Nat] /\ Hands' = Hands \cup {Head(queue)}
    <2>1. msg' \in [Threads -> Nat]
      BY <1>1, <1>4 DEF Placed
    <2>2. msg'[t] = Head(queue) /\ \A u \in Holding : msg'[u] = msg[u]
      BY <1>1, <1>2 DEF Placed, Holding
    <2>3. QED
      BY <1>2, <2>1, <2>2 DEF Hands
  <1>7. 1..published' = ToSet(queue') \cup Hands' \cup delivered' \cup unread'
    BY <1>1, <1>5, <1>6 DEF Placed
  <1>8. published' = Len(queue') + Cardinality(Holding')
                      + Cardinality(delivered') + Cardinality(unread')
    BY <1>1, <1>3, <1>4, Sizes, FiniteThreads DEF Placed
  <1>9. QED
    BY <1>1, <1>4, <1>6, <1>7, <1>8 DEF Placed

(* A thread gives away what it has in its hands.                           *)
LEMMA HandsOff ==
  ASSUME IInv, Placed, NEW t \in Holding, NEW place,
         place \notin {"read", "deliver"},
         pc' = [pc EXCEPT ![t] = place], msg' = [msg EXCEPT ![t] = 0]
  PROVE  /\ Cardinality(Holding') = Cardinality(Holding) - 1
         /\ msg' \in [Threads -> Nat] /\ Hands = Hands' \cup {msg[t]}
  <1>1. Holding' = Holding \ {t}
    BY DEF IInv, Typed, Holding
  <1>2. Cardinality(Holding') = Cardinality(Holding) - 1
    BY <1>1, FiniteThreads, FS_RemoveElement
  <1>3. msg' \in [Threads -> Nat] /\ \A u \in Holding \ {t} : msg'[u] = msg[u]
    BY DEF Placed, Holding
  <1>4. Hands = Hands' \cup {msg[t]}
    BY <1>1, <1>3 DEF Hands
  <1>5. QED
    BY <1>2, <1>3, <1>4

(* A message that cannot be read is given up ...                           *)
LEMMA ReadFailsPlaced ==
  ASSUME IInv, Placed, NEW t \in Threads, ReadFails(t)
  PROVE  Placed'
  <1>1. /\ unread' = unread \cup {msg[t]}
        /\ UNCHANGED <<queue, published, sentCount, local, delivered>>
        /\ t \in Holding /\ pc' = [pc EXCEPT ![t] = "count"]
        /\ msg' = [msg EXCEPT ![t] = 0]
    BY DEF ReadFails, Unchanged4Dispatch, Go, Holding
  <1>2. /\ Cardinality(Holding') = Cardinality(Holding) - 1
        /\ msg' \in [Threads -> Nat] /\ Hands = Hands' \cup {msg[t]}
    BY <1>1, HandsOff
  <1>3. IsFiniteSet(unread') /\ Cardinality(unread') = Cardinality(unread) + 1
    BY <1>1, HeldOnce, FS_AddElement DEF Placed
  <1>4. 1..published' = ToSet(queue') \cup Hands' \cup delivered' \cup unread'
    BY <1>1, <1>2 DEF Placed
  <1>5. published' = Len(queue') + Cardinality(Holding')
                      + Cardinality(delivered') + Cardinality(unread')
    BY <1>1, <1>2, <1>3, Sizes, FiniteThreads DEF Placed
  <1>6. QED
    BY <1>1, <1>2, <1>3, <1>4, <1>5 DEF Placed

(* ... and one that is dispatched is counted ...                           *)
LEMMA DeliveredPlaced ==
  ASSUME IInv, Placed, NEW t \in Threads, Delivered(t)
  PROVE  Placed'
  <1>1. /\ delivered' = delivered \cup {msg[t]}
        /\ local' = [local EXCEPT ![t] = @ + 1]
        /\ UNCHANGED <<queue, published, sentCount, unread>>
        /\ t \in Holding /\ pc' = [pc EXCEPT ![t] = "pick"]
        /\ msg' = [msg EXCEPT ![t] = 0]
    BY DEF Delivered, Unchanged4Dispatch, Go, Holding
  <1>2. /\ Cardinality(Holding') = Cardinality(Holding) - 1
        /\ msg' \in [Threads -> Nat] /\ Hands = Hands' \cup {msg[t]}
    BY <1>1, HandsOff
  <1>3. IsFiniteSet(delivered') /\ Cardinality(delivered') = Cardinality(delivered) + 1
    BY <1>1, HeldOnce, FS_AddElement DEF Placed
  <1>4. 1..published' = ToSet(queue') \cup Hands' \cup delivered' \cup unread'
    BY <1>1, <1>2 DEF Placed
  <1>5. published' = Len(queue') + Cardinality(Holding')
                      + Cardinality(delivered') + Cardinality(unread')
    BY <1>1, <1>2, <1>3, Sizes, FiniteThreads DEF Placed
  <1>6. /\ local' \in [Threads -> Nat] /\ local'[t] = local[t] + 1
        /\ \A x \in Threads : x # t => local'[x] = local[x]
    BY <1>1 DEF Placed
  <1>7. SumOver(local', Threads) + local[t] = SumOver(local, Threads) + local'[t]
    <2>1. \A x \in Threads : local[x] \in Nat
      BY DEF Placed
    <2>2. local'[t] \in Nat
      BY <1>6
    <2>3. QED
      BY <1>6, <2>1, <2>2, FiniteThreads, SumChange
  <1>8. SumOver(local', Threads) \in Nat
    BY <1>6, FiniteThreads, SumType
  <1>9. Cardinality(delivered') = SumOver(local', Threads) + sentCount'
    <2>1. local[t] \in Nat /\ sentCount \in Nat
      BY DEF Placed
    <2>2. SumOver(local', Threads) = SumOver(local, Threads) + 1
      BY <1>6, <1>7, <1>8, <2>1, Sizes
    <2>3. Cardinality(delivered) = SumOver(local, Threads) + sentCount
      BY DEF Placed
    <2>4. PICK k \in Nat : k = SumOver(local, Threads)
      BY Sizes
    <2>5. QED
      BY <1>1, <1>3, <2>1, <2>2, <2>3, <2>4
  <1>10. QED
    BY <1>1, <1>2, <1>3, <1>4, <1>5, <1>6, <1>9 DEF Placed

(* What one thread hands over is taken from the sum.                       *)
LEMMA Handed ==
  ASSUME NEW c \in Nat, NEW d \in Nat, NEW x \in Nat, NEW e \in Nat
  PROVE  e + x = c + 0 => e + (d + x) = c + d
  OBVIOUS

(* ... and handed over when the loop of the thread has ended.              *)
LEMMA CountPlaced ==
  ASSUME IInv, Placed, NEW t \in Threads, Count(t)
  PROVE  Placed'
  <1>1. /\ local' = [local EXCEPT ![t] = 0] /\ sentCount' = sentCount + local[t]
        /\ UNCHANGED <<queue, published, delivered, unread, msg>>
        /\ pc[t] = "count"
        /\ \E place \in {"outside", "park"} : pc' = [pc EXCEPT ![t] = place]
    BY DEF Count, Unchanged4Dispatch, Go
  <1>2. Holding' = Holding
    BY <1>1, HoldingSame DEF IInv, Typed
  <1>3. Hands' = Hands
    BY <1>1, <1>2 DEF Hands
  <1>4. /\ local' \in [Threads -> Nat] /\ local'[t] = 0 /\ local[t] \in Nat
        /\ \A x \in Threads : x # t => local'[x] = local[x]
    BY <1>1 DEF Placed
  <1>5. SumOver(local', Threads) + local[t] = SumOver(local, Threads) + local'[t]
    <2>1. \A x \in Threads : local[x] \in Nat
      BY DEF Placed
    <2>2. local'[t] \in Nat
      BY <1>4
    <2>3. QED
      BY <1>4, <2>1, <2>2, FiniteThreads, SumChange
  <1>6. SumOver(local', Threads) \in Nat
    BY <1>4, FiniteThreads, SumType
  <1>7. Cardinality(delivered) = SumOver(local', Threads) + sentCount'
    <2>1. sentCount \in Nat /\ Cardinality(delivered) = SumOver(local, Threads) + sentCount
      BY DEF Placed
    <2>2. SumOver(local', Threads) + local[t] = SumOver(local, Threads) + 0
      BY <1>4, <1>5
    <2>3. SumOver(local', Threads) + (sentCount + local[t])
            = SumOver(local, Threads) + sentCount
      BY <1>4, <1>6, <2>1, <2>2, Sizes, Handed
    <2>4. QED
      BY <1>1, <2>1, <2>3
  <1>8. sentCount' \in Nat
    BY <1>1, <1>4 DEF Placed
  <1>9. QED
    BY <1>1, <1>2, <1>3, <1>4, <1>7, <1>8 DEF Placed

-----------------------------------------------------------------------------
(* The steps that move no message.                                         *)

CallingPCs == {"link", "settings", "set", "self", "lock"}

(* wakeupCount counts the messages of the publishers that are neither on   *)
(* the way nor dispatched themselves.                                      *)
Woken ==
  /\ published \in Nat /\ wakeupCount \in Nat /\ selves \in Nat
  /\ published = wakeupCount + Cardinality(Calling) + selves

(* There are finitely many publishers.                                     *)
LEMMA FiniteCalling ==
  IsFiniteSet(Calling) /\ Cardinality(Calling) \in Nat
  <1>1. Calling \subseteq Publishers
    BY DEF Calling
  <1>2. QED
    BY <1>1, ExecutorsAssumption, FS_Subset, FS_CardinalityType

(* A thread that goes from one place to another holds no message and is    *)
(* in the first part of Wakeup at neither.                                 *)
LEMMA Moved ==
  ASSUME NEW t \in Threads, NEW place, pc' = [pc EXCEPT ![t] = place],
         pc \in [Threads -> Places],
         t \in Publishers =>
           pc[t] \notin CallingPCs /\ place \notin CallingPCs
  PROVE  Calling' = Calling
  BY DEF Calling, CallingPCs, Threads

(* Wakeup signals an executor: nobody else goes anywhere else.             *)
LEMMA SignalMoves ==
  ASSUME IInv, NEW p \in Publishers, WakeupSignal(p)
  PROVE  Holding' = Holding /\ Calling' = Calling
  <1>1. /\ pc[p] = "scan"
        /\ pc' = [pc EXCEPT ![p] = "outside",
                            ![at[p]] = IF @ = "wait" THEN "test" ELSE @]
    BY DEF WakeupSignal
  <1>2. \A t \in Threads : \/ pc'[t] = pc[t]
                           \/ pc[t] = "scan" /\ pc'[t] = "outside"
                           \/ pc[t] = "wait" /\ pc'[t] = "test"
    BY <1>1 DEF IInv, Typed
  <1>3. QED
    BY <1>2, Disjoint DEF Holding, Calling

(* Wakeup starts an executor, which was not there.                         *)
LEMMA CreateMoves ==
  ASSUME IInv, NEW p \in Publishers, WakeupCreate(p)
  PROVE  Holding' = Holding /\ Calling' = Calling
  <1>1. PICK new : new = activeExecutorCount + 1
    OBVIOUS
  <1>2. /\ pc[p] = "scan"
        /\ pc' = [t \in Threads |-> CASE t = p   -> "outside"
                                      [] t = new -> "new"
                                      [] OTHER   -> pc[t]]
    BY <1>1 DEF WakeupCreate
  <1>3. p # new /\ \A t \in Threads : t = new /\ t # p => pc[t] = "none"
    <2>1. \A e \in Executors : e = new => pc[e] = "none"
      BY <1>1 DEF IInv, Typed, Started
    <2>2. \A r \in Publishers : r # new
      <3>1. new \in Nat /\ new >= 1
        BY <1>1 DEF IInv, Typed
      <3>2. QED
        BY <3>1, ExecutorsAssumption
    <2>3. QED
      BY <2>1, <2>2 DEF Threads
  <1>4. \A t \in Threads : \/ pc'[t] = pc[t]
                           \/ pc[t] = "scan" /\ pc'[t] = "outside"
                           \/ pc[t] = "none" /\ pc'[t] = "new"
    <2>1. ASSUME NEW t \in Threads
          PROVE  pc'[t] = CASE t = p   -> "outside"
                            [] t = new -> "new"
                            [] OTHER   -> pc[t]
      BY <1>2, Zenon
    <2>2. ASSUME NEW t \in Threads
          PROVE  \/ pc'[t] = pc[t]
                 \/ pc[t] = "scan" /\ pc'[t] = "outside"
                 \/ pc[t] = "none" /\ pc'[t] = "new"
      <3>1. CASE t = p
        BY <1>2, <1>3, <2>1, <3>1
      <3>2. CASE t = new /\ t # p
        BY <1>3, <2>1, <3>2
      <3>3. CASE t # new /\ t # p
        BY <2>1, <3>3
      <3>4. QED
        BY <3>1, <3>2, <3>3
    <2>3. QED
      BY <2>2
  <1>5. QED
    BY <1>4, Disjoint DEF Holding, Calling

(* The first part of Wakeup: the publisher holds nothing, and of the       *)
(* messages in the hands of threads none is touched.                       *)
LEMMA CallingPlaced ==
  ASSUME IInv, Placed, NEW p \in Publishers,
         \/ Link(p) \/ WakeupSettings(p) \/ SetMaxExecutorCount(p)
         \/ WakeupSelf(p) \/ WakeupLock(p)
  PROVE  Placed'
  <1>1. UNCHANGED <<queue, published, sentCount, local, delivered, unread>>
    BY DEF Link, WakeupSettings, SetMaxExecutorCount, WakeupSelf, WakeupLock,
           UnchangedByWakeup, counters, fates
  <1>2. /\ pc[p] \notin {"read", "deliver"}
        /\ \E place \in {"settings", "set", "self", "pick", "lock", "scan"} :
             pc' = [pc EXCEPT ![p] = place]
    BY DEF Link, WakeupSettings, SetMaxExecutorCount, WakeupSelf, WakeupLock, Go
  <1>3. Holding' = Holding /\ p \notin Holding
    BY <1>2, HoldingSame DEF IInv, Typed, Holding
  <1>4. msg' = msg \/ msg' = [msg EXCEPT ![p] = 0] \/ msg' = [msg EXCEPT ![p] = msg[p]]
    BY DEF Link, WakeupSettings, SetMaxExecutorCount, WakeupSelf, WakeupLock
  <1>5. msg' \in [Threads -> Nat] /\ \A t \in Holding : msg'[t] = msg[t]
    BY <1>3, <1>4 DEF Placed, Holding
  <1>6. QED
    BY <1>1, <1>3, <1>5, PlacedQuiet

(* The second part, under dispatcherMutex.                                 *)
LEMMA ScanPlaced ==
  ASSUME IInv, Placed, NEW p \in Publishers,
         WakeupSignal(p) \/ WakeupNext(p) \/ WakeupCreate(p) \/ WakeupLeave(p)
  PROVE  Placed' /\ Calling' = Calling
  <1>1. UNCHANGED <<queue, published, sentCount, local, delivered, unread>>
    BY DEF WakeupSignal, WakeupNext, WakeupCreate, WakeupLeave, counters, fates
  <1>2. Holding' = Holding /\ Calling' = Calling
    <2>1. CASE WakeupNext(p)
      BY <2>1 DEF WakeupNext, Holding, Calling
    <2>2. CASE WakeupLeave(p)
      <3>1. pc[p] = "scan" /\ pc' = [pc EXCEPT ![p] = "outside"]
        BY <2>2 DEF WakeupLeave, Go
      <3>2. p \in Threads
        BY DEF Threads
      <3>3. QED
        BY <3>1, <3>2, HoldingSame, Moved DEF IInv, Typed, CallingPCs
    <2>3. QED
      BY <2>1, <2>2, SignalMoves, CreateMoves
  <1>3. p \notin Holding
    BY DEF WakeupSignal, WakeupNext, WakeupCreate, WakeupLeave, Holding
  <1>4. msg' = msg \/ msg' = [msg EXCEPT ![p] = 0]
    BY DEF WakeupSignal, WakeupNext, WakeupCreate, WakeupLeave, WakeupReturn
  <1>5. msg' \in [Threads -> Nat] /\ \A t \in Holding : msg'[t] = msg[t]
    BY <1>3, <1>4 DEF Placed, Holding
  <1>6. QED
    BY <1>1, <1>2, <1>5, PlacedQuiet

(* A thread that reads or finds nothing, and what executors and the        *)
(* destructor do besides.                                                  *)
LEMMA OtherMoves ==
  ASSUME IInv,
         \/ \E e \in Executors : ThreadStep(e) \/ SpuriousWakeup(e)
         \/ Destroy \/ DestroyStep
         \/ \E n \in Settings : PutSetting(n)
         \/ \E t \in Threads : Read(t) \/ PickNothing(t)
         \/ UNCHANGED vars
  PROVE  /\ UNCHANGED <<queue, published, sentCount, local, delivered, unread,
                        msg, wakeupCount, selves>>
         /\ Holding' = Holding /\ Calling' = Calling
  <1>1. UNCHANGED <<queue, published, sentCount, local, delivered, unread,
                    msg, wakeupCount, selves>>
    BY DEF ThreadStep, ThreadReady, ThreadTest, ThreadRun, ThreadPark, ThreadEnd,
           SpuriousWakeup, UnchangedByThread, Destroy, DestroyStep, DestroySignal,
           DestroySpin, DestroyReturn, UnchangedByCloser, PutSetting, Read,
           PickNothing, Unchanged4Dispatch, vars, counters, threads, fates
  <1>2. ASSUME NEW e \in Executors, ThreadStep(e) \/ SpuriousWakeup(e)
        PROVE  Holding' = Holding /\ Calling' = Calling
    <2>1. /\ pc[e] \notin {"read", "deliver"}
          /\ \E place \in {"test", "end", "run", "pick", "wait", "gone"} :
               pc' = [pc EXCEPT ![e] = place]
      BY <1>2 DEF ThreadStep, ThreadReady, ThreadTest, ThreadRun, ThreadPark,
                  ThreadEnd, SpuriousWakeup, Go
    <2>2. QED
      BY <2>1, HoldingSame, Moved, Disjoint DEF IInv, Typed
  <1>3. ASSUME NEW t \in Threads, Read(t) \/ PickNothing(t)
        PROVE  Holding' = Holding /\ Calling' = Calling
    <2>1. \/ pc[t] = "read" /\ pc' = [pc EXCEPT ![t] = "deliver"]
          \/ pc[t] = "pick" /\ pc' = [pc EXCEPT ![t] = "count"]
      BY <1>3 DEF Read, PickNothing, Go
    <2>2. QED
      BY <2>1, HoldingSame, Moved DEF IInv, Typed, CallingPCs
  <1>4. pc' = pc => Holding' = Holding /\ Calling' = Calling
    BY DEF Holding, Calling
  <1>5. ASSUME DestroySignal PROVE Holding' = Holding /\ Calling' = Calling
    <2>1. pc' = [pc EXCEPT ![closeAt] =
                   IF @ = "wait" /\ state[closeAt] = "waiting" THEN "test" ELSE @]
      BY <1>5 DEF DestroySignal
    <2>2. \A t \in Threads : pc'[t] = pc[t] \/ (pc[t] = "wait" /\ pc'[t] = "test")
      BY <2>1 DEF IInv, Typed
    <2>3. QED
      BY <2>2, Disjoint DEF Holding, Calling
  <1>6. \/ pc' = pc \/ DestroySignal
        \/ \E e \in Executors : ThreadStep(e) \/ SpuriousWakeup(e)
        \/ \E t \in Threads : Read(t) \/ PickNothing(t)
    BY DEF Destroy, DestroyStep, DestroySpin, DestroyReturn, PutSetting, vars, threads
  <1>7. QED
    BY <1>1, <1>2, <1>3, <1>4, <1>5, <1>6

(* Every step keeps the messages where NothingLost looks for them.         *)
LEMMA NextPlaced ==
  ASSUME IInv, Placed, [Next]_vars
  PROVE  Placed'
  <1>1. ASSUME NEW p \in Publishers, Publish(p) \/ WakeupStep(p) PROVE Placed'
    BY <1>1, PublishPlaced, CallingPlaced, ScanPlaced DEF WakeupStep
  <1>2. ASSUME NEW t \in Threads, Pick(t) \/ ReadFails(t) \/ Delivered(t) \/ Count(t)
        PROVE  Placed'
    BY <1>2, PickPlaced, ReadFailsPlaced, DeliveredPlaced, CountPlaced
  <1>3. CASE \/ \E e \in Executors : ThreadStep(e) \/ SpuriousWakeup(e)
             \/ Destroy \/ DestroyStep
             \/ \E n \in Settings : PutSetting(n)
             \/ \E t \in Threads : Read(t) \/ PickNothing(t)
             \/ UNCHANGED vars
    <2>1. msg \in [Threads -> Nat]
      BY DEF Placed
    <2>2. QED
      BY <1>3, <2>1, OtherMoves, PlacedQuiet
  <1>4. QED
    BY <1>1, <1>2, <1>3 DEF Next, DispatchStep

(* Every step keeps wakeupCount in step with the publications.             *)
LEMMA NextWoken ==
  ASSUME IInv, Placed, Woken, [Next]_vars
  PROVE  Woken'
  <1>1. CASE UNCHANGED <<published, wakeupCount, selves>> /\ Calling' = Calling
    BY <1>1 DEF Woken
  <1>2. ASSUME NEW p \in Publishers, Publish(p) PROVE Woken'
    <2>1. /\ published' = published + 1 /\ UNCHANGED <<wakeupCount, selves>>
          /\ pc[p] = "outside" /\ pc' = [pc EXCEPT ![p] = "link"]
      BY <1>2 DEF Publish, counters, fates, Go
    <2>2. Calling' = Calling \cup {p} /\ p \notin Calling
      BY <2>1, Disjoint DEF IInv, Typed, Calling
    <2>3. Cardinality(Calling') = Cardinality(Calling) + 1
      BY <2>2, FiniteCalling, FS_AddElement
    <2>4. QED
      BY <2>1, <2>3, FiniteCalling DEF Woken
  <1>3. ASSUME NEW p \in Publishers,
               Link(p) \/ WakeupSettings(p) \/ SetMaxExecutorCount(p)
        PROVE  Woken'
    <2>1. /\ UNCHANGED <<published, wakeupCount, selves>> /\ pc[p] \in CallingPCs
          /\ \E place \in CallingPCs : pc' = [pc EXCEPT ![p] = place]
      BY <1>3 DEF Link, WakeupSettings, SetMaxExecutorCount, UnchangedByWakeup,
                  counters, Go, CallingPCs
    <2>2. Calling' = Calling
      BY <2>1, Disjoint DEF IInv, Typed, Calling, CallingPCs
    <2>3. QED
      BY <1>1, <2>1, <2>2
  <1>4. ASSUME NEW p \in Publishers, WakeupSelf(p) PROVE Woken'
    <2>1. CASE forceActiveSelf
      <3>1. /\ selves' = selves + 1 /\ UNCHANGED <<published, wakeupCount>>
            /\ pc[p] = "self" /\ pc' = [pc EXCEPT ![p] = "pick"]
        BY <1>4, <2>1 DEF WakeupSelf, UnchangedByWakeup, counters, Go
      <3>2. Calling' = Calling \ {p} /\ p \in Calling
        BY <3>1, Disjoint DEF IInv, Typed, Calling
      <3>3. Cardinality(Calling') = Cardinality(Calling) - 1
        BY <3>2, FiniteCalling, FS_RemoveElement
      <3>4. QED
        BY <3>1, <3>3, FiniteCalling DEF Woken
    <2>2. CASE ~forceActiveSelf
      <3>1. /\ UNCHANGED <<published, wakeupCount, selves>>
            /\ pc[p] = "self" /\ pc' = [pc EXCEPT ![p] = "lock"]
        BY <1>4, <2>2 DEF WakeupSelf, UnchangedByWakeup, counters, Go
      <3>2. Calling' = Calling
        BY <3>1, Disjoint DEF IInv, Typed, Calling
      <3>3. QED
        BY <1>1, <3>1, <3>2
    <2>3. QED
      BY <2>1, <2>2
  <1>5. ASSUME NEW p \in Publishers, WakeupLock(p) PROVE Woken'
    <2>1. /\ wakeupCount' = wakeupCount + 1 /\ UNCHANGED <<published, selves>>
          /\ pc[p] = "lock" /\ pc' = [pc EXCEPT ![p] = "scan"]
      BY <1>5 DEF WakeupLock, fates, Go
    <2>2. Calling' = Calling \ {p} /\ p \in Calling
      BY <2>1, Disjoint DEF IInv, Typed, Calling
    <2>3. Cardinality(Calling') = Cardinality(Calling) - 1
      BY <2>2, FiniteCalling, FS_RemoveElement
    <2>4. QED
      BY <2>1, <2>3, FiniteCalling DEF Woken
  <1>6. ASSUME NEW p \in Publishers,
               WakeupSignal(p) \/ WakeupNext(p) \/ WakeupCreate(p) \/ WakeupLeave(p)
        PROVE  Woken'
    <2>1. UNCHANGED <<published, wakeupCount, selves>>
      BY <1>6 DEF WakeupSignal, WakeupNext, WakeupCreate, WakeupLeave, counters, fates
    <2>2. QED
      BY <1>1, <1>6, <2>1, ScanPlaced
  <1>7. ASSUME NEW t \in Threads, Pick(t) \/ ReadFails(t) \/ Delivered(t) \/ Count(t)
        PROVE  Woken'
    <2>1. UNCHANGED <<published, wakeupCount, selves>>
      BY <1>7 DEF Pick, ReadFails, Delivered, Count, Unchanged4Dispatch
    <2>2. /\ pc[t] \notin CallingPCs
          /\ \E place \in {"read", "count", "pick", "outside", "park"} :
               pc' = [pc EXCEPT ![t] = place]
      BY <1>7 DEF Pick, ReadFails, Delivered, Count, Go, CallingPCs
    <2>3. Calling' = Calling
      BY <2>2, Moved DEF IInv, Typed, CallingPCs
    <2>4. QED
      BY <1>1, <2>1, <2>3
  <1>8. CASE \/ \E e \in Executors : ThreadStep(e) \/ SpuriousWakeup(e)
             \/ Destroy \/ DestroyStep
             \/ \E n \in Settings : PutSetting(n)
             \/ \E t \in Threads : Read(t) \/ PickNothing(t)
             \/ UNCHANGED vars
    BY <1>1, <1>8, OtherMoves
  <1>9. QED
    BY <1>2, <1>3, <1>4, <1>5, <1>6, <1>7, <1>8 DEF Next, WakeupStep, DispatchStep

(* NothingLost: a published message is in the queue, in the hands of one   *)
(* thread, delivered or given up as unreadable, what is sent is what was   *)
(* delivered, and the two counters of the congestion drift apart by no     *)
(* more than the publishers that dispatch themselves and the messages that *)
(* cannot be read; for any number of threads that publish, dispatch, start *)
(* each other and end.                                                     *)
THEOREM MessagesAreConserved == Spec => []NothingLost
  <1>1. Init => Placed /\ Woken
    <2> SUFFICES ASSUME Init PROVE Placed /\ Woken
      OBVIOUS
    <2>1. Holding = {} /\ Hands = {} /\ Calling = {}
      BY Disjoint DEF Init, Holding, Hands, Calling
    <2>2. SumOver(local, Threads) = 0
      <3>1. \A t \in Threads : local[t] = 0
        BY DEF Init
      <3>2. QED
        BY <3>1, FiniteThreads, SumZero
    <2>3. /\ Len(queue) = 0 /\ published = 0 /\ sentCount = 0 /\ queue \in Seq(Nat)
          /\ local \in [Threads -> Nat] /\ msg \in [Threads -> Nat]
          /\ delivered = {} /\ unread = {} /\ selves = 0 /\ wakeupCount = 0
      BY DEF Init
    <2>4. ToSet(queue) = {} /\ 1..published = {}
      BY <2>3 DEF ToSet
    <2>5. QED
      BY <2>1, <2>2, <2>3, <2>4, FS_EmptySet DEF Placed, Woken
  <1>2. IInv /\ Placed /\ Woken /\ [Next]_vars => Placed' /\ Woken'
    BY NextPlaced, NextWoken
  <1>3. Placed /\ Woken => NothingLost
    BY DEF Placed, Woken, Hands, NothingLost, SumOver
  <1>4. QED
    BY <1>1, <1>2, <1>3, InitIInv, NextIInv, PTL DEF Spec
=============================================================================
