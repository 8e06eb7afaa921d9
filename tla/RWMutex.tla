------------------------------- MODULE RWMutex -------------------------------
(***************************************************************************)
(* The read-write mutex: a word rw = {readers, writers} changed by CAS and *)
(* a recursive mutex.  A reader that meets no writer only counts itself in *)
(* (SHARE); one that meets a writer takes the mutex (EXCLUSIVE).  A writer *)
(* announces itself, spins until the readers are gone and takes the mutex. *)
(*                                                                         *)
(* A CAS loop succeeds on the value its decision was made from, so it is   *)
(* one action; every other access of rw or of the mutex is an action too.  *)
(* Threads do not nest the lock, as its callers do not.                    *)
(***************************************************************************)
EXTENDS Naturals, FiniteSets, Functions

CONSTANTS Threads, NoThread

ASSUME RWMutexAssumption == IsFiniteSet(Threads) /\ NoThread \notin Threads

VARIABLES
  readers, writers,   \* the two halves of rw
  owner, holds,       \* the recursive mutex: who has it, how often
  pc

vars == <<readers, writers, owner, holds, pc>>

-----------------------------------------------------------------------------
(* "read-wait": in mutex.Lock() of RLock; "shared" and "exclusive": RLock  *)
(* has returned; "spin" and "write-wait": in WLock, before and after the   *)
(* spin loop; "writing": WLock has returned; "unlock": in WUnlock.         *)
PCs == {"idle", "read-wait", "shared", "exclusive",
        "spin", "write-wait", "writing", "unlock"}

Init ==
  /\ readers = 0 /\ writers = 0
  /\ owner = NoThread /\ holds = 0
  /\ pc = [t \in Threads |-> "idle"]

Go(t, from, to) == pc[t] = from /\ pc' = [pc EXCEPT ![t] = to]

(* mutex.Lock() and mutex.UnLock().                                        *)
Lock(t) ==
  /\ owner \in {NoThread, t}
  /\ owner' = t /\ holds' = holds + 1

UnLock ==
  /\ holds' = holds - 1
  /\ owner' = IF holds = 1 THEN NoThread ELSE owner

(* Mutant: a reader does not look for writers.                             *)
RLockShareAlways(t) ==
  /\ Go(t, "idle", "shared")
  /\ readers' = readers + 1
  /\ UNCHANGED <<writers, owner, holds>>

(* RLock without a writer.                                                 *)
RLockShare(t) ==
  /\ Go(t, "idle", "shared")
  /\ writers = 0
  /\ readers' = readers + 1
  /\ UNCHANGED <<writers, owner, holds>>

(* RLock with one.                                                         *)
RLockWait(t) ==
  /\ Go(t, "idle", "read-wait")
  /\ writers > 0
  /\ UNCHANGED <<readers, writers, owner, holds>>

RLockExclusive(t) ==
  /\ Go(t, "read-wait", "exclusive")
  /\ Lock(t)
  /\ UNCHANGED <<readers, writers>>

RUnlockShare(t) ==
  /\ Go(t, "shared", "idle")
  /\ readers' = readers - 1
  /\ UNCHANGED <<writers, owner, holds>>

(* "if (rw && type == RW_TYPE_EXCLUSIVE)": the mutex is unlocked only if   *)
(* somebody is counted in rw.                                              *)
RUnlockExclusive(t) ==
  /\ Go(t, "exclusive", "idle")
  /\ IF readers + writers # 0 THEN UnLock ELSE UNCHANGED <<owner, holds>>
  /\ UNCHANGED <<readers, writers>>

(* Mutant: the CAS of WLock stores 1 whatever was there.                   *)
WLockAnnounceOne(t) ==
  /\ Go(t, "idle", "spin")
  /\ writers' = 1
  /\ UNCHANGED <<readers, owner, holds>>

(* WLock: announce, spin, lock.                                            *)
WLockAnnounce(t) ==
  /\ Go(t, "idle", "spin")
  /\ writers' = writers + 1
  /\ UNCHANGED <<readers, owner, holds>>

(* Mutant: no spin.                                                        *)
WLockSpinNot(t) ==
  /\ Go(t, "spin", "write-wait")
  /\ UNCHANGED <<readers, writers, owner, holds>>

WLockSpin(t) ==
  /\ Go(t, "spin", "write-wait")
  /\ readers = 0
  /\ UNCHANGED <<readers, writers, owner, holds>>

WLockLock(t) ==
  /\ Go(t, "write-wait", "writing")
  /\ Lock(t)
  /\ UNCHANGED <<readers, writers>>

(* WUnlock: leave rw, then the mutex.                                      *)
WUnlockLeave(t) ==
  /\ Go(t, "writing", "unlock")
  /\ writers' = writers - 1
  /\ UNCHANGED <<readers, owner, holds>>

WUnlockUnLock(t) ==
  /\ Go(t, "unlock", "idle")
  /\ UnLock
  /\ UNCHANGED <<readers, writers>>

Enter(t) == RLockShare(t) \/ RLockWait(t) \/ WLockAnnounce(t)

Proceed(t) ==
  \/ RLockExclusive(t) \/ RUnlockShare(t) \/ RUnlockExclusive(t)
  \/ WLockSpin(t) \/ WLockLock(t) \/ WUnlockLeave(t) \/ WUnlockUnLock(t)

Next == \E t \in Threads : Enter(t) \/ Proceed(t)

(* A thread that has begun to lock or unlock goes on when it can, and      *)
(* whoever has the lock gives it back; the mutex is not fair, but it goes  *)
(* to a thread that could take it again and again.                         *)
Fairness == \A t \in Threads : SF_vars(Proceed(t))

Spec     == Init /\ [][Next]_vars
FairSpec == Spec /\ Fairness

-----------------------------------------------------------------------------
Announced == {"spin", "write-wait", "writing"}

InPC(places) == {t \in Threads : pc[t] \in places}

(* Type invariant.                                                         *)
TypeOK ==
  /\ readers \in Nat /\ writers \in Nat
  /\ owner \in Threads \cup {NoThread}
  /\ holds \in Nat
  /\ pc \in [Threads -> PCs]

(* A writer is alone: no other thread writes, and no thread reads, by      *)
(* whichever of the two ways it came in.                                   *)
MutualExclusion ==
  \A w, t \in Threads :
    pc[w] = "writing" /\ t # w => pc[t] \notin {"writing", "shared", "exclusive"}

(* rw is exact: lost updates would let a writer in beside a reader or keep *)
(* every reader out for ever.                                              *)
CountsExact ==
  /\ readers = Cardinality(InPC({"shared"}))
  /\ writers = Cardinality(InPC(Announced))

(* Readers do not overtake a writer: once one has announced itself, no     *)
(* further reader enters by the shared way.                                *)
WriterGoesFirst ==
  [][InPC(Announced) # {} => readers' <= readers]_vars

(* Hence the spin of a writer ends.                                        *)
SpinEnds == \A t \in Threads : pc[t] = "spin" ~> pc[t] # "spin"

-----------------------------------------------------------------------------
(* Claims of the documentation that the code does not keep.                *)

(* RUnlock "will sub 1 on readers, or invoke the UnLock of the TMQMutex"   *)
(* (RWMutex.cpp:33-34): a thread that is through with the lock does not    *)
(* own the mutex.                                                          *)
UnlockReleases == \A t \in Threads : pc[t] = "idle" => owner # t

(* "when there is a writer, taking the lock for reader will wait until the *)
(* writer leaving" (RWMutex.h:27-28), and no longer.                       *)
ReaderWaitEnds == \A t \in Threads : pc[t] = "read-wait" ~> pc[t] = "exclusive"
=============================================================================
