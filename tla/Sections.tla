------------------------------ MODULE Sections ------------------------------
(***************************************************************************)
(* Section spaces at work on one file: callers allocate and give back the  *)
(* addresses they hold, and the process ends between two calls and is      *)
(* started again on the file it left (Restart), or dies in the middle of a *)
(* call (Crash, which only CrashSpec allows).  The callers are under the   *)
(* mutex of TMQStorage, so a call runs to its end before the next one.     *)
(***************************************************************************)
EXTENDS SectionSpace

CONSTANTS Names,      \* the section spaces that are in use
          Lengths,    \* the lengths that callers ask for
          MaxCalls,   \* bound: how often Allocate and Deallocate are called
          MaxRestarts \* bound: how often the process is started again

ASSUME SectionsAssumption ==
    /\ Lengths \subseteq Nat \ {0}
    /\ MaxCalls \in Nat /\ MaxRestarts \in Nat

VARIABLES
    file,     \* the file
    space,    \* the memory of each section space
    static,   \* the static variables of GetFreedAllocList
    held,     \* the addresses the callers hold: [name, sec, size]
    calls, restarts

vars == <<file, space, static, held, calls, restarts>>

OpenAll(d) == CreateSpaces(d, SetToSeq(Names))

World(n) == [d |-> file, m |-> space[n], static |-> static]
Leave(n, w) == /\ calls < MaxCalls /\ calls' = calls + 1
               /\ file' = [w.d EXCEPT !.log = <<>>]
               /\ space' = [space EXCEPT ![n] = w.m]
               /\ static' = w.static

Init == LET o == OpenAll(EmptyFile)
        IN  /\ file = [o.d EXCEPT !.log = <<>>] /\ space = o.m /\ static = NoStatic
            /\ held = {} /\ calls = 0 /\ restarts = 0

DoAllocate(n, length) ==
    LET a == Allocate(World(n), length)
    IN  /\ Leave(n, a.w)
        /\ held' = held \cup {[name |-> n, sec |-> a.e.sec, size |-> length]}
        /\ UNCHANGED restarts

DoDeallocate(h) ==
    /\ Leave(h.name, Deallocate(World(h.name), h.sec))
    /\ held' = held \ {h}
    /\ UNCHANGED restarts

(* The process is started again on file d, and its memory is new.          *)
Reopen(d) ==
    LET o == OpenAll(d)
    IN  /\ restarts < MaxRestarts /\ restarts' = restarts + 1
        /\ file' = [o.d EXCEPT !.log = <<>>] /\ space' = o.m /\ static' = NoStatic
        /\ UNCHANGED <<held, calls>>

Restart == Reopen(file)
(* The process dies in a call, which has left any of its files behind.     *)
Die(d) == \E i \in DOMAIN d.log : Reopen(d.log[i])
Crash == \/ \E n \in Names, length \in Lengths : Die(Allocate(World(n), length).w.d)
         \/ \E h \in held : Die(Deallocate(World(h.name), h.sec).d)

Next == \/ \E n \in Names, length \in Lengths : DoAllocate(n, length)
        \/ \E h \in held : DoDeallocate(h)
        \/ Restart

Spec == Init /\ [][Next]_vars
CrashSpec == Init /\ [][Next \/ Crash]_vars
----------------------------------------------------------------------------
Table == PageTable(file)
Starts == {Section(file, n).start : n \in {s.name : s \in Range(file.sections)}} \ {PAGE_NULL}
Entries(n) == ListAt(file, Section(file, n).start)
Live(x) == x.state \in {"ALLOC", "FREE"}
PagesIn(n) == {x.address[1] : x \in {y \in Range(Entries(n)) : Live(y)}}
Occupied == {Table[i].start : i \in {j \in DOMAIN Table : Table[j].occupied}}

(* Every page of the file but the first is in exactly one entry of the     *)
(* table of pages, and no write has gone beyond the end of the file.       *)
PagesTiled ==
    Starts # {} =>
      /\ ~file.fault
      /\ Table[1].start = 1
      /\ \A i \in DOMAIN Table :
           Table[i].start + Table[i].count =
             (IF i = Len(Table) THEN file.length ELSE Table[i + 1].start)

(* The pages of the table itself, of the list of each section and of the   *)
(* pieces in that list have different owners, all are occupied, and what   *)
(* is occupied has such an owner: no page is given twice and none is lost, *)
(* whatever the order of releases, resets and restarts.                    *)
OneOwner ==
    /\ Cardinality(Starts) =
         Cardinality({i \in DOMAIN file.sections : file.sections[i].start # PAGE_NULL})
    /\ \A n \in Names : PagesIn(n) \cap Starts = {}
    /\ \A n, o \in Names : n # o => PagesIn(n) \cap PagesIn(o) = {}
    /\ Starts # {} => Occupied = Starts \cup UNION {PagesIn(n) : n \in Names}

(* The pieces of an allocation of pages, in use and free, add up to it: so *)
(* pages are given back only when nothing on them is in use.               *)
PiecesAddUp ==
    \A n \in Names :
      LET l == Entries(n)
          live == {i \in DOMAIN l : Live(l[i])}
          On(p) == {i \in live : l[i].address[1] = p}
      IN  \A p \in {l[i].address[1] : i \in live} :
            FoldSet(LAMBDA i, s : s + l[i].size, 0, On(p)) = GetAllocPageSize(file, p) * PageBytes

(* An address that a caller holds finds an entry in use, of the size it    *)
(* asked for, however often the list was reset or the process restarted;   *)
(* two callers never find the same entry, and the entries in use are       *)
(* exactly the addresses held.                                             *)
HeldResolve ==
    \A n \in Names :
      LET l    == Entries(n)
          mine == {h \in held : h.name = n}
          at   == [h \in mine |-> FindAlloc(l, h.sec)]
      IN  /\ \A h \in mine : at[h] # 0 /\ l[at[h]].size = h.size
          /\ {at[h] : h \in mine} = {i \in DOMAIN l : l[i].state = "ALLOC"}
          /\ \A h, g \in mine : h # g => at[h] # at[g]

(* The bytes of two entries in use do not overlap (Metas.h: ADDRESS_ALLOC  *)
(* says that an address is in use).                                        *)
NoOverlap ==
    \A n \in Names : \A i, j \in DOMAIN Entries(n) :
      LET x == Entries(n)[i]  y == Entries(n)[j]
      IN  (i # j /\ x.state = "ALLOC" /\ y.state = "ALLOC" /\ x.address[1] = y.address[1])
            => \/ x.address[2] + x.size <= y.address[2]
               \/ y.address[2] + y.size <= x.address[2]
=============================================================================
