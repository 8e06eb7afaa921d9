---------------------------- MODULE SectionSpace ----------------------------
(***************************************************************************)
(* A section space: the allocations of a section (SectionSpace.cpp) and    *)
(* the allocator above it (SectionAllocator.cpp).  The list of a section   *)
(* holds SecAlloc entries [sec, address, size, state]: address = <<page,   *)
(* offset>> is the piece of the file, sec = <<index, id>> the address that *)
(* the caller of Allocate gets: the place of the entry in the list (from 1 *)
(* here) and a number that grows.                                          *)
(*                                                                         *)
(* An operator takes and leaves a world w: w.d the file, w.m the memory of *)
(* the space, w.static the two static variables of GetFreedAllocList,      *)
(* which all spaces share.  w.m.start and w.m.count are the space's own    *)
(* copy of its section, w.m.id the last id, w.m.released the count of      *)
(* released entries, w.m.tree the free entries in memory, at most one of   *)
(* an address.                                                             *)
(***************************************************************************)
EXTENDS Persistence

CONSTANT AllocIdMax   \* ALLOC_ID_MAX, 2^32 - 1

ASSUME SectionSpaceAssumption == AllocIdMax \in Nat \ {0}

ADDRESS_NULL == <<-1, -1>>
AllocStates == {"ALLOC", "FREE", "RELEASE"}
NoAlloc == [sec |-> ADDRESS_NULL, address |-> ADDRESS_NULL, size |-> 0, state |-> "DEFAULT"]

Before(a, b) == a[1] < b[1] \/ (a[1] = b[1] /\ a[2] < b[2])
EarlierAlloc(x, y) == Before(x.address, y.address)
AllocId(x) == x.sec[2]

(* AllocCompare takes the unsigned ids for signed ones.                    *)
SignedId(id) == IF id > AllocIdMax \div 2 THEN id - AllocIdMax - 1 ELSE id
ComparedIds(l) == [i \in DOMAIN l |-> SignedId(AllocId(l[i]))]

NoStatic == [cold |-> 0, limit |-> 0]
(* The constructor, on the file of its section.                            *)
SpaceOf(f, n) == [d |-> f.d, m |-> [name |-> n, start |-> f.s.start, count |-> f.s.count,
                                    id |-> 0, released |-> 0, tree |-> {}]]
NewSpace(d, n) == SpaceOf(FindSection(d, n, TRUE), n)

(* CreateLinearSpace of each of the names, on a file that has been opened. *)
PutSpace(v, s) == [d |-> s.d, m |-> [v.m EXCEPT ![s.m.name] = s.m]]
CreateSpaces(d, names) ==
    FoldLeft(LAMBDA v, n : PutSpace(v, NewSpace(v.d, n)),
             [d |-> OpenFile(d), m |-> [n \in ToSet(names) |-> <<>>]], names)

List(w) == ListAt(w.d, w.m.start)
SetEntry(w, i, e) == [w EXCEPT !.d = SetList(w.d, w.m.start, [List(w) EXCEPT ![i] = e])]
InTree(m, a) == \E x \in m.tree : x.address = a
TreeInsert(w, x) == IF InTree(w.m, x.address) THEN w ELSE [w EXCEPT !.m.tree = @ \cup {x}]

WithSection(w, r) == [w EXCEPT !.d = r.d, !.m.start = r.s.start, !.m.count = r.s.count]
OwnSection(w) ==
    IF w.m.start <= 0 THEN FindSection(w.d, w.m.name, TRUE)
    ELSE [d |-> w.d, s |-> [name |-> w.m.name, start |-> w.m.start, count |-> w.m.count]]
Resized(w, f, reserve) == WithSection(w, ResizeSection(f.d, f.s, reserve))

(* SectionSpace::GetLazyAllocList: room for reserve more entries.          *)
GetLazyAllocList(w, reserve) == Resized(w, OwnSection(w), reserve)

(* Mutant: only the place that the address tells is looked at.             *)
FindAllocByPlace(l, a) ==
    IF a[1] \in DOMAIN l /\ AllocId(l[a[1]]) = a[2] THEN a[1] ELSE 0

(* SectionAllocator::FindAlloc: the place of the entry of a section        *)
(* address, 0 when there is none.  The address tells the place unless the  *)
(* list has been reset since; then the ids are searched.                   *)
FindAlloc(l, a) ==
    LET At(i) == IF i \in DOMAIN l THEN l[i] ELSE NoAlloc
        p     == FindPosition(ComparedIds(l), SignedId(a[2]))
        place == IF At(a[1]).sec # a /\ p \in DOMAIN l THEN p ELSE a[1]
    IN  IF a # ADDRESS_NULL /\ AllocId(At(place)) = a[2] THEN place ELSE 0

(* SectionSpace::ResetSpace: the entries that are not released move to new *)
(* pages and get their new places.                                         *)
Kept(l) == SelectSeq(l, LAMBDA x : x.state # "RELEASE")
\* \o makes a tuple of the function, which TLC needs to update it
Renumbered(l) == <<>> \o [i \in DOMAIN l |-> [l[i] EXCEPT !.sec = <<i, @[2]>>]]
MoveEntries(w, a) ==
    [w EXCEPT !.d = UpdateSection(SetList(Zero(a.d, a.page), a.page, Renumbered(Kept(List(w)))),
                        [name |-> w.m.name, start |-> a.page, count |-> a.real]),
              !.m.start = a.page, !.m.count = a.real, !.m.released = 0]
ResetList(w) == MoveEntries(w, AllocPages(w.d, w.m.count))
ResetSpace(w) == ResetList(GetLazyAllocList(w, 0))

(* releaseCount / size > SPACE_RESET_THRESHOLD: in float, 3/10 is more     *)
(* than 0.3.                                                               *)
ManyReleased(w) == 10 * w.m.released >= 3 * Len(List(w))

(* A space with many released entries is compacted.                        *)
ResetIfMany(w) == IF ManyReleased(w) THEN ResetSpace(w) ELSE w

ReleaseAt(w, i) ==
    LET r == [SetEntry(w, i, [List(w)[i] EXCEPT !.state = "RELEASE"]) EXCEPT !.m.released = @ + 1]
    IN  IF i = 0 THEN w ELSE ResetIfMany(r)
ReleaseIn(w, a) == ReleaseAt(w, FindAlloc(List(w), a))
ReleaseAlloc(w, a) == ReleaseIn(GetLazyAllocList(w, 0), a)

(* SectionSpace::Write and Read of the first size bytes of an address;     *)
(* an address that is not found is not written, and reads as <<>>.         *)
ByteOf(address) == address[1] * PageBytes + address[2]
WriteIn(w, a, size, value) ==
    LET i == FindAlloc(List(w), a)
    IN  IF i = 0 THEN w
        ELSE [w EXCEPT !.d = WriteBytes(@, ByteOf(List(w)[i].address), size, value)]
WriteSpace(w, a, size, value) == WriteIn(GetLazyAllocList(w, 0), a, size, value)
ReadSpace(w, a, size) ==
    LET i == FindAlloc(List(w), a)
    IN  IF i = 0 THEN <<>> ELSE ReadBytes(w.d, ByteOf(List(w)[i].address), size)

(* The new entry and the world with it, NoAlloc when there is no room.     *)
AppendIn(w, address, size, state) ==
    LET l == List(w)
        e == [sec |-> <<Len(l) + 1, w.m.id>>, address |-> address, size |-> size, state |-> state]
    IN  IF Len(l) + 1 > Capacity(w.m.count, SecPerPage) THEN [w |-> w, e |-> NoAlloc]
        ELSE [w |-> [w EXCEPT !.d = SetList(@, w.m.start, Append(l, e))], e |-> e]
AppendAlloc(w, address, size, state) ==
    AppendIn([GetLazyAllocList(w, 1) EXCEPT !.m.id = @ + 1], address, size, state)

----------------------------------------------------------------------------
(* The allocator.                                                          *)

(* SectionAllocator::GetFreedAllocList: the free entries of an old file,   *)
(* a page of the list at a time.                                           *)
FreedIn(w) ==
    LET l     == List(w)
        limit == IF w.static.limit = 0 THEN Len(l) ELSE w.static.limit
        cold  == w.static.cold
        end   == Max({cold, Min({Len(l), cold + SecPerPage, limit})})
        free  == SelectSeq(SubSeq(l, cold + 1, end), LAMBDA x : x.state = "FREE")
    IN  [FoldLeft(TreeInsert, w, free)
           EXCEPT !.static = [cold |-> IF end - cold = SecPerPage THEN end ELSE -1,
                              limit |-> limit]]
GetFreedAllocList(w) ==
    IF w.static.cold = -1 THEN w ELSE FreedIn(GetLazyAllocList(w, 0))

(* The first free entries of one page, in the order of their addresses,    *)
(* whose sizes add up to size: the places i .. j in the sorted tree.  They *)
(* need not follow one another.                                            *)
SizeSum(s) == FoldLeft(LAMBDA n, x : n + x.size, 0, s)
(* Mutant: the free entries of other pages are counted as well.            *)
FirstOfPageAny(s, j) == 1
FirstOfPage(s, j) == Min({i \in 1 .. j : s[i].address[1] = s[j].address[1]})
Candidates(s, size) ==
    LET enough == {j \in DOMAIN s : SizeSum(SubSeq(s, FirstOfPage(s, j), j)) >= size}
    IN  IF enough = {} THEN <<>>
        ELSE SubSeq(s, FirstOfPage(s, Min(enough)), Min(enough))

(* The candidates are released, from the last to the first; the first      *)
(* address is taken, and what the sizes leave is free.                     *)
ReleaseAll(w, c) == FoldRight(LAMBDA x, v : ReleaseAlloc(v, x.sec), c, w)
InsertNew(r) == TreeInsert(r.w, r.e)
Rest(w, e, c) ==
    IF SizeSum(c) = e.size THEN w
    ELSE InsertNew(AppendAlloc(w, <<e.address[1], e.address[2] + e.size>>,
                               SizeSum(c) - e.size, "FREE"))
Taken(a, c) == IF a.e = NoAlloc THEN a
               ELSE [w |-> Rest([a.w EXCEPT !.m.tree = @ \ Range(c)], a.e, c), e |-> a.e]
TakeFirst(w, c, size) ==
    IF c = <<>> THEN [w |-> w, e |-> NoAlloc]
    ELSE Taken(AppendAlloc(ReleaseAll(w, c), c[1].address, size, "ALLOC"), c)
ReuseIn(w, size) == TakeFirst(w, Candidates(SetToSortSeq(w.m.tree, EarlierAlloc), size), size)
ReuseAddress(w, size) == ReuseIn(GetFreedAllocList(w), size)

(* SectionAllocator::Allocate: else new pages, and their end is free.      *)
AllocateOn(w, p, length) ==
    AppendAlloc(InsertNew(AppendAlloc([w EXCEPT !.d = p.d], <<p.page, length>>,
                                      p.real * PageBytes - length, "FREE")),
                <<p.page, 0>>, length, "ALLOC")
AllocateNew(w, length) == AllocateOn(w, AllocPages(w.d, length \div PageBytes + 1), length)

(* SectionSpace::Allocate: the world, and the entry made for the caller.   *)
LastId(w) == IF List(w) = <<>> THEN w ELSE [w EXCEPT !.m.id = AllocId(Last(List(w)))]
FirstId(w) == [w EXCEPT !.m.id = Len(List(w))]
Counting(w) == IF w.m.id = AllocIdMax THEN FirstId(ResetSpace(w)) ELSE w
OrNew(u, length) == IF u.e # NoAlloc THEN u ELSE AllocateNew(u.w, length)
Allocate(w, length) ==
    OrNew(ReuseAddress(Counting(LastId(GetLazyAllocList(w, 0))), length), length)

(* SectionAllocator::TryFreePage: when the free entries of the pages make  *)
(* up all of them, they are released and the pages given back.             *)
FreePage(w, s, page) ==
    [FoldLeft(LAMBDA v, x : ReleaseAlloc(v, x.sec), w, s)
       EXCEPT !.m.tree = @ \ Range(s), !.d = DeallocPages(@, page)]
TryFreePage(w, address) ==
    LET page == address[1]
        same == SetToSortSeq({x \in w.m.tree : x.address[1] = page}, EarlierAlloc)
        size == GetAllocPageSize(w.d, page) * PageBytes
    IN  IF size <= 0 \/ ~InTree(w.m, address) \/ SizeSum(same) # size THEN w
        ELSE FreePage(w, same, page)

(* SectionAllocator::Deallocate, and the end of SectionSpace::Deallocate.  *)
FreeEntry(w, i, x) == TryFreePage(TreeInsert(SetEntry(w, i, x), x), x.address)
FreeIn(w, a) ==
    LET i == FindAlloc(List(w), a)
    IN  IF i = 0 THEN w ELSE FreeEntry(w, i, [List(w)[i] EXCEPT !.state = "FREE"])
DeallocateEntry(w, a) == IF a = ADDRESS_NULL THEN w ELSE FreeIn(GetLazyAllocList(w, 0), a)

EraseIfEmpty(w) ==
    IF List(w) = <<>>
    THEN [w EXCEPT !.d = EraseSection(@, w.m.name), !.m.start = PAGE_NULL, !.m.count = 0]
    ELSE ResetIfMany(w)
Deallocate(w, a) == EraseIfEmpty(GetLazyAllocList(DeallocateEntry(w, a), 0))
=============================================================================
