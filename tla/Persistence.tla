---------------------------- MODULE Persistence ----------------------------
(***************************************************************************)
(* The file of the persistent messages: its pages (FileSpace.cpp), the     *)
(* lists kept on them (LazyLinearList.h), and the sections and the table   *)
(* of pages that Persistence.cpp keeps in such lists.  Every operation is  *)
(* an operator from a file to the file it leaves.                          *)
(*                                                                         *)
(* A file d is a record: d.length pages; d.sections, the list of sections  *)
(* on page 0; d.list[p + 1], the list whose header is on page p.  A page that  *)
(* is freed and taken again keeps its contents until they are zeroed.      *)
(* d.log is the sequence of the files that the current call has already    *)
(* left behind, oldest first: what a process that dies in the middle of    *)
(* the call may leave.  d.fault says that a write went beyond the end of   *)
(* the file, where Load returns nullptr.  d.data[b] is what a caller wrote *)
(* into the byte b of the file, and stays on a page where a list is        *)
(* written later, until the page is cut off.                               *)
(***************************************************************************)
EXTENDS Integers, Sequences, SequencesExt, FiniteSetsExt, TLC

CONSTANTS PageBytes,   \* the bytes of a page, TMQ_PAGE_SIZE (4096)
          MetaPerPage, \* the MetaPage entries that fit in a page (341)
          SecPerPage   \* the SecAlloc entries that fit in a page (128)

ASSUME PersistenceAssumption ==
    /\ PageBytes \in Nat \ {0}
    /\ MetaPerPage \in Nat \ {0, 1, 2}
    /\ SecPerPage \in Nat \ {0, 1, 2}

ALLOC == "__ALLOC__"    \* the section that holds the table of pages
PAGE_NULL == -1

MetaSection(name) == [name |-> name, start |-> PAGE_NULL, count |-> 0]
MetaPage(start, count) == [start |-> start, count |-> count, occupied |-> TRUE]

----------------------------------------------------------------------------
(* The file.  Step records the file that an operation leaves.              *)
EmptyFile == [length |-> 0, sections |-> <<>>, list |-> <<>>, data |-> <<>>,
              fault |-> FALSE, log |-> <<>>]
Step(d, e) == [e EXCEPT !.log = Append(d.log, [e EXCEPT !.log = <<>>])]

(* FileSpace::Load maps a page only if it is in the file.                  *)
InFile(d, p) == p \in 0 .. d.length - 1

(* FileSpace::Fill: n pages of zeros, each an empty list.                  *)
Filled(n) == [i \in 1 .. n |-> <<>>]

(* FileSpace::Allocate(PAGE_UNFIXED, n): the new pages are filled with 0.  *)
Grow(d, n) ==
    Step(d, [d EXCEPT !.length = @ + n,
                      !.list = @ \o Filled(n)])

(* FileSpace::Deallocate: truncates the file to p pages.                   *)
Truncate(d, p) ==
    Step(d, [d EXCEPT !.length = p, !.list = SubSeq(@, 1, p),
                      !.data = [b \in {x \in DOMAIN @ : x < p * PageBytes} |-> @[b]]])

(* FileSpace::Write and Read of size bytes from the byte b on.             *)
BytesFrom(b, size) == b .. b + size - 1
WriteBytes(d, b, size, value) ==
    IF b + size > d.length * PageBytes THEN [d EXCEPT !.fault = TRUE]
    ELSE Step(d, [d EXCEPT !.data = [x \in BytesFrom(b, size) |-> value] @@ @])
ReadBytes(d, b, size) ==
    [x \in BytesFrom(b, size) |-> IF x \in DOMAIN d.data THEN d.data[x] ELSE <<"zero">>]

(* What LazyLinearList's constructor finds: a read beyond the end fails    *)
(* and leaves the size 0.                                                  *)
ListAt(d, p) == IF InFile(d, p) THEN d.list[p + 1] ELSE <<>>

(* A write of the list on page p.                                          *)
SetList(d, p, s) ==
    IF InFile(d, p) THEN Step(d, [d EXCEPT !.list[p + 1] = s])
                    ELSE [d EXCEPT !.fault = TRUE]

(* FileSpace::Copy and Zero, on the pages of lists.                        *)
Copy(d, to, from) == SetList(d, to, ListAt(d, from))
Zero(d, p) == SetList(d, p, <<>>)

(* A list on count pages: its header takes the place of an entry.          *)
Capacity(count, perPage) == count * perPage - 1

(* LazyLinearList::FindPosition: the binary search for the first place     *)
(* whose key is not before the one searched, 0 in an empty list.           *)
FindPosition(keys, k) ==
    LET n == Len(keys)
        search[a \in 1 .. n + 1, b \in 0 .. n, p \in 0 .. n + 1] ==
          LET m == ((a + b - 2) \div 2) + 1
          IN  CASE a > b        -> p
                [] keys[m] < k -> search[m + 1, b, m + 1]
                [] keys[m] > k -> search[a, m - 1, m]
                [] OTHER        -> m
    IN  search[1, n, 0]

----------------------------------------------------------------------------
(* The sections.                                                           *)
HasSection(d, n) == \E i \in DOMAIN d.sections : d.sections[i].name = n
IndexOfSection(d, n) == CHOOSE i \in DOMAIN d.sections :
                          /\ d.sections[i].name = n
                          /\ \A j \in 1 .. i - 1 : d.sections[j].name # n
Section(d, n) == d.sections[IndexOfSection(d, n)]
SetSection(d, s) == Step(d, [d EXCEPT !.sections[IndexOfSection(d, s.name)] = s])

(* The constructor of Persistence, on a new or an old file.                *)
OpenFile(d) ==
    IF d.sections # <<>> THEN d
    ELSE LET g == IF d.length = 0 THEN Grow(d, 1) ELSE d
         IN  Step(g, [g EXCEPT !.sections = <<MetaSection(ALLOC)>>])

Overflow(d, s, expand) ==
    /\ s.start >= 0 /\ s.count > 0 /\ expand # 0
    /\ Len(ListAt(d, s.start)) + expand >
         Capacity(s.count, IF s.name = ALLOC THEN MetaPerPage ELSE SecPerPage)

(* count * (1 + ALLOC_FACTOR) + 1                                          *)
Enlarged(count) == (6 * count) \div 5 + 1

----------------------------------------------------------------------------
(* The table of pages: sorted entries [start, count, occupied].            *)
PageStarts(t) == [i \in DOMAIN t |-> t[i].start]
PageTable(d) == ListAt(d, Section(d, ALLOC).start)
SetPageTable(d, t) == SetList(d, Section(d, ALLOC).start, t)

AddPage(d, e) ==
    LET t == PageTable(d)
        p == FindPosition(PageStarts(t), e.start)
    IN  IF Len(t) + 1 > Capacity(Section(d, ALLOC).count, MetaPerPage) THEN d
        ELSE SetPageTable(d, IF p = 0 THEN <<e>> ELSE InsertAt(t, p, e))

(* t[i .. j] are free and follow one another in the file, and no entry     *)
(* before them continues them.                                             *)
Adjoins(t, i) == /\ ~t[i].occupied /\ ~t[i + 1].occupied
                 /\ t[i].start + t[i].count = t[i + 1].start
(* Mutant: an entry that follows a free one counts as free.                *)
FreeRunFirst(t, i, j) == /\ ~t[i].occupied
                         /\ \A k \in i .. j - 1 : t[k].start + t[k].count = t[k + 1].start
                         /\ i = 1 \/ ~Adjoins(t, i - 1)
FreeRun(t, i, j) == /\ ~t[i].occupied
                    /\ \A k \in i .. j - 1 : Adjoins(t, k)
                    /\ i = 1 \/ ~Adjoins(t, i - 1)
PagesOf(t, i, j) == t[j].start + t[j].count - t[i].start

(* The first run that is long enough, up to the entry that makes it so.    *)
ReusePages(d, size) ==
    LET Enough(t) == {r \in (1 .. Len(t)) \X (1 .. Len(t)) :
                        /\ r[1] <= r[2] /\ FreeRun(t, r[1], r[2])
                        /\ PagesOf(t, r[1], r[2]) >= size}
        Take(t, i, j) ==
          [d |-> SetPageTable(d, SubSeq(t, 1, i - 1) \o SubSeq(t, j + 1, Len(t))),
           page |-> t[i].start, real |-> PagesOf(t, i, j)]
        First(t, runs, j) == Take(t, CHOOSE i \in 1 .. j : <<i, j>> \in runs, j)
        From(t, runs) == IF runs = {} THEN [d |-> d, page |-> PAGE_NULL, real |-> 0]
                         ELSE First(t, runs, Min({r[2] : r \in runs}))
        Reuse(t) == From(t, Enough(t))
    IN  Reuse(PageTable(d))

(* Mutant: the free entries at the end leave the table, their pages stay.  *)
DeallocPagesKeepsLength(d, page) ==
    LET t   == PageTable(d)
        pos == FindPosition(PageStarts(t), page)
        Kept == {i \in DOMAIN t \ {pos} : t[i].occupied}
    IN  IF \/ page <= 0 \/ Section(d, ALLOC).start <= 0
           \/ pos \notin DOMAIN t \/ t[pos].start # page
        THEN d
        ELSE SetPageTable(d, SubSeq([t EXCEPT ![pos].occupied = FALSE], 1, Max({0} \cup Kept)))

(* The free entries at the end of the file are cut off with their pages,   *)
(* the last one first.                                                     *)
CutTable(d, u, keep) ==
    LET cut[n \in keep .. Len(u)] ==
          IF n = Len(u) THEN d
          ELSE SetPageTable(Truncate(cut[n + 1], u[n + 1].start), SubSeq(u, 1, n))
    IN  cut[keep]
SetAndCut(d, u) ==
    CutTable(SetPageTable(d, u), u, Max({0} \cup {i \in DOMAIN u : u[i].occupied}))

(* The entry of the page becomes free.                                     *)
DeallocPages(d, page) ==
    LET t   == PageTable(d)
        pos == FindPosition(PageStarts(t), page)
    IN  IF \/ page <= 0 \/ Section(d, ALLOC).start <= 0
           \/ pos \notin DOMAIN t \/ t[pos].start # page
        THEN d
        ELSE SetAndCut(d, [t EXCEPT ![pos].occupied = FALSE])

MoveSection(d, s, page, count) ==
    SetSection(Copy(d, page, s.start),
               [s EXCEPT !.start = page, !.count = count])

(* Pages that were not found again are new.                                *)
NewUnlessReused(r, size) ==
    IF r.page # PAGE_NULL THEN r
    ELSE [d |-> Grow(r.d, size), page |-> r.d.length, real |-> size]

NotePage(r, e) == [r EXCEPT !.d = AddPage(@, e)]
NoteOwn(r) == NotePage(r, MetaPage(r.page, r.real))
NoteTable(r, e, old) == [NoteOwn(NotePage(r, e)) EXCEPT !.d = DeallocPages(@, old)]

(* A table without room for two more entries moves to n new pages, which   *)
(* it lists after the pages were taken; then its old ones become free.     *)
MoveTable(r, s, n, size) ==
    NoteTable(NewUnlessReused([r EXCEPT !.d = MoveSection(Grow(@, n), s, r.d.length, n)], size),
              MetaPage(r.d.length, n), s.start)

NotePages(r, s, size) ==
    IF s.start = PAGE_NULL \/ Overflow(r.d, s, 2)
    THEN MoveTable(r, s, Enlarged(s.count), size)
    ELSE NoteOwn(NewUnlessReused(r, size))
NoteInTable(r, size) == NotePages(r, Section(r.d, ALLOC), size)

AllocPages(d, size) == NoteInTable(ReusePages(d, size), size)

(* The count of the pages allocated with this one, -1 when it is no start. *)
GetAllocPageSize(d, page) ==
    LET t   == PageTable(d)
        pos == FindPosition(PageStarts(t), page)
    IN  IF pos \in DOMAIN t /\ t[pos].start = page THEN t[pos].count ELSE -1

----------------------------------------------------------------------------
(* The operations on a section: each gives the file and the section.       *)
SetZeroed(e, s) == [d |-> SetSection(Zero(e, s.start), s), s |-> s]
OnPages(s, a) == [s EXCEPT !.start = a.page, !.count = a.real]
SetOnPages(s, a) == SetZeroed(a.d, OnPages(s, a))
WithPages(d, s) == IF s.start >= 0 THEN [d |-> d, s |-> s] ELSE SetOnPages(s, AllocPages(d, 1))

FindSection(d, n, create) ==
    LET none  == MetaSection(n)
        found == IF HasSection(d, n) THEN d
                 ELSE Step(d, [d EXCEPT !.sections = Append(@, none)])
    IN  IF ~HasSection(d, n) /\ ~create THEN [d |-> d, s |-> none]
        ELSE WithPages(found, Section(found, n))

MovePages(d, s, t) ==
    [d |-> DeallocPages(SetSection(Copy(d, t.start, s.start), t), s.start), s |-> t]
MoveTo(s, a) == MovePages(a.d, s, OnPages(s, a))

ResizeSection(d, s, reserve) ==
    IF ~Overflow(d, s, reserve) THEN [d |-> d, s |-> s]
    ELSE MoveTo(s, AllocPages(d, Enlarged(s.count)))

(* Mutant: the old pages of the section stay occupied.                     *)
UpdateSectionKeepsPages(d, s) ==
    IF ~HasSection(d, s.name) THEN Step(d, [d EXCEPT !.sections = Append(@, s)])
    ELSE SetSection(d, s)

(* The old pages are released before the section leaves them.              *)
UpdateSection(d, s) ==
    IF ~HasSection(d, s.name) THEN Step(d, [d EXCEPT !.sections = Append(@, s)])
    ELSE SetSection(DeallocPages(d, Section(d, s.name).start), s)

(* Releases the pages of all the allocations of a section, the released    *)
(* ones included, and empties its list.                                    *)
FirstsOfPages(l) == {i \in DOMAIN l : i = 1 \/ l[i].address[1] # l[i - 1].address[1]}
EraseList(d, s, l, order) ==
    SetList(FoldLeft(LAMBDA e, i : DeallocPages(e, l[i].address[1]), d, order), s.start, <<>>)
EraseSection(d, n) ==
    LET s == Section(d, n)
        l == ListAt(d, s.start)
    IN  IF ~HasSection(d, n) \/ n = ALLOC THEN d
        ELSE EraseList(d, s, l, SetToSortSeq(FirstsOfPages(l), <))

(* Adds the entries of src to the list of dst, which is still read and     *)
(* written on the pages, and within the capacity, that dst had before      *)
(* ResizeSection, and empties src.                                         *)
AddTo(d, s, l) == FoldLeft(LAMBDA e, x : SetList(e, s.start, Append(ListAt(e, s.start), x)), d, l)
AppendList(d, dst, src, l) ==
    LET room == Capacity(dst.count, SecPerPage) - Len(ListAt(d, dst.start))
    IN  SetList(AddTo(ResizeSection(d, dst, Len(l)).d, dst,
                      SubSeq(l, 1, Min({Len(l), Max({0, room})}))),
                src.start, <<>>)
AppendSection(g, src) ==
    IF src.start <= 0 \/ g.s.start <= 0 THEN g.d
    ELSE AppendList(g.d, g.s, src, ListAt(g.d, src.start))
AppendTo(f, dst) == AppendSection(FindSection(f.d, dst, FALSE), f.s)
AppendLinearSpace(d, dst, src) == AppendTo(FindSection(d, src, FALSE), dst)
=============================================================================
