---------------------------- MODULE PhysMemHoles ----------------------------
(***************************************************************************)
(* The hole-list physical-page allocator of                               *)
(* src/pagetables-base-2024/os/physmemmanager.cc (class PhysMemManager).  *)
(*                                                                         *)
(* holes is the std::list<Hole> in list order; a Hole is a record of its   *)
(* startPage and count.  allocatePages finds the first hole in LIST order  *)
(* that is large enough (findFit), takes the low end of it and has         *)
(* splitHole erase the hole and append the remainder at the tail of the    *)
(* list, so the list is not sorted between releases.  releasePages appends *)
(* the released range and mergeHoles sorts the whole list by startPage and *)
(* coalesces neighbours.                                                   *)
(*                                                                         *)
(* Addresses are abstracted to page indices: the code returns              *)
(* baseAddress + startPage * pageSize and releasePages divides it back, a  *)
(* bijection on page-aligned addresses inside the region.  The mmap of the *)
(* backing region and the 2 GiB circuit breaker of the constructor are     *)
(* I/O and configuration checks and are left out.                          *)
(*                                                                         *)
(* allocs and result belong to the caller: the allocations it holds (it    *)
(* only releases one of them, whole, as the tests and the kernel do) and   *)
(* what the last allocatePages call returned.                              *)
(***************************************************************************)
EXTENDS Naturals, Sequences, SequencesExt

CONSTANTS
    NPages,   \* nPages = memorySize / pageSize
    Counts    \* page counts the caller passes to allocatePages

ASSUME NPages \in Nat \ {0}
ASSUME Counts \subseteq Nat

VARIABLES
    holes,              \* std::list<Hole> holes, in list order
    nAllocatedPages,
    maxAllocatedPages,
    allocs,             \* caller: outstanding allocations
    result              \* caller: what the last allocatePages returned

vars == <<holes, nAllocatedPages, maxAllocatedPages, allocs, result>>

Pages == 0 .. NPages - 1

Run(s, c) == s .. s + c - 1

MkHole(s, c) == [startPage |-> s, count |-> c]

NoCall == [ok |-> FALSE, start |-> 0, count |-> 0]

Failed(count) == [ok |-> FALSE, start |-> 0, count |-> count]

-----------------------------------------------------------------------------
(* Helpers of the class.                                                   *)

\* Seeded fault for findFit: a hole must be strictly larger than the request.
FindFitStrict(count) == SelectInSeq(holes, LAMBDA h : h.count > count)

\* findFit: index of the first hole in list order with count >= count;
\* 0 stands for holes.end().
FindFit(count) == SelectInSeq(holes, LAMBDA h : h.count >= count)

\* Seeded fault for splitHole: the upper remainder is measured from
\* startPage instead of endPage.
SplitHoleFromStart(hs, i, startPage, count) ==
    LET h == hs[i]  originalEndPage == h.startPage + h.count IN
    IF startPage + count < originalEndPage
    THEN RemoveAt(hs, i) \o << MkHole(startPage + count, originalEndPage - startPage) >>
    ELSE RemoveAt(hs, i)

\* splitHole: erase hole i, then append what is left of it below and above
\* the allocated range [startPage, startPage + count).
SplitHole(hs, i, startPage, count) ==
    LET h               == hs[i]
        endPage         == startPage + count
        originalEndPage == h.startPage + h.count
        below == IF startPage > h.startPage
                 THEN << MkHole(h.startPage, startPage - h.startPage) >>
                 ELSE << >>
        above == IF endPage < originalEndPage
                 THEN << MkHole(endPage, originalEndPage - endPage) >>
                 ELSE << >>
    IN  RemoveAt(hs, i) \o below \o above

\* addHole: emplace_back.
AddHole(hs, startPage, count) == Append(hs, MkHole(startPage, count))

\* std::list::sort by startPage, which is stable: insertion sort that puts
\* an element before the first one whose startPage is not smaller.
RECURSIVE InsertByStart(_, _)
InsertByStart(h, s) ==
    IF s = << >> \/ h.startPage <= s[1].startPage
    THEN << h >> \o s
    ELSE << s[1] >> \o InsertByStart(h, Tail(s))

RECURSIVE SortByStart(_)
SortByStart(s) ==
    IF s = << >> THEN s ELSE InsertByStart(s[1], SortByStart(Tail(s)))

\* The merge loop of mergeHoles: after a merge the iterator stays on the
\* grown hole and compares it with its new successor.
RECURSIVE MergeAdjacent(_)
MergeAdjacent(s) ==
    IF Len(s) < 2 THEN s
    ELSE IF s[1].startPage + s[1].count = s[2].startPage
         THEN MergeAdjacent(<< MkHole(s[1].startPage, s[1].count + s[2].count) >>
                            \o Tail(Tail(s)))
         ELSE << s[1] >> \o MergeAdjacent(Tail(s))

\* Seeded fault for mergeHoles: coalescing without sorting first.
MergeHolesUnsorted(hs) == MergeAdjacent(hs)

\* mergeHoles: sort by startPage, then coalesce neighbours.
MergeHoles(hs) == MergeAdjacent(SortByStart(hs))

\* allReleased()
AllReleased == nAllocatedPages = 0

-----------------------------------------------------------------------------
(* The constructor and the two operations.                                 *)

Init ==
    /\ holes = << MkHole(0, NPages) >>
    /\ nAllocatedPages = 0
    /\ maxAllocatedPages = 0
    /\ allocs = {}
    /\ result = NoCall

AllocatePages(count) ==
    \/ /\ nAllocatedPages + count > NPages
       /\ result' = Failed(count)
       /\ UNCHANGED <<holes, nAllocatedPages, maxAllocatedPages, allocs>>
    \/ /\ nAllocatedPages + count <= NPages
       /\ FindFit(count) = 0
       /\ result' = Failed(count)
       /\ UNCHANGED <<holes, nAllocatedPages, maxAllocatedPages, allocs>>
    \/ /\ nAllocatedPages + count <= NPages
       /\ FindFit(count) # 0
       /\ LET i         == FindFit(count)
              startPage == holes[i].startPage
              n         == nAllocatedPages + count
          IN  /\ holes' = SplitHole(holes, i, startPage, count)
              /\ nAllocatedPages' = n
              /\ maxAllocatedPages' = IF n > maxAllocatedPages
                                      THEN n ELSE maxAllocatedPages
              /\ allocs' = allocs \cup {[start |-> startPage, count |-> count]}
              /\ result' = [ok |-> TRUE, start |-> startPage, count |-> count]

ReleasePages(a) ==
    /\ a \in allocs
    /\ holes' = MergeHoles(AddHole(holes, a.start, a.count))
    /\ nAllocatedPages' = nAllocatedPages - a.count
    /\ allocs' = allocs \ {a}
    /\ UNCHANGED <<maxAllocatedPages, result>>

Next ==
    \/ \E c \in Counts : AllocatePages(c)
    \/ \E a \in allocs : ReleasePages(a)

Spec == Init /\ [][Next]_vars

-----------------------------------------------------------------------------
(* Properties.                                                             *)

HoleSet == {holes[i] : i \in DOMAIN holes}

FreePages == UNION {Run(h.startPage, h.count) : h \in HoleSet}

TypeOK ==
    /\ holes \in Seq([startPage : 0 .. NPages, count : 0 .. NPages])
    /\ nAllocatedPages \in 0 .. NPages
    /\ maxAllocatedPages \in 0 .. NPages
    /\ allocs \subseteq [start : Pages, count : Counts]
    /\ result \in [ok : BOOLEAN, start : 0 .. NPages, count : Counts \cup {0}]

\* The hole list is a faithful account of the free space after any sequence
\* of allocatePages/releasePages: every hole is non-empty, no two holes
\* overlap or touch (so mergeHoles missed nothing and splitHole kept the
\* remainder apart from its neighbours), and the holes plus nAllocatedPages
\* add up to nPages.
HolesConsistent ==
    /\ \A i \in DOMAIN holes : holes[i].count > 0
    /\ \A i, j \in DOMAIN holes : i # j =>
          LET a == holes[i]  b == holes[j] IN
          /\ Run(a.startPage, a.count) \cap Run(b.startPage, b.count) = {}
          /\ a.startPage + a.count # b.startPage
    /\ nAllocatedPages + FoldLeft(LAMBDA acc, h : acc + h.count, 0, holes)
         = NPages

\* The hole list implements the abstract allocator: with free space being
\* the union of the holes, allocatePages fails only when no run of count
\* free pages exists (no false out-of-memory from fragmentation of the
\* list), and it only ever hands out free pages.
Abs == INSTANCE PhysMemAbstract WITH free <- FreePages

AbsSpec == Abs!Spec

\* First fit by address (spec 4.A and scenario S5): a successful
\* allocatePages returns the lowest-addressed run of free pages that fits.
LowestFit(c) == Min({s \in Pages : Run(s, c) \subseteq FreePages})

AllocatesLowestFit ==
    [][nAllocatedPages' > nAllocatedPages =>
         result'.start = LowestFit(result'.count)]_vars

=============================================================================
