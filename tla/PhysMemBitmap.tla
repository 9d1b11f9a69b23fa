---------------------------- MODULE PhysMemBitmap ----------------------------
(***************************************************************************)
(* The bitmap physical-page allocator of src/os/physmemmanager.cc (the    *)
(* earlier PhysMemManager, std::vector<bool> allocated).  allocatePages    *)
(* scans the bitmap from page 0 for a run of count free pages and takes    *)
(* the first one; releasePages clears the bits of the released range.      *)
(*                                                                         *)
(* As in PhysMemHoles, addresses are page indices, and allocs / result are *)
(* the caller's outstanding allocations and the last call's return value.  *)
(***************************************************************************)
EXTENDS Naturals, FiniteSets, FiniteSetsExt

CONSTANTS
    NPages,   \* nPages = memorySize / pageSize
    Counts    \* page counts the caller passes to allocatePages

ASSUME NPages \in Nat \ {0}
ASSUME Counts \subseteq Nat \ {0}

VARIABLES
    allocated,          \* std::vector<bool> allocated
    nAllocatedPages,
    maxAllocatedPages,
    allocs,             \* caller: outstanding allocations
    result              \* caller: what the last allocatePages returned

vars == <<allocated, nAllocatedPages, maxAllocatedPages, allocs, result>>

Pages == 0 .. NPages - 1

Run(s, c) == s .. s + c - 1

NoCall == [ok |-> FALSE, start |-> 0, count |-> 0]

Failed(count) == [ok |-> FALSE, start |-> 0, count |-> count]

NoFit == -1   \* the scan left the while loop: "return false"

-----------------------------------------------------------------------------
(* The scan of allocatePages.                                              *)

LesserOf(a, b) == IF a < b THEN a ELSE b

\* Seeded fault for the inner loop: it stops one page short of nPages.
RunEndShort(start, count) ==
    LET bound == LesserOf(start + count, NPages - 1)
        busy  == {j \in start .. bound - 1 : allocated[j]}
    IN  IF busy = {} THEN bound ELSE Min(busy)

\* The inner for loop: from a free page start, index advances while
\* index < start + count and index < nPages and the page is free; its value
\* on leaving is the first allocated page, or the bound it reached.
RunEnd(start, count) ==
    LET bound == LesserOf(start + count, NPages)
        busy  == {j \in start .. bound - 1 : allocated[j]}
    IN  IF busy = {} THEN bound ELSE Min(busy)

\* The outer while loop from index: a free page starts a run test; a run
\* that reached start + count succeeds; otherwise index moves one past the
\* page where the test stopped.
RECURSIVE ScanFrom(_, _)
ScanFrom(index, count) ==
    IF index >= NPages THEN NoFit
    ELSE IF allocated[index]
         THEN ScanFrom(index + 1, count)
         ELSE LET stop == RunEnd(index, count) IN
              IF stop = index + count THEN index
              ELSE ScanFrom(stop + 1, count)

-----------------------------------------------------------------------------

Init ==
    /\ allocated = [p \in Pages |-> FALSE]
    /\ nAllocatedPages = 0
    /\ maxAllocatedPages = 0
    /\ allocs = {}
    /\ result = NoCall

AllocatePages(count) ==
    \/ /\ nAllocatedPages + count > NPages
       /\ result' = Failed(count)
       /\ UNCHANGED <<allocated, nAllocatedPages, maxAllocatedPages, allocs>>
    \/ /\ nAllocatedPages + count <= NPages
       /\ ScanFrom(0, count) = NoFit
       /\ result' = Failed(count)
       /\ UNCHANGED <<allocated, nAllocatedPages, maxAllocatedPages, allocs>>
    \/ /\ nAllocatedPages + count <= NPages
       /\ ScanFrom(0, count) # NoFit
       /\ LET start == ScanFrom(0, count)
              n     == nAllocatedPages + count
          IN  /\ allocated' = [p \in Pages |->
                                  IF p \in Run(start, count) THEN TRUE
                                  ELSE allocated[p]]
              /\ nAllocatedPages' = n
              /\ maxAllocatedPages' = IF n > maxAllocatedPages
                                      THEN n ELSE maxAllocatedPages
              /\ allocs' = allocs \cup {[start |-> start, count |-> count]}
              /\ result' = [ok |-> TRUE, start |-> start, count |-> count]

\* Seeded fault for releasePages: the loop clears one page too few.
ReleasePagesShort(a) ==
    /\ a \in allocs
    /\ allocated' = [p \in Pages |->
                        IF p \in Run(a.start, a.count - 1) THEN FALSE
                        ELSE allocated[p]]
    /\ nAllocatedPages' = nAllocatedPages - a.count
    /\ allocs' = allocs \ {a}
    /\ UNCHANGED <<maxAllocatedPages, result>>

\* Seeded fault: the released allocation stays with the caller, who can
\* release it again (nAllocatedPages -= count runs twice).
ReleasePagesTwice(a) ==
    /\ a \in allocs
    /\ allocated' = [p \in Pages |->
                        IF p \in Run(a.start, a.count) THEN FALSE
                        ELSE allocated[p]]
    /\ nAllocatedPages' = nAllocatedPages - a.count
    /\ UNCHANGED <<maxAllocatedPages, result, allocs>>

ReleasePages(a) ==
    /\ a \in allocs
    /\ allocated' = [p \in Pages |->
                        IF p \in Run(a.start, a.count) THEN FALSE
                        ELSE allocated[p]]
    /\ nAllocatedPages' = nAllocatedPages - a.count
    /\ allocs' = allocs \ {a}
    /\ UNCHANGED <<maxAllocatedPages, result>>

Next ==
    \/ \E c \in Counts : AllocatePages(c)
    \/ \E a \in allocs : ReleasePages(a)

Spec == Init /\ [][Next]_vars

-----------------------------------------------------------------------------
(* Properties.                                                             *)

FreePages == {p \in Pages : ~allocated[p]}

TypeOK ==
    /\ allocated \in [Pages -> BOOLEAN]
    /\ nAllocatedPages \in 0 .. NPages
    /\ maxAllocatedPages \in 0 .. NPages
    /\ allocs \subseteq [start : Pages, count : Counts]
    /\ result \in [ok : BOOLEAN, start : 0 .. NPages, count : Counts \cup {0}]

\* The reference definition of first fit: the lowest page that starts a run
\* of count free pages, or NoFit.
LowestFit(c) ==
    LET fits == {s \in Pages : Run(s, c) \subseteq FreePages}
    IN  IF fits = {} THEN NoFit ELSE Min(fits)

\* The skip-ahead scan of allocatePages (which restarts one past the page
\* that broke a run, not at the next page of the run) finds exactly the
\* lowest fitting run, for every request size, in every reachable bitmap.
ScanIsFirstFit == \A c \in Counts : ScanFrom(0, c) = LowestFit(c)

\* The bitmap allocator implements the abstract allocator, with the free
\* pages being the clear bits.
Abs == INSTANCE PhysMemAbstract WITH free <- FreePages

AbsSpec == Abs!Spec

=============================================================================
