---------------------------- MODULE PhysMemSketch ----------------------------
(***************************************************************************)
(* The sorted-list physical allocator of src/phys_mem_manager.h and       *)
(* src/unnamed/part_002 (class PhysMemManager, struct MemoryHole).        *)
(*                                                                         *)
(* holes is the std::list<MemoryHole> in list order.  allocate(size) takes *)
(* the first hole in list order with size >= size, shrinks it in place     *)
(* from its low end or erases it when it is used up, and throws bad_alloc  *)
(* when no hole fits.  release(address, size) inserts {address, size}      *)
(* before the first hole that starts above address, then tries two merges: *)
(*  - with prev, which is always the hole just inserted (it is never at    *)
(*    begin() after the insert), so the test prev.start + prev.size ==     *)
(*    address holds only for size 0.  No caller releases 0 pages, and this *)
(*    merge never happens: a released range never joins its predecessor;   *)
(*  - of it, the hole that was found by the search (the successor of the   *)
(*    inserted one), with the hole after it.  The inserted hole never      *)
(*    joins its successor either.                                          *)
(* When no hole starts above address, it is end() and std::next(end()) is  *)
(* undefined.  With libstdc++ the list is circular, next is begin(), and   *)
(* the test reads it->start and it->size from the list's header: the merge *)
(* either does not happen or erases the first hole.  Both are outcomes.    *)
(*                                                                         *)
(* The 1 TB hole of the constructor is NPages pages; addresses are page    *)
(* numbers.  The allocator runs only when its owner calls it, so the       *)
(* operations are operators on the list, and the owner's module            *)
(* (OSKernelSketch) makes them steps.                                      *)
(***************************************************************************)
EXTENDS Naturals, Sequences, SequencesExt

CONSTANT NPages   \* the size of the constructor's single hole

ASSUME NPages \in Nat \ {0}

VARIABLE holes    \* std::list<MemoryHole> holes, in list order

Pages == 0 .. NPages - 1

\* struct MemoryHole { start; size; }
MemoryHole(s, c) == [start |-> s, size |-> c]

\* PhysMemManager(): holes.push_back({0, 1 << 40}).
Init == holes = << MemoryHole(0, NPages) >>

\* The loop of allocate: the first hole in list order with size >= size;
\* 0 when it reaches holes.end().
FirstFit(hs, size) == SelectInSeq(hs, LAMBDA h : h.size >= size)

\* allocate's update of hole i: shrink it in place from its low end when it
\* is larger than size, erase it when it is used up.
TakeFrom(hs, i, size) ==
    IF hs[i].size > size
    THEN [hs EXCEPT ![i] = MemoryHole(@.start + size, @.size - size)]
    ELSE RemoveAt(hs, i)

\* The search of release: the position of the first hole with start >
\* address, Len(hs) + 1 for end().
InsertPos(hs, address) ==
    LET j == SelectInSeq(hs, LAMBDA h : h.start > address) IN
    IF j = 0 THEN Len(hs) + 1 ELSE j

\* release(address, size): the lists it can leave.  The range is inserted
\* before it; then it is merged with std::next(it) when they touch.  With
\* it = end(), std::next(it) is begin() and the test reads the list header:
\* either no merge, or begin() is erased.
Released(hs, address, size) ==
    LET k   == InsertPos(hs, address)
        ins == InsertAt(hs, k, MemoryHole(address, size))
        it  == k + 1
    IN  IF it > Len(ins) THEN {ins, Tail(ins)}
        ELSE IF it + 1 <= Len(ins) /\ ins[it].start + ins[it].size = ins[it + 1].start
        THEN {RemoveAt([ins EXCEPT ![it].size = @ + ins[it + 1].size], it + 1)}
        ELSE {ins}

\* The pages the holes cover.
HolePages == UNION {holes[i].start .. holes[i].start + holes[i].size - 1 : i \in DOMAIN holes}

=============================================================================
