--------------------------- MODULE OSKernelSketch ---------------------------
(***************************************************************************)
(* The kernel sketch of src/unnamed/part_000 (os_kernel.h) and             *)
(* src/hw/mmu.cc (OSKernel::allocatePage, OSKernel::terminateProcess),     *)
(* which owns the sorted-list allocator of PhysMemSketch.                  *)
(*                                                                         *)
(* processPages maps each process to the vector of pages it was given, in  *)
(* the order it got them.  An unordered_map entry that is absent and one   *)
(* that holds an empty vector behave the same in both methods, and both    *)
(* are << >> here.  allocatePage(processID, virtualAddress) ignores the    *)
(* virtual address (the mapping is "not shown"), so it is left out.        *)
(*                                                                         *)
(* allocate(1) throws bad_alloc when no hole is left; allocatePage does    *)
(* not catch it, and its caller is not in the repository.  thrown records  *)
(* that the last call ended with bad_alloc, the state unchanged; the       *)
(* caller may go on.                                                       *)
(***************************************************************************)
EXTENDS PhysMemSketch

CONSTANT PIDs

VARIABLES
    processPages,  \* std::unordered_map<uint64_t, std::vector<uint64_t>>
    thrown         \* the last call threw std::bad_alloc

vars == <<holes, processPages, thrown>>

\* The pages processes hold.
HeldPages == UNION {{processPages[p][k] : k \in DOMAIN processPages[p]} : p \in PIDs}

\* terminateProcess's loop: release(address, 1) for each page in vector
\* order; the set of hole lists the loop can end with.
RECURSIVE ReleaseAll(_, _)
ReleaseAll(hs, addrs) ==
    IF addrs = << >> THEN {hs}
    ELSE UNION {ReleaseAll(h, Tail(addrs)) : h \in Released(hs, Head(addrs), 1)}

KernelInit ==
    /\ Init
    /\ processPages = [p \in PIDs |-> << >>]
    /\ thrown = FALSE

\* allocatePage: allocate one page and push it on the process's vector; a
\* bad_alloc from allocate leaves everything as it was.
AllocatePage(pid) ==
    LET i == FirstFit(holes, 1) IN
    \/ /\ i # 0
       /\ holes' = TakeFrom(holes, i, 1)
       /\ processPages' = [processPages EXCEPT ![pid] = Append(@, holes[i].start)]
       /\ thrown' = FALSE
    \/ /\ i = 0
       /\ thrown' = TRUE
       /\ UNCHANGED <<holes, processPages>>

\* terminateProcess: release every page of the process, one at a time,
\* then erase its entry.
TerminateProcess(pid) ==
    /\ holes' \in ReleaseAll(holes, processPages[pid])
    /\ processPages' = [processPages EXCEPT ![pid] = << >>]
    /\ thrown' = FALSE

Next == \E p \in PIDs : AllocatePage(p) \/ TerminateProcess(p)

Spec == KernelInit /\ [][Next]_vars

-----------------------------------------------------------------------------
(* Properties.                                                             *)

\* allocatePage fails with bad_alloc only when every page of memory is held
\* by some process (spec 4.A: allocation fails only when no free run fits;
\* every page a terminated process gave back can be allocated again).
OOMOnlyWhenFull == thrown => HeldPages = Pages

=============================================================================
