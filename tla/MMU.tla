-------------------------------- MODULE MMU --------------------------------
(***************************************************************************)
(* The MMU façade (class MMU, hw/mmu.cc) composed with the TLB it owns and *)
(* the page table it walks.                                                *)
(*                                                                         *)
(* processMemAccess rejects a null root, then loops: getTranslation, and   *)
(* on failure the kernel's page-fault handler, until a translation         *)
(* succeeds.  getTranslation masks the address, takes its page, asks the   *)
(* TLB when one is set (a hit returns at once), and otherwise walks the    *)
(* table (performTranslation) and on success adds the result to the TLB.  *)
(* With UseTLB = FALSE this is the getTranslation of src/hw/mmu.cc (2017), *)
(* which only walks; with UseTLB = TRUE it is the one of the 2024         *)
(* framework (src/unnamed/part_004).                                        *)
(*                                                                         *)
(* The TLB is the TLB module itself (T below, same variables).  The page  *)
(* table is PageTableAbstract, which the PageTable module (driver plus     *)
(* walker) is checked to refine, so the walk is PT!PerformTranslation.    *)
(*                                                                         *)
(* Everything runs on one thread: the trace driver calls processMemAccess  *)
(* for one access at a time, and the fault handler runs inside it.  So    *)
(* the kernel's own calls (creating a process's table, switching process) *)
(* happen only between accesses, pc = "idle".  The kernel and its handler *)
(* are outside src/ and modelled from the spec:                            *)
(*  - a context switch is setPageTablePointer and setCurrentASID with the  *)
(*    pid as ASID, followed by flushTLB when KernelFlushes (spec 4.D:      *)
(*    flush is called on whole-context switches);                           *)
(*  - the handler maps the faulting page in the running process to a free *)
(*    physical page, or, with none free, takes one from its current leaf   *)
(*    (setPageValid(FALSE) through its handle) and maps it, calling        *)
(*    flushTLB afterwards when KernelFlushes.                               *)
(*                                                                         *)
(* The trace is finite: MaxTrace accesses and switches.  pAddr is the      *)
(* translated address of the access in progress.                           *)
(***************************************************************************)
EXTENDS Naturals

CONSTANTS
    PIDs,            \* process ids, also used as their ASIDs
    PPages,          \* physical page numbers
    PageBits,        \* getPageBits()
    AddressSpaceBits,\* getAddressSpaceBits()
    Addrs,           \* the byte addresses the trace uses (may carry high bits)
    AccessTypes,     \* the MemAccessType values the trace uses
    NEntries,        \* the TLB's nEntries
    UseTLB,          \* setTLB has been called (tlb is not null)
    KernelFlushes,   \* the kernel calls flushTLB on a switch and an eviction
    MaxTrace,        \* the length of the trace
    NoRoot,          \* root == 0x0
    NoAccess, NoPage, Unmapped, NoHandle

ASSUME PageBits \in Nat \ {0} /\ AddressSpaceBits > PageBits
ASSUME AccessTypes \subseteq {"Load", "Store", "Modify", "Execute"}
ASSUME MaxTrace \in Nat

VARIABLES
    tlbEntries, lruOrder, tlbInitialized, currentASID,
    nLookups, nHits, nEvictions, nFlush, nFlushEvictions, out,
    tables, map, handle, walkOut,
    root, pc, access, pAddr, traceLeft

tlbVars == <<tlbEntries, lruOrder, tlbInitialized, currentASID,
             nLookups, nHits, nEvictions, nFlush, nFlushEvictions, out>>
ptVars  == <<tables, map, handle, walkOut>>
mmuVars == <<root, pc, access, pAddr, traceLeft>>
vars    == <<tlbVars, ptVars, mmuVars>>

PageSize == 2 ^ PageBits

VPages == 0 .. 2 ^ (AddressSpaceBits - PageBits) - 1

\* Two lookups per access (the first misses, the retry after the fault
\* handler hits or walks) and one flush per trace step bound the TLB's
\* statistics, so its counter caps never block.
T  == INSTANCE TLB WITH ASIDs <- PIDs, ASID0 <- CHOOSE a \in PIDs : TRUE,
                        VPage0 <- 0,
                        PPage0 <- 0, AddAfterMiss <- TRUE,
                        MaxStat <- 2 * MaxTrace
PT == INSTANCE PageTableAbstract

\* getTranslation: vAddr = addr & ((1 << addressSpaceBits) - 1);
\* vPage = vAddr >> pageBits.
VPageOf(addr) == (addr % 2 ^ AddressSpaceBits) \div PageSize

\* Seeded fault for isWrite: a Modify is taken for a read.
IsWriteStoreOnly(type) == type = "Store"

\* isWrite = Store || Modify.
IsWrite(type) == type \in {"Store", "Modify"}

\* Seeded fault for makePhysicalAddr: the page offset is not or-ed in.
MakePhysicalAddrNoOffset(addr, pPage) == pPage * PageSize

\* makePhysicalAddr: (pPage << pageBits) | (addr & (pageSize - 1)).
MakePhysicalAddr(addr, pPage) == pPage * PageSize + (addr % PageSize)

\* The first step of getTranslation: the TLB check when a TLB is set.
Translating == IF UseTLB THEN "lookup" ELSE "walk"

\* Seeded fault for flushTLB: the flush is counted, the lines are kept.
FlushTLBEffectCountOnly ==
    /\ nFlush' = nFlush + 1
    /\ UNCHANGED <<tlbEntries, lruOrder, tlbInitialized, nLookups, nHits,
                   nEvictions, nFlushEvictions, out>>

\* flushTLB: tlb->flush() when a TLB is set.
FlushTLBEffect ==
    IF UseTLB
    THEN /\ nFlush' = nFlush + 1
         /\ T!FlushEffect
         /\ UNCHANGED <<tlbInitialized, nLookups, nHits, nEvictions, out>>
    ELSE UNCHANGED <<tlbEntries, lruOrder, tlbInitialized, nLookups, nHits,
                     nEvictions, nFlush, nFlushEvictions, out>>

\* MMU::MMU: root(0x0), tlb(nullptr), currentASID(0); the TLB and the
\* driver start empty.
Init ==
    /\ T!Init
    /\ PT!Init
    /\ root = NoRoot
    /\ pc = "idle"
    /\ access = NoAccess
    /\ pAddr = 0
    /\ traceLeft = MaxTrace

-----------------------------------------------------------------------------
(* The kernel, between accesses.                                           *)

\* Process creation: the driver's allocatePageTable.
CreateProcess(pid) ==
    /\ pc = "idle"
    /\ PT!AllocatePageTable(pid)
    /\ UNCHANGED <<tlbVars, mmuVars>>

\* A context switch: setPageTablePointer(root of pid), setCurrentASID(pid),
\* then flushTLB when the kernel flushes on switches.
ContextSwitch(pid) ==
    /\ pc = "idle"
    /\ traceLeft > 0
    /\ pid \in tables
    /\ root' = pid
    /\ currentASID' = pid
    /\ IF KernelFlushes
       THEN FlushTLBEffect
       ELSE UNCHANGED <<tlbEntries, lruOrder, tlbInitialized, nLookups, nHits,
                        nEvictions, nFlush, nFlushEvictions, out>>
    /\ traceLeft' = traceLeft - 1
    /\ UNCHANGED <<ptVars, pc, access, pAddr>>

-----------------------------------------------------------------------------
(* processMemAccess and getTranslation.                                    *)

\* Seeded fault for processMemAccess: the null-root check is missing.
ProcessMemAccessNoRootCheck(a, type) ==
    /\ pc = "idle"
    /\ traceLeft > 0
    /\ traceLeft' = traceLeft - 1
    /\ access' = [addr |-> a, type |-> type]
    /\ pAddr' = 0
    /\ pc' = Translating
    /\ UNCHANGED <<tlbVars, ptVars, root>>

\* processMemAccess: a null root is fatal (runtime_error ends the run);
\* otherwise pAddr = 0 and the loop starts with getTranslation.
ProcessMemAccess(a, type) ==
    /\ pc = "idle"
    /\ traceLeft > 0
    /\ traceLeft' = traceLeft - 1
    /\ access' = [addr |-> a, type |-> type]
    /\ pAddr' = 0
    /\ pc' = IF root = NoRoot THEN "aborted" ELSE Translating
    /\ UNCHANGED <<tlbVars, ptVars, root>>

\* getTranslation, TLB check: tlb->lookup(vPage, pPage); a hit completes
\* the access with the cached page, a miss goes on to the walk.
TLBCheck ==
    /\ pc = "lookup"
    /\ T!Lookup(VPageOf(access.addr))
    /\ IF out'.hit
       THEN /\ pAddr' = MakePhysicalAddr(access.addr, out'.pPage)
            /\ pc' = "idle"
       ELSE /\ pc' = "walk"
            /\ UNCHANGED pAddr
    /\ UNCHANGED <<ptVars, root, access, traceLeft>>

\* getTranslation, slow path: performTranslation(vPage, pPage, isWrite);
\* on success tlb->add(vPage, pPage) and the access completes, on failure
\* getTranslation returns false and processMemAccess calls the handler.
Walk ==
    /\ pc = "walk"
    /\ PT!PerformTranslation(root, VPageOf(access.addr), IsWrite(access.type))
    /\ IF walkOut'.ok
       THEN /\ IF UseTLB
               THEN T!Add(VPageOf(access.addr), walkOut'.page)
               ELSE UNCHANGED tlbVars
            /\ pAddr' = MakePhysicalAddr(access.addr, walkOut'.page)
            /\ pc' = "idle"
       ELSE /\ pc' = "fault"
            /\ UNCHANGED <<tlbVars, pAddr>>
    /\ UNCHANGED <<root, access, traceLeft>>

\* The leaf a handle points at, unmapped by setPageValid(page, false).
Evicted(m, h) == IF h = NoHandle THEN m ELSE [m EXCEPT ![h.pid][h.vPage] = Unmapped]

\* The kernel's page-fault handler for access.addr: map the page to a free
\* physical page, or evict one (setPageValid(FALSE) on its leaf) and map it,
\* then retry getTranslation.
PageFaultHandler ==
    /\ pc = "fault"
    /\ LET v    == VPageOf(access.addr)
           free == {p \in PPages : handle[p] = NoHandle}
       IN \E p \in IF free # {} THEN free ELSE PPages :
          /\ map' = [Evicted(map, handle[p]) EXCEPT
                       ![root][v] = [page |-> p, referenced |-> FALSE, dirty |-> FALSE]]
          /\ handle' = [handle EXCEPT ![p] = [pid |-> root, vPage |-> v]]
          /\ IF KernelFlushes /\ handle[p] # NoHandle
             THEN FlushTLBEffect
             ELSE UNCHANGED tlbVars
    /\ pc' = Translating
    /\ UNCHANGED <<currentASID, tables, walkOut, root, access, pAddr, traceLeft>>

Next ==
    \/ \E pid \in PIDs : CreateProcess(pid) \/ ContextSwitch(pid)
    \/ \E a \in Addrs, type \in AccessTypes : ProcessMemAccess(a, type)
    \/ TLBCheck
    \/ Walk
    \/ PageFaultHandler

\* The loop of processMemAccess runs on the simulator's only thread, with
\* nothing else able to run until it returns: each of its steps is taken
\* once enabled.  The kernel's calls and the trace get no fairness.
Spec == Init /\ [][Next]_vars /\ WF_vars(TLBCheck \/ Walk \/ PageFaultHandler)

-----------------------------------------------------------------------------
(* Properties.                                                             *)

\* A step that finishes getTranslation with success: a TLB hit or a walk.
Completes == pc \in {"lookup", "walk"} /\ pc' = "idle"

\* Every access processMemAccess completes is translated through the table
\* of the running process as it stands (spec 4.E, 8.6): the page is mapped
\* there, and pAddr is that page joined with the access's offset.  A TLB
\* hit that returns a page the table no longer maps, after an eviction or
\* a switch, breaks it.
TranslationMatchesTable ==
    [][Completes =>
         LET v == VPageOf(access.addr) IN
         /\ map[root][v] # Unmapped
         /\ pAddr' \div PageSize = map[root][v].page
         /\ pAddr' % PageSize = access.addr % PageSize]_vars

\* Every completed access leaves the leaf it went through referenced, and
\* dirty when it is a Store or a Modify (spec 4.C, 8.5): the page-out
\* policy relies on these bits, and getTranslation's TLB hit returns
\* before the walker could set them.
LeafStamped ==
    [][Completes =>
         LET leaf == map'[root][VPageOf(access.addr)] IN
         /\ leaf # Unmapped
         /\ leaf.referenced
         /\ access.type \in {"Store", "Modify"} => leaf.dirty]_vars

\* The loop of processMemAccess ends: once an access has started on a
\* non-null root, getTranslation eventually succeeds (spec 5: termination
\* under the handler's contract).
AccessCompletes == pc \in {"lookup", "walk", "fault"} ~> pc = "idle"

=============================================================================
