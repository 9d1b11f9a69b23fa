# TLA+ models of the OS2 memory-management framework

This directory holds TLA+ models of the C++ memory-management framework under
`src/`, and the TLC configurations that check them. The framework is a
user-space simulator of an operating system's memory management, and it has
these parts:

- a **physical page allocator** (`PhysMemManager`). The repository has two
  versions:
  - a hole list in `src/pagetables-base-2024/os/physmemmanager.cc`;
  - a bitmap in `src/os/physmemmanager.cc`.
- a **page-table driver** (`AArch64MMUDriver`, `src/unnamed/part_003`). It
  builds one four-level AArch64 tree per process. The kernel hands it memory
  for the table nodes.
- an **MMU walker** (`AArch64MMU::performTranslation`, lines 197-254 of
  `src/pagetables-base-2024/os/physmemmanager.cc`). It walks the tree of the
  running process and sets the referenced and dirty bits.
- a **TLB** (`TLB`, `src/unnamed/part_004` lines 236-393). It keeps a slot
  array with an LRU list, caching translations.
- the **MMU façade** (`MMU`, `src/unnamed/part_004` lines 395-523).
  `getTranslation` first asks the TLB and walks the tree on a miss. It then
  adds the walk's result to the TLB. `processMemAccess` calls the kernel's
  page-fault handler until a translation succeeds. `setCurrentASID` and
  `flushTLB` manage the address space.

The repository also holds an older MMU and two sketches that the 2024
framework does not link:

- the **2017 MMU** (`src/hw/mmu.cc` lines 1-104), whose `getTranslation` walks
  on every access and has no TLB;
- a **sorted-list allocator** (`src/phys_mem_manager.h`,
  `src/unnamed/part_002`), used only by the **`OSKernel` stub**
  (`src/unnamed/part_000` lines 45-62, `src/hw/mmu.cc` lines 105-121):
  `allocatePage` takes one page per call, and `terminateProcess` gives a
  process's pages back;
- a **TLB keyed by virtual address** (`src/tlb.h`, `src/unnamed/part_000`),
  a `std::list` of entries with an `unordered_map` of list iterators.

How the parts interact:

- The kernel (a collaborator outside `src/`) allocates physical pages from the
  allocator.
- It maps those pages with `setMapping`, which stamps the handle
  (`PhysPage::driverData`) with the leaf entry's address.
- It can later invalidate a mapping through that handle with `setPageValid`.
- It points the MMU at a process's root.
- The MMU reads the trees the driver writes, and the TLB caches what the MMU
  read.

## Inventory

| Part | State | Operations | Hard behaviour | What makes it correct |
|---|---|---|---|---|
| Hole allocator | `holes` (list order), `nAllocatedPages`, `maxAllocatedPages` | constructor, `allocatePages` (`findFit`, `splitHole`), `releasePages` (`addHole`, `mergeHoles`), `allReleased` | `splitHole` appends the remainder at the tail, so the list is unsorted until the next release; merging relies on the sort | holes disjoint, non-adjacent, non-empty, and adding up with `nAllocatedPages` to `nPages`; no false out-of-memory; first fit |
| Bitmap allocator | `allocated[]`, counters | `allocatePages` (skip-ahead scan), `releasePages` | the scan restarts one past the page that broke a run | the scan finds the lowest fitting run; only free pages are handed out |
| TLB | file-scope `tlbEntries`, `lruOrder`, `lruMap`, `tlbInitialized`; member statistics and `currentASID` | `lookup`, `add`, `flush`, `clear` | lazy resize on the first call; an empty slot first, else the LRU back; globals shared by instances | LRU list = valid slots; behaves as an LRU cache keyed by (ASID, vPage) |
| Page-table driver | `pageTables` (pid → root), node memory | `allocatePageTable`, `releasePageTable` (recursive), `setMapping` (`getOrCreateTable` ×3), `setPageValid`, `getPageTable` | interior tables shared by neighbouring pages; handles that point into trees; no duplicate-pid check | strict disjoint trees owning exactly the live node memory; mappings as installed |
| Walker | reads the trees, writes the referenced and dirty bits | `performTranslation` | interior type checks, leaf bits | returns the installed mapping and marks that leaf |
| MMU façade | `root`, `currentASID`, `tlb` | `getTranslation`, `processMemAccess`, `setCurrentASID`, `flushTLB`, statistics | a TLB hit bypasses the tree; the fault loop; the ASID is not passed to the TLB | translations agree with the current process's table; the dirty bit is set on every write; the fault loop terminates |

## Modules

| Module | Models | Composes / refines |
|---|---|---|
| `PhysMemAbstract` | what an allocator promises: a free set; a failed allocation only when no run fits | – |
| `PhysMemHoles` | the hole-list allocator | refines `PhysMemAbstract` (`free` = union of the holes) |
| `PhysMemBitmap` | the bitmap allocator | refines `PhysMemAbstract` (`free` = clear bits) |
| `TLBAbstract` | an LRU cache keyed by (ASID, vPage), most recently used first | – |
| `TLB` | `TLB::lookup/add/flush/clear` and `MMU::setCurrentASID` | refines `TLBAbstract` under two mappings (`AbsTagged`, `AbsCurrent`) |
| `PageTableAbstract` | a per-process partial map from vPage to a leaf (page, referenced, dirty), handles, and translations | – |
| `PageTable` | the driver and the walker over a pool of kernel nodes | refines `PageTableAbstract` (`map` = what the walk of each tree reaches) |
| `MMU` | `processMemAccess`, `getTranslation`, `makePhysicalAddr`, `setPageTablePointer`, `setCurrentASID`, `flushTLB`, with the kernel's context switch and fault handler | composes `TLB` (as `T`) and `PageTableAbstract` (as `PT`) |
| `TLBObjects` | several `TLB` objects constructed one after another over the same file-scope statics, as the unit tests do | instances `TLB` with the live object's `nEntries` |
| `UnitTests` | the Boost test binaries `aarch64_test` (TLB and physmem cases) and `physmemmanager_test`, each test case a script of calls and checks, run in any order | extends `TLBObjects`; instances `PhysMemHoles` per constructed manager |
| `PhysMemSketch` | the sorted-list allocator sketch, as operators on the hole list (no steps of its own) | – |
| `OSKernelSketch` | `OSKernel::allocatePage` and `terminateProcess` over that allocator | extends `PhysMemSketch` |
| `TLBSketch` | the virtual-address keyed TLB sketch | iterator map against list (`CacheConsistent`) |
| `MC_*` | model values and bounds for TLC | extend the module above |

How the state and actions of each module correspond to the code:

- **PhysMemHoles.**
  - `holes` is the `std::list` in list order. Helpers carry the code's names:
    `FindFit`, `SplitHole`, `AddHole`, and `MergeHoles` (a stable insertion
    sort, then the merge loop, both RECURSIVE).
  - `AllocatePages(count)` has one disjunct per return path: the upfront
    check, no fit, and success. `ReleasePages(a)` is `addHole` and then
    `mergeHoles`, in one step, as in the code.
  - `allocs` and `result` belong to the caller: the allocations it holds and
    the value the last call returned.
- **PhysMemBitmap.**
  - `RunEnd` is the inner `for` loop and `ScanFrom` (RECURSIVE) is the outer
    `while` loop of `allocatePages`.
  - `ScanIsFirstFit` compares the scan with the reference definition
    `LowestFit`.
- **TLB.**
  - The globals and the member statistics are variables.
  - `TLBASID` is the member `currentASID`, which is set to `ASID0` in the
    constructor and never written.
  - `currentASID` is what `MMU::setCurrentASID` writes.
  - `Lookup` covers all three paths: the first call (a resize, then a miss),
    a hit (move to the front), and a miss. `Add` uses an empty slot first, and
    otherwise the LRU back with `nEvictions++`.
  - Statistics counters are capped by `MaxStat` in the guards. `Clear` resets
    them, so the system never stops.
  - `AddAfterMiss` restricts `Add` to keys the last lookups missed. This is
    what `getTranslation` does, since it only adds after a failed lookup. Set
    to FALSE, any add is allowed.
- **PageTable.**
  - `pageTables` is the map from pid to root, and `mem[n]` is the content of
    node `n`. `live` holds the nodes the kernel has handed out and not had
    back.
  - `handle[p]` is the `PhysPage` of physical page `p`: its `driverData`
    (`slot`), and the pid and page the kernel mapped it at.
  - `GetOrCreateTable` returns the set of outcomes of `getOrCreateTable`.
    `SetMapping` chains three of them and writes the leaf.
  - `TableNodes` is the recursion of `releasePageTableLevel`. `SlotFrom` is
    the walk of `performTranslation`.
  - The address split is scaled to 1 index bit per level (the code has 1 and
    11). Virtual addresses are page numbers, because the 14 offset bits never
    reach an index.
  - The kernel's `allocateMemory` is `Alloc`, which returns the lowest free
    node. It is modelled from the spec, because the kernel is not in `src/`.
    Node identities are only compared for equality, so which free node it
    returns does not matter.

- **MMU.**
  - The variables are those of `TLB` and `PageTableAbstract`, plus the
    façade's `root`, the access in progress (`access`, `pAddr`) and `pc`,
    the point the loop of `processMemAccess` has reached: `"lookup"` (the
    TLB check), `"walk"`, `"fault"` (the handler), `"idle"` between
    accesses, `"aborted"` after the null-root error.
  - `getTranslation` is two steps, `TLBCheck` (`T!Lookup`) and `Walk`
    (`PT!PerformTranslation`, then `T!Add` on success). Nothing else runs in
    between, since the simulator has one thread. `UseTLB = FALSE` skips
    `TLBCheck`, which gives the 2017 `getTranslation`.
  - The page table is the abstract one. `pagetable` shows that the
    driver and walker implement it, so the composition stays small.
  - The kernel is outside `src/` and is modelled from the spec. It creates
    tables. `ContextSwitch` sets the root and the ASID. `PageFaultHandler`
    maps the faulting page to a free frame, or else evicts one through its
    handle (`Evicted`, which is `setPageValid(false)`). With
    `KernelFlushes`, it calls `flushTLB` after a switch or an eviction.
  - Addresses are numbers: `PageBits = 1` and `AddressSpaceBits = 2`, so
    `VPageOf`, `MakePhysicalAddr` and the mask of `getTranslation` compute
    what the code computes. Address 5 has a high bit that the mask drops.
  - The trace has `MaxTrace` accesses and switches.
- **TLBObjects.**
  - `nEntries` is the live object's member. `Construct(n)` is the
    constructor: it sets `nEntries` and zeroes the member statistics, and the
    statics keep what earlier objects left in them.
  - `LookupH`, `AddH`, `FlushH` and `ClearH` are `TLB`'s actions instanced
    with the live `nEntries`. `Flush` touches only the object's own slots.
  - `Fits` says the live object's `nEntries` is within the vector that
    the first `lookup` or `add` sized (`resize` runs once). On an object
    that does not fit, a call is a step only if its scan stops inside the
    vector (`LookupInBounds`: a matching slot there; `AddInBounds`: an
    empty slot there; a flush never does), and it then acts as on an object
    of the vector's size. `UnitTests` records any other call as undefined
    behaviour.
- **UnitTests.**
  - Each `BOOST_AUTO_TEST_CASE` is a sequence of call records
    (`TlbFlush`, `HoleMerging`, ...), and `Suites` groups them per binary.
    `suite` is the binary, `test` and `pc` the case and the record being
    run, and `done` the cases already run.
  - `StartTest(t)` picks any case not yet run, as `--random` or
    `--run_test` may; `EndTest` ends it. A failed `BOOST_CHECK` adds the case
    to `failed`, and the case carries on, as Boost does.
  - `NewStep`, `LookupStep`, `AddStep`, `FlushStep` and `StatsStep` are
    the `TLB` methods, through `TLBObjects`. `OutOfBounds` is a call whose
    scan runs past the vector: it sets `ub`, and nothing runs after it.
  - `ManagerStep` constructs a `PhysMemManager` of `n` pages (one hole);
    `AllocStep`, `ReleaseStep`, `AllReleasedStep` and `MaxStep` are its
    methods through `PhysMemHoles`. Addresses go into named locals
    (`addr`, `addrs0..addrs9`), which later checks (`InRangeStep`,
    `UniqueStep`, `DisjointStep`, `SameStep`) compare.
- **PhysMemSketch.**
  - `holes` is the `std::list<MemoryHole>`.
  - `FirstFit` and `TakeFrom` are `allocate`'s loop and its shrink or erase.
  - `Released` is the whole of `release`: the search (`InsertPos`), the
    insert, and the merge of `it` with its successor.
  - The predecessor merge compares the inserted hole with itself. It can
    only fire for a 0-page release, and the model excludes those.
  - `std::next(end())` is undefined. `holes'` may take either of two
    values: with a circular list, next is `begin()` and the merge test
    reads the list header, so the merge either does not happen or erases
    the first hole. Which one a build produces depends on that memory.
- **OSKernelSketch.**
  - `processPages` is the `unordered_map` from pid to its vector of pages.
    `thrown` records that the last `allocatePage` ended in `bad_alloc`.
  - `AllocatePage` is `allocate(1)` and the `push_back`. `TerminateProcess`
    is the release loop (`ReleaseAll`, RECURSIVE, in vector order) and the
    `erase`, in one step.
- **TLBSketch.**
  - `entries` is the list, most recently used first. `cache` maps each key
    to the entry its iterator designates.
  - `asid` is the caller's address space, passed to every call.
  - `latest` is a history variable: the physical address the last
    `addEntry` gave each (address, ASID). `AddEntryH` records it.

## Runs

The project keeps at most twelve runs. They were chosen as follows:

- The violation runs go to the code the 2024 framework links.
- For the sketches, the violation run is the kernel's lost pages, which
  the allocator's undefined merge causes.
- These are modelled but have no run:
  - a second `add` of a cached page, which leaves two slots for it (the
    older one is returned);
  - a multi-page request failing because released neighbours never
    coalesce (no caller in `src/` makes one);
  - `allocatePages(0)` and `releasePages(s, 0)` on the hole allocator;
  - the sketch TLB's keying by address alone;
  - a repeated pid in `allocatePageTable`;
  - an eviction without a flush.

  They are listed as hazards in `PROJECT.json`.

| Run | Checks | Expect | What it shows |
|---|---|---|---|
| `physmem_holes` | `TypeOK`, `HolesConsistent`, `AbsSpec` | pass | The hole list stays a faithful, coalesced account of free memory. The allocator never reports a false out-of-memory. |
| `physmem_firstfit` | `AllocatesLowestFit` | violation | After a split, the remainder sits at the tail. From holes `<<(3,3),(1,1)>>`, a 1-page request gets page 3, not page 1. The spec's first fit (4.A, S5) is not what the code does. The test `first_fit_behavior` pins the code's behaviour. |
| `physmem_bitmap` | `TypeOK`, `ScanIsFirstFit`, `AbsSpec` | pass | The skip-ahead scan is exactly lowest-address first fit, for every request size in every reachable bitmap. |
| `tlb` | `TypeOK`, `LRUConsistent`, `AbsTaggedSpec` | pass | When adds follow misses, the slot array and LRU list are an LRU cache keyed by the TLB's own ASID. |
| `tlb_asid` | `AbsCurrentSpec` | violation | `setCurrentASID` does not reach the TLB. After a switch to `a1`, an add is tagged `a0` (the TLB's member ASID), and the trace ends there. A later lookup in the new address space, compared against the same member ASID, would hit the old one's entries as well. |
| `unit_tests_order` | `SuitePasses` | violation | The TLB entries are file-scope statics, so `aarch64_test` passes only in declaration order. After `tlb_statistics`, `tlb_basic_functionality`'s first `lookup(0x1000)` hits and its check fails; after `tlb_lru_replacement` (2 entries), a 4-entry object indexes past the vector. Spec sections 5 and 9 require per-instance state. Every physmem check of both binaries holds in every order. |
| `pagetable` | `TypeOK`, `NodeOwnership`, `AbsSpec` | pass | The trees are strict and disjoint. They own exactly the node memory the kernel handed out and did not get back, with tables only at levels 0-2 and leaves only at level 3. The driver and the walker implement the per-process page table, including shared interior tables, `setPageValid` through handles, and referenced/dirty on the right leaf. |
| `mmu` | `TranslationMatchesTable`, `AccessCompletes` | pass | With a TLB, and a kernel that flushes it on switches and evictions, every access is translated through the running process's current table. Every access also completes under the fairness of the fault loop. |
| `mmu_notlb` | `TranslationMatchesTable`, `LeafStamped`, `AccessCompletes` | pass | The 2017 MMU also sets referenced, and dirty for Store and Modify, on the leaf of every access. |
| `mmu_dirty` | `LeafStamped` | violation | A Load of address 5 (page 0) caches the translation. A Store to address 0 then hits the TLB, and the leaf's dirty bit stays clear (`part_004:469`). |
| `oskernel_oom` | `OOMOnlyWhenFull` | violation | One process takes all three pages and terminates. Each release is above every hole and evaluates `std::next(end())`. Under one of the two outcomes the model allows for it, the pages are lost, and `allocatePage` throws `bad_alloc` while no process holds a page. |
| `tlbsketch` | `CacheConsistent`, `LookupReturnsLatest` | pass | The iterator map and the list stay in step: no iterator dangles, and the list never exceeds `numEntries`. The map is keyed by address alone, so two address spaces evict each other's entries. Even so, a hit returns what was last added for that address under the caller's ASID. |

Every property of a passing run has a mutant in `PROJECT.json`. A mutant is a
seeded fault in the definition the property is about, for example a
non-recursive release, an L2 index shifted like L3, or an MRU eviction. TLC
finds each one.

### Bounds

- **Allocators:**
  - 6 pages and request sizes 1..3. This is enough for a split with both
    remainders, for a coalesce on both sides, and for a fragmented list in
    which a fit exists only after a merge.
  - The first-fit divergence needs 4 pages.
- **TLB:**
  - 2 slots, so the cache fills and evicts.
  - 3 virtual pages, more than the slots.
  - 2 physical pages, so a re-add can change the value.
  - 2 ASIDs.
  - `MaxStat = 3`.
- **PageTable:**
  - 2 processes and 5 nodes: a full tree for pages {0, 1, 2} uses 5 nodes, so
    node reuse after a release happens.
  - Pages {0, 2}. They share the L1 and L2 tables and have an L3 table
    each, so a walk must index L2 correctly. A third page would push the refinement
    check past five minutes.
  - 1 physical page.
  - The view `MCView` leaves out the content of nodes the kernel has back.
    That content is never read, because a node is zeroed whenever it is
    handed out again.
- **MMU:**
  - 2 processes and 2 frames, so evictions happen. 2 virtual pages, and
    addresses {0, 3, 5}: offsets 0 and 1, and an alias through the mask.
  - A 2-line TLB, so a stale line can survive an add.
  - A trace of 7 steps (8 for `mmu_notlb`). That is enough for a switch,
    a fault with an eviction, a hit on the evicted page, and a switch back.
  - The TLB's counter cap is `2 * MaxTrace`, so it never blocks.
- **UnitTests:** the tests' own sizes, TLBs of 2 and 4 entries and
  managers of 3 to 100 pages, with the tests' pages (`0x1000`...`0x6000`)
  and `MaxStat = 6`. Only the order of the cases is chosen, so every
  order of both binaries is explored: 510 distinct states up to the first
  violation. The TLB cases' pages are the ones the tests use, plus page 0
  of the default entries.
- **OSKernelSketch:** 3 pages and 2 processes. That is enough to fill
  memory, to release above every hole, and to interleave two processes'
  pages.
- **TLBSketch:** 2 entries, 3 addresses, 2 physical addresses and 2 ASIDs.

### Fairness

Only `MMU` assumes fairness: `WF_vars(TLBCheck \/ Walk \/ PageFaultHandler)`.
`processMemAccess` runs on the simulator's only thread, and no other code
runs until it returns. The loop therefore takes its next step, the TLB
check, the walk or the handler, whenever that step is enabled. The kernel's
calls and the trace driver get no fairness: a trace may stop at any point,
and the cfgs say `CHECK_DEADLOCK FALSE` because the trace is finite and a
null root ends the run. `AccessCompletes` (`~>`) holds under this
fairness. Its mutant, a `processMemAccess` without the null-root check,
leaves the walk disabled forever, and TLC reports the violation.

## Not modelled, and why

- **mmap, munmap, the 2 GiB circuit breaker, logging and the statistics
  output.** These are I/O and configuration with no effect on the state the
  properties read.
- **`bytesAllocated`.** It only grows, and only `getBytesAllocated` reads it.
- **`~MMU` and `getTLBStatistics`.** They read and print the statistics. The
  hit rate is a float division, so with no lookups it prints `nan`; nothing
  traps.
- **`setTLB`.** It is called once at set-up, and is the constant `UseTLB`.
- **The `part_001` and `part_005` map-based MMU sketches.** The framework
  does not use them. The 2024 kernel is not in `src/`. It enters only as the
  environment: the caller of the allocators, `Alloc` and the handles, and in
  `MMU` the context switch and the fault handler.
- **Part of the unit tests.** The four walker test cases hand-build a tree
  of 2048-entry tables; the `PageTable` model scales the index widths down,
  so their addresses do not carry over. `architecture_parameters` reads
  three constants. The alignment check of `multiple_allocations` holds
  because `physMemBase` is a page multiple. `stress_test_fragmentation`
  draws 1000 calls from `std::mt19937`; `PhysMemHoles` explores every
  sequence of such calls on a small manager instead.

## Plan (next sittings)

1. **Misuse runs for the hole allocator** (count 0, double release), if
   the run budget allows.
2. **A `PageTable` run without the kernel's handle contract**, showing
   `setPageValid` writing through a stale `driverData`.
3. **The walker unit tests** over a `PageTable` instance with full index
   widths, if a tree of two or three nodes stays within TLC's reach.
4. **`MMU` over the concrete `PageTable`** in place of the abstract one, if
   a small enough node pool allows it.
