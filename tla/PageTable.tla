----------------------------- MODULE PageTable -----------------------------
(***************************************************************************)
(* The AArch64 four-level page-table driver (AArch64MMUDriver, driver.cc  *)
(* in src/unnamed/part_003) and the walker that reads its trees            *)
(* (AArch64MMU::performTranslation, src/pagetables-base-2024/os/           *)
(* physmemmanager.cc lines 197-254).                                       *)
(*                                                                         *)
(* Memory handed out by the kernel for table nodes is a pool Nodes; mem[n] *)
(* is the content of node n (a function from index to SimpleTableEntry)   *)
(* and live is the set of nodes the kernel has handed out and not had      *)
(* back.  A table entry's physicalPageNum is the child node for a table    *)
(* entry and the physical page for a leaf.  The address split is scaled:   *)
(* L0Bits index bits at level 0 and LBits at levels 1-3 (1 and 11 in      *)
(* aarch64.h), and virtual addresses are page numbers, since the 14 offset *)
(* bits never reach an index.                                              *)
(*                                                                         *)
(* handle[p] is the PhysPage of physical page p as the kernel holds it:    *)
(* driverData (slot, the L3 entry setMapping stamped) and the pid and      *)
(* virtual page the kernel mapped it at.  Following spec section 5, the    *)
(* kernel drops the handles of a process when it releases its table, so    *)
(* no dangling driverData is ever passed to setPageValid.  bytesAllocated, *)
(* a statistic nothing reads back, is left out.                            *)
(***************************************************************************)
EXTENDS Naturals, FiniteSets

CONSTANTS
    PIDs,            \* process ids
    VPages,          \* virtual page numbers
    PPages,          \* physical page numbers
    Nodes,           \* memory the kernel can hand out for table nodes
    L0Bits, LBits,   \* index bits at level 0 and at levels 1-3
    NoNode,          \* nullptr / pageTables.end()
    NoPage,          \* physicalPageNum of a zeroed entry
    NoHandle,        \* PhysPage with driverData == nullptr
    Unmapped,        \* the abstract view of a page with no valid leaf
    AllocFreshPIDOnly \* the kernel never allocates a table for a pid twice

AddrBits == L0Bits + 3 * LBits

ASSUME VPages \subseteq 0 .. 2^AddrBits - 1

VARIABLES
    pageTables,   \* std::unordered_map<uint64_t, SimpleTableEntry*>
    mem,          \* content of every node
    live,         \* kernel: nodes allocated and not yet released
    handle,       \* kernel: PhysPage per physical page
    walkOut       \* what the last performTranslation returned

vars == <<pageTables, mem, live, handle, walkOut>>

\* Entries of a node at a level: L0_ENTRIES at level 0, L1_ENTRIES below.
EntriesAt(level) == IF level = 0 THEN 0 .. 2^L0Bits - 1 ELSE 0 .. 2^LBits - 1

Idx == 0 .. (IF L0Bits > LBits THEN 2^L0Bits ELSE 2^LBits) - 1

ZeroEntry == [valid |-> FALSE, type |-> 0, ppn |-> NoPage,
              referenced |-> FALSE, dirty |-> FALSE]

Failed == [ok |-> FALSE, page |-> NoPage]

-----------------------------------------------------------------------------
(* Helpers of driver.cc and the index macros of aarch64.h.                 *)

\* Seeded fault for the index macros: L2_INDEX shifts by pageBits only,
\* as L3_INDEX does.
IndexL2AsL3(v, level) ==
    (v \div 2^(IF level = 2 THEN 0 ELSE LBits * (3 - level)))
        % 2^(IF level = 0 THEN L0Bits ELSE LBits)

\* L0_INDEX .. L3_INDEX of vPage << pageBits.
Index(v, level) ==
    (v \div 2^(LBits * (3 - level))) % 2^(IF level = 0 THEN L0Bits ELSE LBits)

\* vAddr &= (1UL << addressSpaceBits) - 1
Masked(v) == v % 2^AddrBits

\* Seeded fault for initTableEntry: every entry is stamped as a table.
InitTableEntryAsTable(target, isTable) ==
    [valid |-> TRUE, type |-> 1, ppn |-> target,
     referenced |-> FALSE, dirty |-> FALSE]

\* initTableEntry: memset to zero, then physicalPageNum, valid and type.
InitTableEntry(target, isTable) ==
    [valid |-> TRUE, type |-> IF isTable THEN 1 ELSE 0, ppn |-> target,
     referenced |-> FALSE, dirty |-> FALSE]

\* A node zeroed by memset over its first n entries.
Zeroed(m, node, entries) ==
    [m EXCEPT ![node] = [i \in Idx |-> IF i \in entries THEN ZeroEntry ELSE @[i]]]

\* kernel->allocateMemory: the kernel collaborator hands out the lowest
\* free node (node identities are only compared for equality, so which
\* free node it returns does not matter to the driver); when Nodes is used
\* up, it returns a node already live, and the callers below refuse it.
Alloc(used) == IF Nodes \subseteq used THEN CHOOSE n \in used : TRUE
               ELSE CHOOSE n \in Nodes \ used : \A m \in Nodes \ used : n <= m

\* getOrCreateTable(parent, index) on a walk state w = [mem, live, node]
\* with node the parent: the set of possible results (several when a node
\* is allocated, since the kernel may return any free memory; none when the
\* slot holds a leaf, where the code throws).  allocatePageTableLevel
\* allocates L1_ENTRIES entries and zeroes them.
GetOrCreateTable(w, index) ==
    LET e == w.mem[w.node][index] IN
    IF ~e.valid
    THEN { [mem  |-> [Zeroed(w.mem, f, EntriesAt(1))
                        EXCEPT ![w.node][index] = InitTableEntry(f, TRUE)],
            live |-> w.live \cup {f},
            node |-> f] : f \in {Alloc(w.live)} \ w.live }
    ELSE IF e.type = 1 THEN { [w EXCEPT !.node = e.ppn] }
    ELSE {}

\* Seeded fault for releasePageTableLevel: child tables are not released.
TableNodesShallow(n, level) == {n}

\* The nodes releasePageTableLevel(table, level) hands back to the kernel:
\* the node itself and, at levels 0-2, recursively every child of a valid
\* table entry among its first numEntries entries.
RECURSIVE TableNodes(_, _)
TableNodes(n, level) ==
    {n} \cup
    IF level = 3 THEN {}
    ELSE UNION { TableNodes(mem[n][i].ppn, level + 1) :
                   i \in {j \in EntriesAt(level) :
                            mem[n][j].valid /\ mem[n][j].type = 1} }

\* The L3 slot <<node, index>> the walk of performTranslation reaches from
\* root for v, or NoNode when an interior entry is invalid or not a table.
RECURSIVE SlotFrom(_, _, _)
SlotFrom(n, level, v) ==
    IF level = 3 THEN << n, Index(v, 3) >>
    ELSE LET e == mem[n][Index(v, level)] IN
         IF e.valid /\ e.type = 1 THEN SlotFrom(e.ppn, level + 1, v) ELSE NoNode

-----------------------------------------------------------------------------
(* The driver's operations and the walker.                                 *)

Init ==
    /\ pageTables = [pid \in PIDs |-> NoNode]
    /\ mem = [n \in Nodes |-> [i \in Idx |-> ZeroEntry]]
    /\ live = {}
    /\ handle = [p \in PPages |-> NoHandle]
    /\ walkOut = Failed

\* allocatePageTable: allocate and zero an L0 table of L0_ENTRIES entries
\* and store it under PID, without looking for an existing one.
AllocatePageTable(pid) ==
    /\ AllocFreshPIDOnly => pageTables[pid] = NoNode
    /\ LET n == Alloc(live) IN
       /\ n \notin live
       /\ mem' = Zeroed(mem, n, EntriesAt(0))
       /\ live' = live \cup {n}
       /\ pageTables' = [pageTables EXCEPT ![pid] = n]
    /\ UNCHANGED <<handle, walkOut>>

\* releasePageTable on a pid that has a table: releasePageTableLevel(root,
\* 0), then erase.  The kernel drops the PhysPages of the process with it.
ReleasePageTable(pid) ==
    /\ pageTables[pid] # NoNode
    /\ live' = live \ TableNodes(pageTables[pid], 0)
    /\ pageTables' = [pageTables EXCEPT ![pid] = NoNode]
    /\ handle' = [p \in PPages |->
                    IF handle[p] # NoHandle /\ handle[p].pid = pid
                    THEN NoHandle ELSE handle[p]]
    /\ UNCHANGED <<mem, walkOut>>

\* setMapping: mask, find the root (throws when there is none), three
\* getOrCreateTable calls, the leaf, and driverData = &l3_table[l3_idx].
SetMapping(pid, vAddr, p) ==
    LET v == Masked(vAddr) IN
    /\ pageTables[pid] # NoNode
    /\ \E w1 \in GetOrCreateTable([mem |-> mem, live |-> live,
                                   node |-> pageTables[pid]], Index(v, 0)) :
       \E w2 \in GetOrCreateTable(w1, Index(v, 1)) :
       \E w3 \in GetOrCreateTable(w2, Index(v, 2)) :
          /\ mem' = [w3.mem EXCEPT ![w3.node][Index(v, 3)] =
                                     InitTableEntry(p, FALSE)]
          /\ live' = w3.live
          /\ handle' = [handle EXCEPT ![p] =
                          [pid |-> pid, vPage |-> v,
                           slot |-> << w3.node, Index(v, 3) >>]]
    /\ UNCHANGED <<pageTables, walkOut>>

\* setPageValid: throws on a null driverData, and on setting valid on an
\* invalid entry; otherwise writes the valid bit of the entry.
SetPageValid(p, setting) ==
    /\ handle[p] # NoHandle
    /\ LET s == handle[p].slot IN
       /\ ~(~mem[s[1]][s[2]].valid /\ setting)
       /\ mem' = [mem EXCEPT ![s[1]][s[2]].valid = setting]
    /\ UNCHANGED <<pageTables, live, handle, walkOut>>

\* performTranslation with root the table of pid: fails when an interior
\* entry is not a valid table entry or the leaf is invalid; otherwise
\* returns the page and sets referenced, and dirty on a write.
PerformTranslation(pid, v, isWrite) ==
    LET s   == SlotFrom(pageTables[pid], 0, v)
        hit == IF s = NoNode THEN FALSE ELSE mem[s[1]][s[2]].valid
    IN
    /\ pageTables[pid] # NoNode
    /\ \/ /\ ~hit
          /\ walkOut' = Failed
          /\ UNCHANGED mem
       \/ /\ hit
          /\ mem' = [mem EXCEPT ![s[1]][s[2]].referenced = TRUE,
                                ![s[1]][s[2]].dirty = @ \/ isWrite]
          /\ walkOut' = [ok |-> TRUE, page |-> mem[s[1]][s[2]].ppn]
    /\ UNCHANGED <<pageTables, live, handle>>

Next ==
    \/ \E pid \in PIDs : AllocatePageTable(pid) \/ ReleasePageTable(pid)
    \/ \E pid \in PIDs, v \in VPages, p \in PPages : SetMapping(pid, v, p)
    \/ \E p \in PPages, s \in BOOLEAN : SetPageValid(p, s)
    \/ \E pid \in PIDs, v \in VPages, w \in BOOLEAN : PerformTranslation(pid, v, w)

Spec == Init /\ [][Next]_vars

-----------------------------------------------------------------------------
(* Properties.                                                             *)

Entry == [valid : BOOLEAN, type : {0, 1}, ppn : Nodes \cup PPages \cup {NoPage},
          referenced : BOOLEAN, dirty : BOOLEAN]

TypeOK ==
    /\ pageTables \in [PIDs -> Nodes \cup {NoNode}]
    /\ mem \in [Nodes -> [Idx -> Entry]]
    /\ \A n \in Nodes, i \in Idx :
          /\ mem[n][i].valid /\ mem[n][i].type = 1 => mem[n][i].ppn \in Nodes
          /\ mem[n][i].valid /\ mem[n][i].type = 0 => mem[n][i].ppn \in PPages
    /\ live \subseteq Nodes
    /\ handle \in [PPages -> [pid : PIDs, vPage : VPages,
                              slot : Nodes \X Idx] \cup {NoHandle}]
    /\ walkOut \in [ok : BOOLEAN, page : PPages \cup {NoPage}]

\* The nodes of pid's tree with their levels.
RECURSIVE LevelledFrom(_, _)
LevelledFrom(n, level) ==
    {<< n, level >>} \cup
    IF level = 3 THEN {}
    ELSE UNION { LevelledFrom(mem[n][i].ppn, level + 1) :
                   i \in {j \in EntriesAt(level) :
                            mem[n][j].valid /\ mem[n][j].type = 1} }

Tree(pid) == IF pageTables[pid] = NoNode THEN {}
             ELSE LevelledFrom(pageTables[pid], 0)

Reached == UNION { Tree(pid) : pid \in PIDs }

\* The interior slots of the trees that hold a table entry.
ChildSlots == { << r[1], i >> : r \in { q \in Reached : q[2] < 3 }, i \in Idx } \cap
              { s \in Nodes \X Idx : mem[s[1]][s[2]].valid /\ mem[s[1]][s[2]].type = 1 }

\* The interior slots a node is reached through: only the first
\* numEntries entries of a node are part of its table.
LinkedSlots == { s \in ChildSlots :
                   \E r \in Reached : r[1] = s[1] /\ r[2] < 3 /\ s[2] \in EntriesAt(r[2]) }

Owners(n) ==
    Cardinality({ pid \in PIDs : pageTables[pid] = n })
  + Cardinality({ s \in LinkedSlots : mem[s[1]][s[2]].ppn = n })

\* The driver owns exactly the kernel memory it was given, as a forest of
\* strict trees (spec section 3): every node the kernel handed out through
\* allocatePageTable or getOrCreateTable and did not get back through
\* releasePageTable is reachable from exactly one root or parent slot, at
\* one level, and table entries appear only at levels 0-2 and leaves only
\* at level 3.  A leaked tree, a node shared by two trees or two slots, or
\* a freed node still linked in, all break it.
NodeOwnership ==
    /\ { r[1] : r \in Reached } = live
    /\ \A n \in live : Owners(n) = 1
    /\ \A r, q \in Reached : r[1] = q[1] => r[2] = q[2]
    /\ \A r \in Reached : \A i \in EntriesAt(r[2]) :
          mem[r[1]][i].valid => (mem[r[1]][i].type = 1 <=> r[2] < 3)

\* The view of the trees the abstract page table gives: the leaf the walk
\* of pid's tree reaches for v, if it is valid.
LeafView(pid, v) ==
    LET s == SlotFrom(pageTables[pid], 0, v) IN
    IF pageTables[pid] = NoNode THEN Unmapped
    ELSE IF s = NoNode THEN Unmapped
    ELSE IF ~mem[s[1]][s[2]].valid THEN Unmapped
    ELSE [page |-> mem[s[1]][s[2]].ppn,
          referenced |-> mem[s[1]][s[2]].referenced,
          dirty |-> mem[s[1]][s[2]].dirty]

\* The driver and walker implement the abstract per-process page table: a
\* mapping installed by setMapping is what performTranslation returns for
\* that pid and page and nothing else changes it, except setPageValid
\* through the handle last stamped for that leaf; mappings of other pages
\* sharing interior tables, and of other processes, are never disturbed,
\* and the walker's referenced/dirty updates land on that mapping's leaf.
Abs == INSTANCE PageTableAbstract
         WITH tables  <- { pid \in PIDs : pageTables[pid] # NoNode },
              map     <- [pid \in PIDs |-> [v \in VPages |-> LeafView(pid, v)]],
              handle  <- [p \in PPages |->
                            IF handle[p] = NoHandle THEN NoHandle
                            ELSE [pid |-> handle[p].pid,
                                  vPage |-> handle[p].vPage]]

AbsSpec == Abs!Spec

=============================================================================
