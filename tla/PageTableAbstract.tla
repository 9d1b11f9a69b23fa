------------------------- MODULE PageTableAbstract -------------------------
(***************************************************************************)
(* What the page-table driver and the walker promise together (spec 4.B,  *)
(* 4.C, 8.4, 8.5, 8.7): per process, a partial map from virtual page to a *)
(* leaf holding the physical page and its referenced and dirty bits.       *)
(*                                                                         *)
(*  - tables is the set of processes that have a page table;               *)
(*  - map[pid][v] is the leaf of v in pid's table, or Unmapped;            *)
(*  - handle[p] is the (pid, vPage) whose leaf the physical-page handle of *)
(*    p refers to, or NoHandle;                                            *)
(*  - walkOut is what the last translation returned.                       *)
(*                                                                         *)
(* setMapping installs a fresh leaf (bits clear) and points the handle at  *)
(* it; setPageValid(h, FALSE) unmaps the leaf the handle points at; a      *)
(* translation of a mapped page returns its physical page and sets the     *)
(* referenced bit, and the dirty bit for a write; of an unmapped page it   *)
(* fails and changes nothing.                                              *)
(***************************************************************************)
CONSTANTS
    PIDs,       \* process ids
    VPages,     \* virtual page numbers
    PPages,     \* physical page numbers
    Unmapped,   \* no leaf
    NoHandle,   \* a handle not pointing at any leaf
    NoPage      \* the page walkOut carries on a failed translation

VARIABLES tables, map, handle, walkOut

vars == <<tables, map, handle, walkOut>>

Leaf == [page : PPages, referenced : BOOLEAN, dirty : BOOLEAN]

NoMappings == [v \in VPages |-> Unmapped]

Failed == [ok |-> FALSE, page |-> NoPage]

Init ==
    /\ tables = {}
    /\ map = [pid \in PIDs |-> NoMappings]
    /\ handle = [p \in PPages |-> NoHandle]
    /\ walkOut = Failed

AllocatePageTable(pid) ==
    /\ pid \notin tables
    /\ tables' = tables \cup {pid}
    /\ map' = [map EXCEPT ![pid] = NoMappings]
    /\ UNCHANGED <<handle, walkOut>>

ReleasePageTable(pid) ==
    /\ pid \in tables
    /\ tables' = tables \ {pid}
    /\ map' = [map EXCEPT ![pid] = NoMappings]
    /\ handle' = [p \in PPages |->
                    IF handle[p] # NoHandle /\ handle[p].pid = pid
                    THEN NoHandle ELSE handle[p]]
    /\ UNCHANGED walkOut

SetMapping(pid, v, p) ==
    /\ pid \in tables
    /\ map' = [map EXCEPT ![pid][v] =
                 [page |-> p, referenced |-> FALSE, dirty |-> FALSE]]
    /\ handle' = [handle EXCEPT ![p] = [pid |-> pid, vPage |-> v]]
    /\ UNCHANGED <<tables, walkOut>>

SetPageValid(p, setting) ==
    /\ handle[p] # NoHandle
    /\ LET k == handle[p] IN
       /\ ~(map[k.pid][k.vPage] = Unmapped /\ setting)
       /\ map' = IF setting THEN map ELSE [map EXCEPT ![k.pid][k.vPage] = Unmapped]
    /\ UNCHANGED <<tables, handle, walkOut>>

PerformTranslation(pid, v, isWrite) ==
    /\ pid \in tables
    /\ \/ /\ map[pid][v] # Unmapped
          /\ map' = [map EXCEPT ![pid][v].referenced = TRUE,
                                ![pid][v].dirty = @ \/ isWrite]
          /\ walkOut' = [ok |-> TRUE, page |-> map[pid][v].page]
       \/ /\ map[pid][v] = Unmapped
          /\ walkOut' = Failed
          /\ UNCHANGED map
    /\ UNCHANGED <<tables, handle>>

Next ==
    \/ \E pid \in PIDs : AllocatePageTable(pid) \/ ReleasePageTable(pid)
    \/ \E pid \in PIDs, v \in VPages, p \in PPages : SetMapping(pid, v, p)
    \/ \E p \in PPages, s \in BOOLEAN : SetPageValid(p, s)
    \/ \E pid \in PIDs, v \in VPages, w \in BOOLEAN : PerformTranslation(pid, v, w)

Spec == Init /\ [][Next]_vars

=============================================================================
