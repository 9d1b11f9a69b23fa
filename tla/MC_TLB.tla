------------------------------ MODULE MC_TLB ------------------------------
(***************************************************************************)
(* Model-checking instance of TLB.  Two slots and three virtual pages make *)
(* a full TLB evict, and let a lookup reorder the LRU list before the      *)
(* eviction (scenario S3); two physical pages let a stale value be told    *)
(* apart from a fresh one; two ASIDs make a context switch observable.     *)
(* Three lookups, evictions and flushes between clears are enough for     *)
(* fill, reorder, evict, re-add and flush to follow one another.          *)
(***************************************************************************)
EXTENDS TLB

CONSTANTS v0, v1, v2, p0, p1, a0, a1, none

MCVPages == {v0, v1, v2}

MCPPages == {p0, p1}

MCASIDs == {a0, a1}

=============================================================================
