--------------------------- MODULE MC_TLBObjects ---------------------------
(***************************************************************************)
(* Model-checking instance of TLBObjects: objects of one and two entries  *)
(* (the tests use 4, 2, 4, 4; what matters is a smaller object after a    *)
(* larger one and objects of equal size), two virtual and two physical    *)
(* pages, and one ASID, since the TLB methods only ever use ASID 0.       *)
(***************************************************************************)
EXTENDS TLBObjects

CONSTANTS v0, v1, p0, p1, a0, none

MCVPages == {v0, v1}

MCPPages == {p0, p1}

=============================================================================
