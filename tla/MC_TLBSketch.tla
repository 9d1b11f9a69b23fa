---------------------------- MODULE MC_TLBSketch ----------------------------
(***************************************************************************)
(* Model-checking instance of TLBSketch: two entries and three virtual     *)
(* addresses, so the list fills and evicts; two physical addresses so a    *)
(* re-add changes the value; two address spaces for flushASID and for the  *)
(* same address cached under two asids.                                   *)
(***************************************************************************)
EXTENDS TLBSketch

CONSTANTS va0, va1, va2, pa0, pa1, as0, as1, noaddr

MCVAddrs == {va0, va1, va2}

MCPAddrs == {pa0, pa1}

MCASIDs == {as0, as1}

=============================================================================
