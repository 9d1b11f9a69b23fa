---------------------------- MODULE MC_UnitTests ----------------------------
(***************************************************************************)
(* Model-checking instance of UnitTests: the TLB pages, sizes and ASID     *)
(* the test cases use, and nothing more.  The default-constructed entry    *)
(* holds page 0 under ASID 0.                                              *)
(***************************************************************************)
EXTENDS UnitTests

CONSTANT none

MCVPages == {0, \h1000, \h3000, \h5000}

MCPPages == {0, \h2000, \h4000, \h6000}

=============================================================================
