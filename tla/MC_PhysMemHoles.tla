-------------------------- MODULE MC_PhysMemHoles --------------------------
(***************************************************************************)
(* Model-checking instance of PhysMemHoles.  Six pages are enough for      *)
(* three live allocations, holes on both sides of an allocation (so that   *)
(* a release coalesces with a predecessor and a successor at once), and a  *)
(* split remainder that lands behind a higher hole in the list.  Requests  *)
(* of 1 to 3 pages give fragmentation failures (enough free pages but no   *)
(* single hole) as well as plain out-of-memory failures.                   *)
(***************************************************************************)
EXTENDS PhysMemHoles

MCNPages == 6

MCCounts == 1 .. 3

=============================================================================
