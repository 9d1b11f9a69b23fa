------------------------- MODULE MC_PhysMemBitmap -------------------------
(***************************************************************************)
(* Model-checking instance of PhysMemBitmap, with the bounds of            *)
(* MC_PhysMemHoles: six pages and requests of 1 to 3 pages reach every     *)
(* bitmap of free runs separated by one or two allocated pages, including  *)
(* runs that end at the last page.                                         *)
(***************************************************************************)
EXTENDS PhysMemBitmap

MCNPages == 6

MCCounts == 1 .. 3

=============================================================================
