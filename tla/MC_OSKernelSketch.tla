------------------------- MODULE MC_OSKernelSketch -------------------------
(***************************************************************************)
(* Model-checking instance of OSKernelSketch: three pages and two          *)
(* processes, enough to fill memory with pages of both processes in       *)
(* interleaved order and to terminate either while memory is full or has  *)
(* holes below and above its pages.                                       *)
(***************************************************************************)
EXTENDS OSKernelSketch

CONSTANTS k1, k2

MCPIDs == {k1, k2}

=============================================================================
