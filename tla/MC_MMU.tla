------------------------------- MODULE MC_MMU -------------------------------
(* Bounds for the MMU composition: two processes, two frames, pages of two *)
(* bytes in a four-byte address space, so that there are two virtual pages *)
(* and an address (5) whose high bit getTranslation masks off.             *)
EXTENDS MMU

CONSTANTS p1, p2, noroot, noaccess, nopage, unmapped, nohandle

MCPIDs == {p1, p2}
MCPIDsOne == {p1}
MCPPages == {0, 1}
MCPPagesOne == {0}
MCAddrs == {0, 3, 5}
MCAccessTypes == {"Load", "Store", "Modify"}
=============================================================================
