---------------------------- MODULE MC_PageTable ----------------------------
EXTENDS PageTable

CONSTANTS p1, p2, pa, pb, nonode, nopage, nohandle, unmapped

MCPIDs == {p1, p2}
MCPPages == {pa}
MCNodes == 1 .. 5
\* 0 and 2 share the L1 and L2 tables and have an L3 table each.
MCVPagesSmall == {0, 2}
\* The content of a node the kernel has back is never read: a node is
\* zeroed whenever it is handed out again.  States that differ only there
\* are the same state of the driver.
MCView == << pageTables, [n \in live |-> mem[n]], live, handle, walkOut >>
=============================================================================
