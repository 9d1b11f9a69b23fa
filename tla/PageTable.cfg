CONSTANTS
    p1 = p1
    p2 = p2
    pa = pa
    pb = pb
    nonode = nonode
    nopage = nopage
    nohandle = nohandle
    unmapped = unmapped
    PIDs <- MCPIDs
    PPages <- MCPPages
    VPages <- MCVPagesSmall
    Nodes <- MCNodes
    L0Bits = 1
    LBits = 1
    NoNode <- nonode
    NoPage <- nopage
    NoHandle <- nohandle
    Unmapped <- unmapped
    AllocFreshPIDOnly = TRUE
SPECIFICATION Spec
INVARIANTS TypeOK NodeOwnership
PROPERTIES AbsSpec
VIEW MCView
