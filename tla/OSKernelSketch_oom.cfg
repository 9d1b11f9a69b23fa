CONSTANTS
    k1 = k1  k2 = k2
    NPages = 3
    PIDs <- MCPIDs

SPECIFICATION Spec

INVARIANTS
    OOMOnlyWhenFull
