CONSTANTS
    v0 = v0  v1 = v1  v2 = v2
    p0 = p0  p1 = p1
    a0 = a0  a1 = a1
    none = none
    NEntries = 2
    VPages <- MCVPages
    PPages <- MCPPages
    ASIDs <- MCASIDs
    ASID0 <- a0
    VPage0 <- v0
    PPage0 <- p0
    NoPage <- none
    AddAfterMiss = TRUE
    MaxStat = 3

SPECIFICATION Spec

PROPERTIES
    AbsCurrentSpec
