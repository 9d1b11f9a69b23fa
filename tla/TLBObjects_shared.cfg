CONSTANTS
    v0 = v0  v1 = v1
    p0 = p0  p1 = p1
    a0 = a0
    none = none
    Sizes = {1, 2}
    VPages <- MCVPages
    PPages <- MCPPages
    ASIDs = {a0}
    ASID0 <- a0
    VPage0 <- v0
    PPage0 <- p0
    NoPage <- none
    MaxStat = 2

SPECIFICATION Spec

PROPERTIES
    LookupHitsOwnEntry
