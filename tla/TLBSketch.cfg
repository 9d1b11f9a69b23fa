CONSTANTS
    va0 = va0  va1 = va1  va2 = va2
    pa0 = pa0  pa1 = pa1
    as0 = as0  as1 = as1
    noaddr = noaddr
    NumEntries = 2
    VAddrs <- MCVAddrs
    PAddrs <- MCPAddrs
    ASIDs <- MCASIDs
    NoAddr <- noaddr

SPECIFICATION Spec

INVARIANTS
    CacheConsistent
PROPERTIES
    LookupReturnsLatest
