\* Either test binary, its test cases in any order the runner takes.
CONSTANTS
    none = none
    Sizes = {2, 4}
    VPages <- MCVPages
    PPages <- MCPPages
    ASIDs = {0}
    ASID0 = 0
    VPage0 = 0
    PPage0 = 0
    NoPage <- none
    MaxStat = 6

SPECIFICATION TestSpec

INVARIANTS
    SuitePasses

\* The test binary exits after its last test case, or after any of them.
CHECK_DEADLOCK FALSE
