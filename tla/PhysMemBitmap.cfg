CONSTANTS
    NPages <- MCNPages
    Counts <- MCCounts

SPECIFICATION Spec

INVARIANTS
    TypeOK
    ScanIsFirstFit

PROPERTIES
    AbsSpec
