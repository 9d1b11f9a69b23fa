CONSTANTS
    NPages <- MCNPages
    Counts <- MCCounts

SPECIFICATION Spec

INVARIANTS
    TypeOK
    HolesConsistent

PROPERTIES
    AbsSpec
