CONSTANTS
    NPages <- MCNPages
    Counts <- MCCounts

SPECIFICATION Spec

PROPERTIES
    AllocatesLowestFit
