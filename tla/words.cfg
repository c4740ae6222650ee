SPECIFICATION Spec
CONSTANTS
    WordSize = 2
    Counts <- MCCounts
    Values <- MCValues
INVARIANTS
    SarDivides
    SignextendKeepsNumber
    ByteOfStored
    DivisionsAddUp
