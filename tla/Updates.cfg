SPECIFICATION Spec
CONSTANTS
    OldImage = 2
    NewImage = 3
    Arriving <- MCArriving
    MaxTroubles = 1
    MaxUses = 1
INVARIANTS
    NeverUnchecked
    BinaryInPlace
    SuccessMeansWritten
PROPERTIES
    UpdateGetsThrough
    LinkReturns
CHECK_DEADLOCK FALSE
