SPECIFICATION Spec
CONSTANTS
    Keys = {k1, k2}
    SlotCount = 2
    PoolRecords = 3
    MaxChanges = 2
    MaxOps = 1
    MaxTroubles = 1
PROPERTY NeverSilently
SYMMETRY Symmetry
CHECK_DEADLOCK FALSE

