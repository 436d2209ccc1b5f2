SPECIFICATION Spec
CONSTANTS
    Apps = {one, two}
    Threads = {window, worker}
    Generations = 3
    MaxSaves = 4
    MaxCrashes = 1
    MaxFaults = 1
INVARIANTS
    StoredIsWhole
    NothingLost
SYMMETRY Symmetry
CHECK_DEADLOCK FALSE
