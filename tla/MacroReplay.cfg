SPECIFICATION Spec
CONSTANTS
    Slots <- MCSlots
    Loops = {0, 2}
    Starts = {0, 58, 61}
    WRAP = 64
    MAX_RUN = 3
    ARM = 4
    TEXT_DELAY = 1
    SLICE = 3
    SPREAD_MAX = 6
    Buttons = {"left"}
    FRAME_NUM = 3
    FRAME_DEN = 2
    MaxWork = 3
INVARIANTS
    HeldAsRecorded
    BudgetForWork
    PlaysAsRecorded
    StopEndsOutput
    MacroReadsStableProfile
