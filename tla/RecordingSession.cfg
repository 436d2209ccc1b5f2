SPECIFICATION Spec
CONSTANTS
  SLOTS <- MCSlots
  MAX_STARTS = 2
  MAX_QUEUE = 1
  NoKey = NoKey
  NoSlot = NoSlot
INVARIANTS
  CaptureMatchesSession
  OneWatchdog
CONSTRAINTS
  AtMostTwoEnd
  NotCrossed
  SecondIntoOne
CHECK_DEADLOCK FALSE
