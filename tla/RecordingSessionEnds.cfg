SPECIFICATION Spec
CONSTANTS
  SLOTS <- MCTwoSlots
  MAX_STARTS = 1
  MAX_QUEUE = 1
  NoKey = NoKey
  NoSlot = NoSlot
PROPERTIES
  LostLinkEndsCapture
  OverdueEndsCapture
CONSTRAINTS
  AtMostTwoEnd
  NotCrossed
CHECK_DEADLOCK FALSE
