SPECIFICATION Spec
CONSTANTS
  a = a
  b = b
  CALLERS = {a, b}
  CONNECTOR = connector
  WINDOW = window
  NONE = none
  KINDS = {"write", "read", "request"}
  SESSIONS = {FALSE}
  CHUNKS = 1
  MAX_LINKS = 1
  MAX_CALLS = 2
  MAX_LATE = 2
  MAX_DISCONNECTS = 0
  MAX_UNPLUGS = 0
  MAX_EVENTS = 1
INVARIANTS
  ConfirmedUnlessCrossed
  TransfersInTurn
SYMMETRY CallersAlike
CHECK_DEADLOCK FALSE
