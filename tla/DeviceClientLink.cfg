SPECIFICATION FairSpec
CONSTANTS
  a = a
  CALLERS = {a}
  CONNECTOR = connector
  WINDOW = window
  NONE = none
  KINDS = {"request"}
  SESSIONS = {TRUE}
  CHUNKS = 1
  MAX_LINKS = 2
  MAX_CALLS = 1
  MAX_LATE = 1
  MAX_DISCONNECTS = 1
  MAX_UNPLUGS = 1
  MAX_EVENTS = 0
INVARIANTS
  DisconnectSticks
  WaiterIsWoken
PROPERTIES
  OnlyBrokenLinksDropped
  RequestsEnd
  LossIsReported
CHECK_DEADLOCK FALSE
