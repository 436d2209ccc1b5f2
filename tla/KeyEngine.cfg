SPECIFICATION Spec
CONSTANTS
  KEY_COUNT = 2
  DEBOUNCE = 1
  DOUBLE_TAP = 2
  HOLD = 2
  RECORD_HOLD = 3
  QUEUE_SIZE = 2
  ARM = 2
  BOOT_GRACE = 1
  STEPS = {1}
  PROFILES <- MCProfiles
INVARIANTS
  StopNeedsFreshPress
  CachedMaskIsCurrent
  DeferredTapSettlesInTime
PROPERTIES
  GesturesAnswerPresses
