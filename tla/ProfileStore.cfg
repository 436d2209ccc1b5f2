SPECIFICATION Spec
CONSTANTS
  PIECES = 2
  VALUES = {0, 1}
  DEFAULTS <- MCDefaults
  BRIGHT = {0, 1}
  DEFAULT_BRIGHT = 0
  RECEIVED_MOD = 3
  Nothing = Nothing
INVARIANTS
  IdleValidates
  AckedSurvives
PROPERTY
  ReplacesWhole
