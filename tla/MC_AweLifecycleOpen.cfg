SPECIFICATION Spec
CONSTANTS
  Bufs = 2
  MaxCalls = 7
INVARIANT OpenTellsTheTruth
CHECK_DEADLOCK FALSE
