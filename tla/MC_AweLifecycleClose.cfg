SPECIFICATION Spec
CONSTANTS
  Bufs = 2
  MaxCalls = 7
INVARIANT CloseEndsProcess
CHECK_DEADLOCK FALSE
