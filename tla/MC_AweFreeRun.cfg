SPECIFICATION FairSpec
CONSTANTS
  Hoists = {TRUE, FALSE}
  MaxSetParams = 4
INVARIANTS
  NoProcessInFreeRun
PROPERTIES
  EnterReturns
  ProcessingResumes
  CloseReturns
CHECK_DEADLOCK FALSE
