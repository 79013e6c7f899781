SPECIFICATION Spec
CONSTANTS
  Bufs = 2
  MaxCalls = 7
INVARIANTS
  ExecuteMeansReady
  FailedOpenReleases
  FreesOnce
  DestroyReleasesAll
CHECK_DEADLOCK FALSE
