SPECIFICATION FairSpec
CONSTANTS
  Lines <- BridgeLines
  AlsaSource <- BridgeAlsaSource
  Frame = 2
  Period = 2
  Reads = {2, 4}
  Capacity = 8
INVARIANTS
  RingOutlivesThreads
  WholeFrames
PROPERTIES
  StopEndsAll
  PlaybackResumes
CHECK_DEADLOCK FALSE
