SPECIFICATION FairSpec
CONSTANTS
  Size = 6
  Chunk = 2
  Pushes = {1, 2, 3}
  Takes = {0, 1, 2}
  Word = 16
  Total = 8
  MaxPosts = 1
INVARIANTS
  FeedsTheStream
  NoOverrun
  WorkerSeesLiveRing
PROPERTIES
  AllAnswered
  CloseReturns
CHECK_DEADLOCK FALSE
