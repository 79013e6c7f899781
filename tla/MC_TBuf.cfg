SPECIFICATION FairSpec
CONSTANTS
  Size = 6
  Chunk = 2
  ReadChunk = 2
  Total = 11
  MaxJoins = 4
INVARIANTS
  NeverLapped
  FeedsTheStream
  BlocksAreDisjoint
PROPERTY EverythingIsFed
CHECK_DEADLOCK FALSE
