SPECIFICATION Spec
CONSTANTS
  Size = 3
  Chunk = 2
  ReadChunk = 1
  Total = 6
  MaxJoins = 4
INVARIANT FeedsTheStream
CHECK_DEADLOCK FALSE
