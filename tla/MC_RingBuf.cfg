SPECIFICATION Spec
CONSTANTS
  Word = 8
  Requests = {2, 3}
  MaxLen = 3
  Total = 9
  Builds <- AllBuilds
INVARIANTS
  CountersTellTheTruth
  CopiesAreDisjoint
  ReadsTheStream
PROPERTY IsAFifo
