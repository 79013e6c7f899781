SPECIFICATION PoolFairSpec
CONSTANTS
  Threads = {t1, t2}
  Blocks = {1, 2}
  MaxCalls = 5
INVARIANTS
  ReadyMeansComplete
  OpenedOnce
  BlocksAccounted
PROPERTY EveryCallReturns
CHECK_DEADLOCK FALSE
