SPECIFICATION FairSpec
CONSTANTS
  Programs <- AllPrograms
  MaxFailed = 2
  Jobs <- AllJobs
  N = 7
  Chunk = 2
  Block = 3
  Capacity = 3
  Word = 16
  MaxFailures = 2
  ByteBits = 4
  Samples = 4
  Inputs <- MCInputs
  Channels = 4
  MaxFrames = 3
  Torn = {0, 1, 3, 6}
  Foreign <- MCForeign
  Rates <- MCRates
  Chunks = {1, 2, 3, 4}
  Input <- MCInput
  Filtered <- MCFiltered
  Files <- MCFiles
  kMaxReadBytes = 32
  kMaxBytesChecked = 128
  CommandLines <- MCLines
  Worlds <- MCWorlds
INVARIANTS
  NothingLeaks
  ReleasesOnce
  CarriesTheStream
  NothingTwice
  OneBufferPerFailure
  KeepsEverySample
  ReadsBackWhatWasWritten
  ChunksDoNotMatter
  YieldsTheFrames
  RunsWhatWasAsked
PROPERTIES
  EveryLoopEnds
CHECK_DEADLOCK FALSE
