SPECIFICATION FairSpec
CONSTANTS
  MaxPos = 6
  BlockSize = 2
  Slots = 2
  ChunkRows = 1
  MinRows = 2
  SyncBlocks = 1
  MaxCalls = 3
  MaxFaults = 1
  MaxSplit = 1
INVARIANTS
  BIsExact
  MirrorIsTrue
  NoProtocolError
  RootCauseReported
PROPERTIES
  EveryCallEnds
