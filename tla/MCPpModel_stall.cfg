SPECIFICATION Spec
CONSTANTS
  MaxPos = 4
  BlockSize = 2
  Slots = 2
  ChunkRows = 1
  MinRows = 2
  SyncBlocks = 1
  MaxCalls = 2
  MaxFaults = 1
  MaxSplit = 2
INVARIANT StallIsFatal
