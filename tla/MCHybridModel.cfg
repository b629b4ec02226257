SPECIFICATION Spec
CONSTANTS
  MaxPos = 8
  BlockSize = 2
  MinRows = 2
  StageCtx = 6
  GatherRows = 2
  Window = 3
  Slice = 2
  DraftK = 2
  MaxCalls = 5
INVARIANTS
  ShardsAreExact
  MirrorsAreTrue
  DraftStoreIsFull
\* a fatal group and the end of the call budget stop the run
CHECK_DEADLOCK FALSE
