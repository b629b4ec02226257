SPECIFICATION FairSpec
CONSTANTS
  Slots = 2
  BatchCounts = {0, 1, 3}
  Chunks = 2
  ChanSlots = 1
  CaptureTail = TRUE
  MaxFaults = 1
INVARIANTS
  PhasesAreWhole
  SomeoneMoves
  LeavesNothing
PROPERTIES
  Implements
  EveryThreadEnds
\* the call is over once both threads are; SomeoneMoves is about getting stuck before
CHECK_DEADLOCK FALSE

