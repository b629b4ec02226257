SPECIFICATION FairSpec
CONSTANTS
  Windows = 2
  MaxCommands = 2
  MaxRecoveries = 1
INVARIANTS
  SuccessIsWhole
  ReadyIsClean
  TeardownIsQuiet
  NoLostWakeUp
PROPERTY
  EveryCallEnds
CHECK_DEADLOCK FALSE
