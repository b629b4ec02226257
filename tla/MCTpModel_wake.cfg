SPECIFICATION Spec
CONSTANTS
  Windows = 2
  MaxCommands = 1
  MaxRecoveries = 0
INVARIANT
  ThrowWakesPeer
CHECK_DEADLOCK FALSE
