SPECIFICATION FairSpec
CONSTANTS
  Lanes = {1}
  CallLanes = {{1}}
  Words = 2
  CallsPerRun = 4
  MaxRuns = 2
  Modulus = 16
  SeqBase = 14
  Gap = 4
INVARIANTS
  ReduceIsExact
  NoProtocolViolation
  NoSilentPartial
PROPERTY
  StreamsDrain
CHECK_DEADLOCK FALSE
