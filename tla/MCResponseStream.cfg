SPECIFICATION FairSpec
CONSTANTS
  Char <- Char_
  OpenTag <- Open_
  CloseTag <- Close_
  ToolOpen <- ToolOpen_
  ToolClose <- ToolClose_
  Calls <- Calls_
  KnownCalls <- Known_
  Newline = "n"
  LeadByte = "%"
  Note <- Note_
  NPos = 1000
  Requests <- Requests_
  Lookback = 1
  QueueSize = 1
INVARIANTS
  ReceivedIsExact
  NoOpenerShown
  StreamIsWhole
  CancelIsReal
PROPERTY
  EveryoneEnds
CHECK_DEADLOCK FALSE
