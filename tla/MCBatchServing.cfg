SPECIFICATION LiveSpec
CONSTANTS
  s1 = s1
  s2 = s2
  r1 = r1
  r2 = r2
  None = None
  Slot <- TwoSlots
  Request <- TwoRequests
  MaxQueue = 1
  MaxTokens <- Budgets
  Tp = TRUE
  EarlyStop = TRUE
INVARIANTS SlotIsOwn GivenBack Alternation StepIsLegal
PROPERTIES RequestsEnd ShutdownEnds
