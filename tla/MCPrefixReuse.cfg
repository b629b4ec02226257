SPECIFICATION Spec
CONSTANTS
  Text = {a}
  Pad = pad
  Eos = eos
  Hash = {h1, h2}
  Span <- SpanOf
  Prompts <- MCPrompts
  PromptCheckpoint = TRUE
  DraftK = 1
  MaxCtx = 6
  MaxReply = 3
  Junk = junk
  PrefillChunks = {1, 2}
  Window = 2
  RingTokens = 4
  MaxBlock = 2
  DraftSlots = 3
  MaxLen = 3
  MaxBack = 1
INVARIANTS PromptIsExact ReplyIsFed NoInheritedFailure ClaimsAreTrue
