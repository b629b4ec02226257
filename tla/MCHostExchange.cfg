SPECIFICATION ExchangeFairSpec
CONSTANTS
  World = 2
  Payloads <- MCPayloads
  MaxCalls = 3
INVARIANTS
  GatherIsExact
  NoSlotRace
PROPERTIES
  EveryCallReturns
