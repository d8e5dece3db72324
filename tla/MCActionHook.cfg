SPECIFICATION FairHookSpec
CONSTANTS
  Class = {"AUTH_TOKEN"}
  Level <- MCLevel
  Text = {"a", "b"}
  Blank = {}
  Scannable = {}
  Canon <- MCCanon
  Tool = {"write"}
  RawPath = {"text", " text", "bad"}
  Path = {"text"}
  NormPath <- MCNormPath
  InvalidPath = "invalid"
  Target = {"any"}
  NoTarget = "any"
  References <- MCReferences
  Completion <- MCCompletions
  Guided = {"AUTH_TOKEN"}
  Ttl = {1, 2}
  MaxUses = 2
  MaxToken = 2
  MaxMinted = 3
  MaxNow = 2
INVARIANTS
  DeliveredIsCharged
  ApprovedGoesThrough
PROPERTIES
  ImplementsVault
  LoopIsFreed
CHECK_DEADLOCK FALSE
