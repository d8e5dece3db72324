SPECIFICATION HookSpec
CONSTANTS
  Class = {"AUTH_TOKEN"}
  Level <- MCLevel
  Text = {"a"}
  Blank = {}
  Scannable = {}
  Canon <- MCCanon
  Tool = {"write"}
  RawPath = {"text", " text", "bad"}
  Path = {"text"}
  NormPath <- MCNormPath
  InvalidPath = "invalid"
  Target = {"any"}
  NoTarget = "any"
  References <- MCReferences
  Completion <- MCCompletions
  Guided = {"AUTH_TOKEN"}
  Ttl = {1}
  MaxUses = 2
  MaxToken = 2
  MaxMinted = 2
  MaxNow = 2
PROPERTIES
  CollectorAndResolverPaired
CHECK_DEADLOCK FALSE
