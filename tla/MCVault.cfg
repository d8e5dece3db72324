SPECIFICATION Spec
CONSTANTS
  Class = {"EMAIL", "AUTH_TOKEN", "PASSWORD"}
  Level <- MCLevel
  Text = {"Ann", "ann", " "}
  Blank = {" "}
  Scannable = {"Ann", "ann"}
  Canon <- MCCanon
  Tool = {"write"}
  RawPath = {"text", " text", "bad"}
  Path = {"text"}
  NormPath <- MCNormPath
  InvalidPath = "invalid"
  Target = {"any", "site"}
  NoTarget = "any"
  References <- MCReferences
  Ttl = {1, 2}
  MaxUses = 2
  MaxToken = 2
  MaxMinted = 2
  MaxNow = 2
INVARIANTS
  MapsAgree
  UsesBacked
PROPERTIES
  MeaningKept
  ImplementsLedger
CHECK_DEADLOCK FALSE
