SPECIFICATION Spec
CONSTANTS
  Request = {r1, r2}
  Nobody = nobody
  Id = {"a", "b"}
  Markers <- MCMarkers
  Notice = "notice"
  Window = 2
  Threshold = 1
  MaxMarkers = 2
  MaxPending = 2
  MaxEvents = 1
  MaxStep = 2
INVARIANTS
  ResultsNotDuplicated
  HaltIsFinal
CHECK_DEADLOCK FALSE
