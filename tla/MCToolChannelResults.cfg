SPECIFICATION Spec
CONSTANTS
  Request = {r1}
  Nobody = nobody
  Id = {"a", "b"}
  Markers <- MCMarkers
  Notice = "notice"
  Window = 2
  Threshold = 1
  MaxMarkers = 2
  MaxPending = 8
  MaxEvents = 2
  MaxStep = 2
INVARIANTS
  ResultsArrive
CHECK_DEADLOCK FALSE
