SPECIFICATION Spec
CONSTANTS
  Request = {r1, r2}
  Nobody = nobody
  Id = {"a", "b"}
  Markers <- MCMarkers
  Notice = "notice"
  Window = 2
  Threshold = 1
  MaxMarkers = 2
  MaxPending = 2
  MaxEvents = 2
  MaxStep = 2
INVARIANTS
  OneReviewPerWindow
CHECK_DEADLOCK FALSE
