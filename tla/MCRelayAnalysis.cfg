SPECIFICATION Spec
CONSTANTS
  Request = {r1, r2}
  Nobody = nobody
  Image = {"form", "mail"}
  Value = {"address", "name", "password"}
  Blocked = {"password"}
  Lines <- MCLines
  Text = {"user", "assistant"}
  Holds <- MCHolds
  Recognises <- MCRecognises
  Content <- MCContent
  PaintEntries = 1
  FrameCapacity = 2
  CallCapacity = 1
  MaxRounds = 2
INVARIANTS
  AnalysisMatches
CHECK_DEADLOCK FALSE
