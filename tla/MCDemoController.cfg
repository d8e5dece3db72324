SPECIFICATION Spec
CONSTANTS
  MaxRun = 2
  MaxCall = 1
  Sweeps = 1
  Answered <- MCAnswered
INVARIANTS
  RunnerIsHeld
  EndsAreTrue
  RunsRecorded
CHECK_DEADLOCK FALSE
