CONSTANTS
  Backends <- MCBackends
  Traced <- MCTraced
  Sizes = {"full"}
  MaxStages = 4
  MaxModels = 2
  MaxCommits = 3
CHECK_DEADLOCK FALSE
SPECIFICATION MCSpec
INVARIANTS EvaluationIsOfModel
