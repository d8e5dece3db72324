SPECIFICATION Spec
CONSTANTS
    Launches = {l1}
    MaxSignals = 2
    None = None
INVARIANT ArtifactsGone
CHECK_DEADLOCK FALSE
