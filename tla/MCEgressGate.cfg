SPECIFICATION Spec
CONSTANTS
    Launches = {l1}
    MaxSignals = 2
    None = None
INVARIANTS GuardFirst VerifiedMeansGone NothingLeft
PROPERTY SeenIsEnded
CHECK_DEADLOCK FALSE
