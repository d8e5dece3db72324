SPECIFICATION Spec
CONSTANTS
    Seeds = {s1, s2}
    DataVersions = {d1, d2}
    Schedules = {1, 3}
    Boxes <- MCBoxes
    MaxLaunches = 3
    MaxChanges = 1
    None = None
INVARIANTS
    OneContract
    NeverRegress
    ManifestTrue
PROPERTIES
    ImplementsSelectionLog
SYMMETRY Symmetry
CHECK_DEADLOCK FALSE
