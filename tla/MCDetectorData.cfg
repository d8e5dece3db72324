SPECIFICATION DataSpec
CONSTANTS
    Supplies <- MCSupplies
    Publications <- MCPublications
    Renderings <- MCRenderings
    Disposition <- MCDisposition
    MinimumSupport = 20
    MaxUploads = 2
    MaxContainers = 4
    None = None
INVARIANTS HeldOut TrainsOnContract
PROPERTY FailureKeepsStage
CHECK_DEADLOCK FALSE
