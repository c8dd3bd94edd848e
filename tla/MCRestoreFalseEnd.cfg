CONSTANTS
    NSeg = 2
    MaxParallel = 1
    Clusters <- OnlyPromotedStandby
    NoCluster = NoCluster
    Partials = FALSE
    NoFile = NoFile
    Handlers = {h1}
    NoHandler = NoHandler
    MaxFaults = 0
    MaxCrashes = 0
    MaxChanges = 0
SPECIFICATION Spec
CHECK_DEADLOCK FALSE
INVARIANT
    EndIsReal
