CONSTANTS
    NSeg = 2
    MaxParallel = 2
    Clusters <- OnlyPromotedPrimary
    NoCluster = NoCluster
    Partials = TRUE
    NoFile = NoFile
    Handlers = {h1}
    NoHandler = NoHandler
    MaxFaults = 0
    MaxCrashes = 0
    MaxChanges = 0
SPECIFICATION FairSpec
CHECK_DEADLOCK FALSE
PROPERTY
    PartialReplayed
