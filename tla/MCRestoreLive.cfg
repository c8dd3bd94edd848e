CONSTANTS
    NSeg = 2
    MaxParallel = 2
    Clusters <- OnlyPromotedStandby
    NoCluster = NoCluster
    Partials = TRUE
    NoFile = NoFile
    Handlers = {h1, h2}
    NoHandler = NoHandler
    MaxFaults = 0
    MaxCrashes = 1
    MaxChanges = 0
SPECIFICATION FairSpec
CHECK_DEADLOCK FALSE
PROPERTIES
    AllReplayed
    PartialReplayedAlone
