CONSTANTS
    NoBackup = NoBackup
    IntMax = 3
    SegmentSize = 2
    DefaultWALSegmentSize = 4
    Retention = 1
    FirstSecond = 8
    LastSecond = 10
    MaxBackups = 2
    MaxFailovers = 1
    Clusters <- SomeClusters
    NoCluster = NoCluster
    NoTarget = NoTarget
    Files = {w1, w2}
    NoFile = NoFile
    Parallel = 5
    MaxAttempts = 3
    MaxFailures = 1
    RecoverySecond = 10
SPECIFICATION FairSpec
CHECK_DEADLOCK FALSE
INVARIANTS
    TypeOK
    NoFileLost
    ReadyToRecover
    GatheredFollow
PROPERTIES
    ChoosesNewest
    EventuallyRestored
