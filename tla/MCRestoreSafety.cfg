CONSTANTS
    NSeg = 3
    MaxParallel = 2
    Clusters <- RecoveryOrRoleChange
    NoCluster = NoCluster
    Partials = TRUE
    NoFile = NoFile
    Handlers = {h1}
    NoHandler = NoHandler
    MaxFaults = 1
    MaxCrashes = 1
    MaxChanges = 1
SPECIFICATION Spec
CHECK_DEADLOCK FALSE
INVARIANTS
    TypeOK
    SpoiledOnce
    StaleIsOneList
    EndIsReal
    RecoveryIsComplete
