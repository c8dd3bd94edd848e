CONSTANTS
    PluginName = "pgbackrest.cnpg.opera.com"
    Secrets = {"s1", "s2"}
    NoSecret = "none"
    ArchiveNames = {"a", "b"}
    Definitions <- SomeDefinitions
    NoArchive = NoArchive
    Clusters <- SomeClusters
    Pods <- SomePods
    NoPod = NoPod
    Calls = {p, q}
    NoCluster = NoCluster
    NoRole = NoRole
    Texts <- AnyText
    MaxEdits = 1
    MaxFaults = 1
    MaxLag = 1
SPECIFICATION FairSpec
INVARIANTS
    TypeOK
    ContinueHasAccess
    OneSidecar
    OwnVariables
PROPERTIES
    AccessConverges
