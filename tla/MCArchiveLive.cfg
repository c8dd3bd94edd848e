CONSTANTS
    NWal = 3
    History = {3}
    Unstorable = {2}
    MaxParallel = 2
    CreateOnArchive = TRUE
    Stanza = cluster
    SpecStanza = NoStanza
    NoStanza = NoStanza
    Repos = {r1}
    NoRepo = NoRepo
    FirstRepo = r1
    Foreign = {}
    Handlers = {h1, h2}
    NoHandler = NoHandler
    MaxFaults = 1
    MaxCrashes = 1
    MaxEdits = 0
SPECIFICATION FairSpec
CHECK_DEADLOCK FALSE
PROPERTIES
    AllArchived
    PrefixStored
