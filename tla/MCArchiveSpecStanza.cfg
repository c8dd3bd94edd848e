CONSTANTS
    NWal = 2
    History = {}
    Unstorable = {}
    MaxParallel = 2
    CreateOnArchive = TRUE
    Stanza = cluster
    SpecStanza = server
    NoStanza = NoStanza
    Repos = {r1}
    NoRepo = NoRepo
    FirstRepo = r1
    Foreign = {}
    Handlers = {h1}
    NoHandler = NoHandler
    MaxFaults = 0
    MaxCrashes = 0
    MaxEdits = 0
SPECIFICATION FairSpec
CHECK_DEADLOCK FALSE
PROPERTIES
    AllArchived
