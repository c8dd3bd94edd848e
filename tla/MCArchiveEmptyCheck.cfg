CONSTANTS
    NWal = 2
    History = {}
    Unstorable = {}
    MaxParallel = 2
    CreateOnArchive = TRUE
    Stanza = cluster
    SpecStanza = NoStanza
    NoStanza = NoStanza
    Repos = {r1}
    NoRepo = NoRepo
    FirstRepo = r1
    Foreign = {r1}
    Handlers = {h1}
    NoHandler = NoHandler
    MaxFaults = 0
    MaxCrashes = 0
    MaxEdits = 0
SPECIFICATION Spec
CHECK_DEADLOCK FALSE
PROPERTIES
    EmptyCheckHonoured
