CONSTANTS
    NWal = 4
    History = {}
    Unstorable = {}
    MaxParallel = 2
    CreateOnArchive = TRUE
    Stanza = cluster
    SpecStanza = NoStanza
    NoStanza = NoStanza
    Repos = {r1, r2}
    NoRepo = NoRepo
    FirstRepo = r1
    Foreign = {}
    Handlers = {h1, h2}
    NoHandler = NoHandler
    MaxFaults = 1
    MaxCrashes = 1
    MaxEdits = 2
SPECIFICATION Spec
CHECK_DEADLOCK FALSE
SYMMETRY Interchangeable
INVARIANTS
    TypeOK
    AckedIsStored
    
    HoleIsBounded
    RemoveFindsMarker
    NoStaleMarker
    NoDuplicatePush
    EmptyFlagTracksArchival
PROPERTY
    KeepsPromise
