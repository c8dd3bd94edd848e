CONSTANTS
    NoBackup = NoBackup
    IntMax = 3
    SegmentSize = 4
    DefaultWALSegmentSize = 4
    Pods = {p1, p2}
    FirstPrimary = p1
    Handlers = {h1, h2}
    NoHandler = NoHandler
    Policy = "OnFirstArchive"
    StanzaAtStart = FALSE
    Retention = 1
    FirstSecond = 4
    LastSecond = 6
    MaxBackups = 2
    MaxArchives = 1
    MaxFailovers = 2
    MaxFaults = 1
SPECIFICATION Spec
CHECK_DEADLOCK FALSE
SYMMETRY Interchangeable
INVARIANTS
    TypeOK
    ReportsOwn
    PanicNeedsOverlap
PROPERTIES
    RefusedIsHarmless
    KeepsRepository
