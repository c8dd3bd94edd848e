CONSTANTS
    Procs = {p1, p2, p3}
    Keys = {secret}
    NoProc = NoProc
    NoKey = NoKey
    TTLSeconds = 1
    TicksPerSecond = 2
    CallTicks = 1
    MaxTime = 5
    MaxWrites = 2
SPECIFICATION Spec
INVARIANTS
    TypeOK
    OneEntry
PROPERTIES
    BoundedStaleness
    NeverBack
    CallsReturn
