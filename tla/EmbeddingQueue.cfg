SPECIFICATION FairSpec
CONSTANTS
    Ids = {a}
    Contents = {v, w}
    Absent = Absent
    Producers = {p1, p2}
    Closers = {c1}
    Capacity = 1
    BatchSize = 2
    MaxGen = 2
INVARIANTS
    TypeOK
    VectorCurrent
    PendingExact
    ZeroAfterShutdown
PROPERTIES
    ShutdownAdvances
    ShutdownReturns
CHECK_DEADLOCK FALSE
