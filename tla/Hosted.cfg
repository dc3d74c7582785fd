SPECIFICATION FairSpec
CONSTANTS
    Ops = {o}
    NoOp = NoOp
    None = None
    MaxTasks = 2
    MaxPasses = 1
    MaxEpoch = 1
    MaxRuntimes = 2
INVARIANTS
    TypeOK
    LiveIsCurrent
    SubjectWhole
PROPERTIES
    KeepsGenerations
    RevokeReturns
CHECK_DEADLOCK FALSE
