SPECIFICATION Spec
CONSTANTS
    Ops = {o}
    NoOp = NoOp
    None = None
    MaxTasks = 1
    MaxPasses = 2
    MaxEpoch = 0
    MaxRuntimes = 1
INVARIANT PassesStopped
CHECK_DEADLOCK FALSE
