SPECIFICATION Spec
CONSTANTS
    Targets = {t1, t2}
    MaxSeq = 2
    MaxEntries = 3
    SyncOnWrite = TRUE
    AgeCap = FALSE
    ShortWrites = TRUE
INVARIANTS
    HeldIsScanned
CHECK_DEADLOCK FALSE
