SPECIFICATION Spec
CONSTANTS
    Targets = {t1, t2}
    MaxSeq = 2
    MaxEntries = 2
    SyncOnWrite = FALSE
    AgeCap = TRUE
    ShortWrites = TRUE
SYMMETRY TargetSymmetry
INVARIANTS
    TypeOK
    
    NoAlias

    
CHECK_DEADLOCK FALSE
