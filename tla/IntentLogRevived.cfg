SPECIFICATION Spec
CONSTANTS
    Targets = {t1, t2}
    MaxSeq = 2
    MaxEntries = 1
    SyncOnWrite = TRUE
    AgeCap = FALSE
    ShortWrites = FALSE
PROPERTY
    GcRevivesNoIntent
CHECK_DEADLOCK FALSE
