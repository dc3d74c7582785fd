SPECIFICATION FairSpec
CONSTANTS
    Ids = {a, b}
    Streams <- OneStream
    Contents = {v}
    Absent = Absent
    Dead = Dead
    Tasks = {t1, t2}
    Ops = {"store", "delete", "api_delete", "purge", "api_purge", "purge_chunk", "touch", "retention"}
    MaxSeq = 3
    MaxCrashes = 2
ACTION_CONSTRAINT
    LoneAtTheBound
INVARIANTS
    TypeOK
    
    AckedSurvives
PROPERTIES
    RecoveryEnds
    
    RecoveryAdvances
    UsesTheLog
CHECK_DEADLOCK FALSE
