SPECIFICATION Spec
CONSTANTS
    Ids = {a}
    Streams <- OneStream
    Contents = {v}
    Absent = Absent
    Dead = Dead
    Tasks = {t1, t2}
    Ops = {"store", "delete"}
    MaxSeq = 2
    MaxCrashes = 0
INVARIANTS
    CrossStoreConsistent
CHECK_DEADLOCK FALSE
