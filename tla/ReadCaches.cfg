SPECIFICATION Spec
CONSTANTS
    Mems = {m1}
    Keys = {k1, k2}
    NoKey = NoKey
    Empty = Empty
    Readers = {r1, r2}
    Writers = {w1}
    Ops = {"store", "update", "api_delete", "purge_chunk", "delete", "purge", "mcp_delete", "retire"}
    MaxEntries = 2
    MaxAmbient = 1
    MaxVersion = 2
    MaxClears = 1
SYMMETRY Symmetry
CONSTRAINTS OneInUse OneRerank
INVARIANTS TypeOK CacheAccounted AmbientAccounted SearchReadsWrites SearchHidesRemoved 
CHECK_DEADLOCK FALSE
