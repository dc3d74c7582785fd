SPECIFICATION Spec
CONSTANTS
    Mems = {m1}
    Keys = {k1}
    NoKey = NoKey
    Empty = Empty
    Readers = {r1}
    Writers = {w1}
    Ops = {"delete"}
    MaxEntries = 1
    MaxAmbient = 1
    MaxVersion = 1
    MaxClears = 1
INVARIANT AmbientForgets
CHECK_DEADLOCK FALSE
