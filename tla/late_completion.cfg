CONSTANTS
    Capacity = 1
    Values = {v1, v2}
    IdxMod = 4
    MaxReqs = 2
    MaxTimeouts = 1
SPECIFICATION Spec
CHECK_DEADLOCK FALSE
INVARIANT
    Faithful
