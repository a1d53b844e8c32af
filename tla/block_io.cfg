CONSTANTS
    Capacity = 2
    Values = {v1, v2}
    IdxMod = 4
    MaxReqs = 4
    MaxTimeouts = 2
SPECIFICATION Spec
SYMMETRY Symmetry
CHECK_DEADLOCK FALSE
INVARIANTS
    FaithfulUntilTimeout
    LagIsTimeouts
