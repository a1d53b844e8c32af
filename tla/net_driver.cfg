CONSTANTS
    QUEUE_SIZE = 2
    IdxMod = 4
    Frames = {"f", "g", "runt"}
    MaxSends = 3
    MaxTimeouts = 1
SPECIFICATION Spec
INVARIANTS
    BuffersConserved
    SentUntilTimeout
PROPERTY
    ReceiveIsFifo
