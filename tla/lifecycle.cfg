CONSTANTS
    MaxProcs = 3
    MaxPid = 4
    ExitCodes <- Codes
    Results = {}
    WaitPtrs = {"mapped"}
    ReadPtrs = {}
    ReadLens = {}
    RxCapacity = 1
    TmpLen = 1
    MaxBurst = 0
SPECIFICATION Spec
INVARIANTS
    ParentAlive
    WaiterHasChild
PROPERTIES
    ReapDelivers
    ImplementsTree
