CONSTANTS
    MaxProcs = 2
    MaxPid = 3
    ExitCodes <- NoCodes
    Results = {0}
    WaitPtrs = {"null", "unmapped"}
    ReadPtrs = {"mapped", "unmapped"}
    ReadLens = {1, 4}
    RxCapacity = 3
    TmpLen = 2
    MaxBurst = 4
SPECIFICATION FairSpec
INVARIANTS
    TypeOK
    CurrentIsRunning
    SleepersAwaitResult
    SleeperLeavesRoom
PROPERTIES
    FrameOwnership
    ReadyRuns
