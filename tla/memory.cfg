CONSTANTS
    MaxProcs = 2
    MaxPid = 3
    ExitCodes <- NoCodes
    Results = {}
    WaitPtrs = {"null"}
    ReadPtrs = {"mapped"}
    ReadLens = {1}
    RxCapacity = 1
    TmpLen = 1
    MaxBurst = 0
    Frames <- FewFrames
    MaxVa = 4
    RegionSize = 5
    Image <- ImagePages
    Stack <- StackPages
    MMAP_BASE = 1
    MmapPages = {2}
    UnmapVas <- WindowAndBeyond
    KernelPages <- RamPages
SPECIFICATION MSpec
INVARIANTS
    OneOwner
    NothingLost
    ActiveRootLive
PROPERTIES
    FailedForkUndone
