CONSTANTS
    Procs = {p1, p2}
    BLOCK_SIZE = 4
    DIRECT_ZONES = 2
    ZONES_PER_BLOCK = 1
    INODES_PER_BLOCK = 2
    BITS_PER_BLOCK = 8
    Volumes <- MCVolumes
    Paths <- MCPaths
    ExecPaths <- MCExecPaths
    CwdPaths <- MCCwds
    Embedded <- MCEmbedded
    NameLen <- MCNameLen
    ReadLens = {3}
    DentLens = {56, 200}
    BufVas = {2, 6}
    NCES = 1
    CHUNK = 2
    OUT = 80
    MAX_ENTRIES = 3
    PAGE_SIZE = 4
    USER_VA_END = 10
    Mapped = {0, 1}
    MaxFds = 1
SPECIFICATION Spec
SYMMETRY ProcSymmetry
INVARIANTS TypeOK StreamIsPrefix EndIsEnd ImageIsWhole PathsLead
