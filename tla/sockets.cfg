CONSTANTS
    Procs = {p1, p2}
    MAX_SOCKETS = 2
    MAX_BACKLOG = 1
    EPHEMERAL_BASE = 3
    U16Max = 6
    Ports = {0, 2, 4}
    WirePorts = {0, 2, 3}
    Data = {d1}
    MaxFds = 2
SPECIFICATION Spec
SYMMETRY Symmetry
INVARIANTS
    TypeOK
    PortUnique
    ExclusiveUntilShared
PROPERTY
    LostOnlyAtExit
