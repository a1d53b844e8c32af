CONSTANTS
    Procs = {p1}
    MAX_SOCKETS = 1
    MAX_BACKLOG = 1
    EPHEMERAL_BASE = 3
    U16Max = 5
    Ports = {0}
    WirePorts = {3}
    Data = {d1}
    MaxFds = 1
    Gateway = gw
    OtherIps = {h1, h2}
    Macs = {m1, m2}
    ARP_CACHE_LEN = 2
    POLLS = 2
    QUEUE_SIZE = 1
    MaxReplies = 2
SPECIFICATION NetSpec
INVARIANTS
    CacheIsLatest
    PingMeansReply
    SentToGateway
    FramesRoundTrip
    ChecksumsVerify
PROPERTIES
    SelfTestEnds
