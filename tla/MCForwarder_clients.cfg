SPECIFICATION Spec
CONSTANTS
    Conns = {c1, c2, c3}
    NoConn = NoConn
    MAXCLIENTS = 3
    MAXEVENTS = 2
    MaxFd = 3
    RESET_TIMEOUT = 60
    HEARTBEAT_INTERVAL = 25
    PollTimeout = 2
    Talkers = {}
    MayStall = {}
    Signals = FALSE
    SetupMayFail = FALSE
    MaxReports = 2
    MaxTime = 0
    MaxOpens = 1
SYMMETRY Symmetry
INVARIANT Served
PROPERTY ImplementsBroadcast
CHECK_DEADLOCK FALSE
