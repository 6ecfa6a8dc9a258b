SPECIFICATION Spec
CONSTANTS
    Conns = {c1, c2}
    NoConn = NoConn
    MAXCLIENTS = 1
    MAXEVENTS = 2
    MaxFd = 1
    RESET_TIMEOUT = 3
    HEARTBEAT_INTERVAL = 2
    PollTimeout = 2
    Talkers = {}
    MayStall = {c1, c2}
    Signals = FALSE
    SetupMayFail = FALSE
    MaxReports = 1
    MaxTime = 6
    MaxOpens = 2
SYMMETRY Symmetry
INVARIANT KeptAwake
CHECK_DEADLOCK FALSE
