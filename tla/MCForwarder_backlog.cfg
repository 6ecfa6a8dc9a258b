SPECIFICATION Spec
CONSTANTS
    Conns = {c1}
    NoConn = NoConn
    MAXCLIENTS = 1
    MAXEVENTS = 2
    MaxFd = 1
    RESET_TIMEOUT = 60
    HEARTBEAT_INTERVAL = 25
    PollTimeout = 2
    Talkers = {}
    MayStall = {}
    Signals = FALSE
    SetupMayFail = FALSE
    MaxReports = 2
    MaxTime = 0
    MaxOpens = 1
INVARIANT HidDrained
CHECK_DEADLOCK FALSE
