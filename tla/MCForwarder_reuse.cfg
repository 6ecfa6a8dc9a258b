SPECIFICATION Spec
CONSTANTS
    Conns = {c1, c2}
    NoConn = NoConn
    MAXCLIENTS = 2
    MAXEVENTS = 3
    MaxFd = 2
    RESET_TIMEOUT = 60
    HEARTBEAT_INTERVAL = 25
    PollTimeout = 2
    Talkers = {}
    MayStall = {}
    Signals = FALSE
    SetupMayFail = FALSE
    MaxReports = 1
    MaxTime = 0
    MaxOpens = 1
INVARIANT EventsAreCurrent
CHECK_DEADLOCK FALSE
