SPECIFICATION FairSpec
CONSTANTS
    Conns = {c1, c2}
    NoConn = NoConn
    MAXCLIENTS = 1
    MAXEVENTS = 2
    MaxFd = 2
    RESET_TIMEOUT = 60
    HEARTBEAT_INTERVAL = 25
    PollTimeout = 2
    Talkers = {c1}
    MayStall = {c2}
    Signals = TRUE
    SetupMayFail = TRUE
    MaxReports = 1
    MaxTime = 0
    MaxOpens = 1
INVARIANTS TypeOK ClientTable EdgesServed
PROPERTY ClosedClientsLeave
CHECK_DEADLOCK FALSE
