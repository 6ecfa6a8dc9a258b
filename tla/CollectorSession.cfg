SPECIFICATION FairSpec
CONSTANTS
    Watchdog = 5
    PollTimeout = 2
    RetryDelay = 3
    ConnectTimeout = 4
INVARIANTS TypeOK SessionAlive DecodesOnlyWhenActive WatchdogWasSilence ExitsInTime ReconnectsInTime
PROPERTY SignalEndsIt
CHECK_DEADLOCK FALSE
