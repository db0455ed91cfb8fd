SPECIFICATION FairSpec
CONSTANTS
    Channels = {1, 2, 3, 4, 5}
    MinDelay = 1
    MaxDelay = 10
    ConnectTimeout = 10
    Interval = 3
INVARIANTS
    TypeOK
    OneConnection
    FewTimers
    NeverStuck
PROPERTIES
    Backoff
    Reconnects
CHECK_DEADLOCK FALSE
