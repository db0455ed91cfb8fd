CONSTANTS
    Udp = Udp
    Acceptor = Acceptor
    Workers = {w1}
    Clients = {c1}
    None = None
    Datagram = Datagram
    w1 = w1
    w2 = w2
    c1 = c1
    MaxCalls = 2
SPECIFICATION FairSpec
INVARIANTS TypeOK HalfBuilt   AssertStopped
PROPERTIES  StopEnds
CHECK_DEADLOCK FALSE
