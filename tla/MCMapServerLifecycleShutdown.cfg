CONSTANTS
    Udp = Udp
    Acceptor = Acceptor
    Workers = {w1}
    Clients = {c1}
    None = None
    Datagram = Datagram
    w1 = w1
    w2 = w2
    c1 = c1
    MaxCalls = 0
SPECIFICATION Spec
INVARIANT UnusedAfterShutdown
CHECK_DEADLOCK FALSE
