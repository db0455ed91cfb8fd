SPECIFICATION Spec
CONSTANTS
    g = g
    h = h
    w1 = w1
    w2 = w2
    Workers = {w1, w2}
    Files = {g, h}
    Requests <- MCRequests
    MaxPacketSize = 2
    Overhead = 1
    ListSize = 7
    Sizes <- MCSizes
    MaxVersion <- MCMaxVersion
INVARIANTS
    TypeOK
    DownloadsWhole
    InRequestOrder
    LengthsRight
