SPECIFICATION PingSpec
CONSTANTS
    IPs = {i1, i2}
    Peers = {p1}
    History = 3
    MaxSeq = 5
    None = None
INVARIANT EveryProbeCounted
PROPERTY PingingFollowsMesh
