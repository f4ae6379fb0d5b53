SPECIFICATION MCSpec
CONSTANTS
    p1 = p1
    p2 = p2
    PeerOrder <- MCPeerOrder
    MaxPeers = 1
    GossipFanout = 1
    SeenTtl = 1
    BanDuration = 2
    BanDurations = {1, 3}
    Deltas <- MCDeltas
    Messages = {m1, m2}
    MaxClock = 3
    Bootstrap = {p1}
INVARIANTS
    BannedStayOut
    TasksFindNetwork
PROPERTIES
    HandledOnce
    SignalEndsNode
CHECK_DEADLOCK FALSE
