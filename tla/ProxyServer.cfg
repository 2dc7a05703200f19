SPECIFICATION MCSpec
CONSTANTS
    p1 = p1
    p2 = p2
    s1 = s1
    s2 = s2
    d1 = d1
    Players = {p1, p2}
    Streams = {s1, s2}
    Datagrams = {d1}
    MaxStreams = 1
    MaxRequests = 2
    Allocation = Allocation
    None = None
INVARIANT TypeOK
INVARIANT DisconnectNotLost
INVARIANT AllocationThenPlayers
PROPERTY ConnectedPlayerIsKnown
PROPERTY DisconnectedPlayerForgotten
PROPERTY ConnectingPlayerSettled
PROPERTY ServerGonePlayersClosed
CHECK_DEADLOCK FALSE
