SPECIFICATION FairSpec
CONSTANTS
    p1 = p1
    p2 = p2
    Players = {p1, p2}
    Count = 2
    MaxStreams = 2
    None = None
INVARIANT TypeOK
INVARIANT StreamsOfTheirPlayer
PROPERTY RefinesTunnelService
PROPERTY HeaderNeverAwaitedForGood
PROPERTY StreamReachesApplication
CHECK_DEADLOCK FALSE
