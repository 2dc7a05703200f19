SPECIFICATION MCSpec
CONSTANTS
    k1 = k1
    k2 = k2
    u1 = u1
    u2 = u2
    r1 = r1
    r2 = r2
    Keys = {k1, k2}
    Requests = {r1, r2}
    Uploads = {u1, u2}
    Size <- MCSize
    OnDisk = {k1}
    NoData = NoData
    NoKey = NoKey
INVARIANT TypeOK
INVARIANT WakeupMeansAsset
INVARIANT SizeNeverUnderReported
PROPERTY RefinesAssetService
PROPERTY EveryRequestEnds
PROPERTY StoppedProxyReleased
CHECK_DEADLOCK FALSE
