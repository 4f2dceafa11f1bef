\* A miner is moved to another pool while a share for its old job is on its way.
SPECIFICATION Spec
CONSTANTS
    Pools = {p1, p2}
    DefaultPool = p1
    DevPools = {}
    Miners = {m1}
    GrinMiners = {}
    NoPool = none
    Heights = {1}
    HeightLag = 0
    HeightSpan = 5
    MasterWindow = 2
    PastLimit = 1
    JobWindow = 1
    MayReject = FALSE
    MaxIssued = 2
    MaxDown = 3
    MaxUp = 2
INVARIANT
    ShareReachesItsPool
