\* Two pools that go up and down, one of them lagging at times.
SPECIFICATION FairSpec
CONSTANTS
    Pools = {p1, p2}
    DefaultPool = p1
    DevPools = {}
    Miners = {m1}
    GrinMiners = {}
    NoPool = none
    Heights = {1, 2}
    HeightLag = 0
    HeightSpan = 5
    MasterWindow = 2
    PastLimit = 1
    JobWindow = 1
    MayReject = TRUE
    MaxIssued = 2
    MaxDown = 3
    MaxUp = 1
INVARIANTS
    TypeOK
    MinersOnNewestWork
    UpPoolsAreActive
PROPERTIES
    FailoverIsComplete
    NotLeftOnInactivePool
