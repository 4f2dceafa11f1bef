\* A worker asks for the pools after one of them went down.
SPECIFICATION Spec
CONSTANTS
    Pools = {p1, p2}
    DefaultPool = p1
    DevPools = {}
    Miners = {m1}
    GrinMiners = {}
    NoPool = none
    Heights = {1}
    HeightLag = 0
    HeightSpan = 5
    MasterWindow = 2
    PastLimit = 1
    JobWindow = 1
    MayReject = FALSE
    MaxIssued = 2
    MaxDown = 3
    MaxUp = 1
INVARIANT
    NoStaleWork
