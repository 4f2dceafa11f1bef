\* Two pools, many templates, miners moved between them: do the windows fit together?
SPECIFICATION Spec
CONSTANTS
    Pools = {p1, p2}
    DefaultPool = p1
    DevPools = {}
    Miners = {m1}
    GrinMiners = {m1}
    NoPool = none
    Heights = {1, 2}
    HeightLag = 0
    HeightSpan = 5
    MasterWindow = 3
    PastLimit = 1
    JobWindow = 2
    MayReject = FALSE
    MaxIssued = 4
    MaxDown = 2
    MaxUp = 1
INVARIANTS
    ShareFound
    RecentTemplatesKept
    NoWorkWithheld
