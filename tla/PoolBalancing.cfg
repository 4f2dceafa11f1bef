\* Five pools, one of them a backup and two the developer's, and three miners.
SPECIFICATION Spec
CONSTANTS
    dev = dev
    dev0 = dev0
    p1 = p1
    p2 = p2
    backup = backup
    m1 = m1
    m2 = m2
    m3 = m3
    Pools <- FivePools
    DevPool = dev
    EarlierDevPools = {dev0}
    Share <- Shares
    DeveloperShare = 25
    Fleet <- ThreeMiners
    Rates = {0, 1, 5}
    TakeDonorsAbove = 2
    EnoughBelow = 1
INVARIANTS
    TypeOK
    DeadPoolsEmptied
PROPERTIES
    NeverWorse
    MovesAreUseful
    SharesRespected
