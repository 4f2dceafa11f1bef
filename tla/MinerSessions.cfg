\* Two sockets of one miner and up to two logins on them.
SPECIFICATION FairSpec
CONSTANTS
    Sockets = {s1, s2}
    Identities = {a}
    Ports = 1
    MaxSessions = 2
    MaxUp = 2
INVARIANTS
    TypeOK
    StatsAreSessions
PROPERTIES
    LiveSessionsKept
    PendingSettled
    GoneMinersReported
\* A stopped worker has nothing left to do.
CHECK_DEADLOCK FALSE
