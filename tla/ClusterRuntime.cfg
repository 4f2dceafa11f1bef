\* Two workers; reloads, crashes and a stop in every order.
SPECIFICATION FairSpec
CONSTANTS
    WorkerCount = 2
    MaxForks = 8
    MaxMasters = 3
INVARIANTS
    TypeOK
    NeverShort
    ServingIsAttached
    OneMasterRuns
PROPERTIES
    Completes
\* A stopped proxy whose workers have exited has nothing left to do.
CHECK_DEADLOCK FALSE
