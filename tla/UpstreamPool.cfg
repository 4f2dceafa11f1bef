\* The client against an upstream that says "No block template yet" only to a login.
SPECIFICATION FairSpec
CONSTANTS
    Blobs = {b1, b2}
    PendingMethods <- PendingLogin
    MaxOutstanding = 2
INVARIANTS
    TypeOK
    NeverStranded
    TimerOnlyWhenDown
    UsableIsFresh
PROPERTIES
    ImplementsPoolFeed
    Recovers
\* A stopped client has nothing left to do.
CHECK_DEADLOCK FALSE
