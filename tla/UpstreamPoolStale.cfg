\* The upstream may answer a getjob on a live session with "No block template yet".
SPECIFICATION Spec
CONSTANTS
    Blobs = {b1, b2}
    PendingMethods <- PendingLoginOrGetJob
    MaxOutstanding = 1
INVARIANT
    UsableIsFresh
CHECK_DEADLOCK FALSE
