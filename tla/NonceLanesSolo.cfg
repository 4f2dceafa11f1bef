\* Jobs of an upstream that names no place for a pool nonce.
SPECIFICATION Spec
CONSTANTS
    Workers = {w1, w2}
    Solo = TRUE
    MasterWindow = 2
    PastLimit = 1
    Nonces = {n1}
    MaxJobs = 2
    MaxHanded = 4
    MaxIssued = 4
    MaxQueue = 1
INVARIANTS
    DistinctWork
