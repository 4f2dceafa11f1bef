\* Two workers, two upstream jobs, four jobs handed out.
SPECIFICATION Spec
CONSTANTS
    Workers = {w1, w2}
    Solo = FALSE
    MasterWindow = 2
    PastLimit = 1
    Nonces = {n1}
    MaxJobs = 2
    MaxHanded = 4
    MaxIssued = 4
    MaxQueue = 1
SYMMETRY WorkerSymmetry
INVARIANTS
    TypeOK
    DistinctWork
    ShareReconstructed
    CountedOnce
