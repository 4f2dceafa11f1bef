\* tests/cluster.js: child.kill("SIGTERM"); await once(child, "exit").
SPECIFICATION Spec
CONSTANTS
    WorkerCount = 2
    MaxForks = 6
    MaxMasters = 2
INVARIANTS
    StopIsFinal
CHECK_DEADLOCK FALSE
