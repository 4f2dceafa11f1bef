\* Two pools; a retarget may ask for less than the minimum, more than the maximum,
\* and more than a target.
SPECIFICATION Spec
CONSTANTS
    Pools = {p1, p2}
    Targets = {1, 5}
    PortDiffs = {1, 4}
    Speeds = {0, 2, 9}
    ShareTime = 2
    MinDiff = 1
    MaxDiff = 6
    JobWindow = 2
    PastLimit = 1
    MaxTemplates = 4
INVARIANTS
    JobWithinTarget
    DifficultyInForce
    NoDrift
