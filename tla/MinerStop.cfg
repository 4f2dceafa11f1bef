\* Sockets that have not logged in when the worker stops.
SPECIFICATION Spec
CONSTANTS
    Sockets = {s1, s2}
    Identities = {a}
    Ports = 2
    MaxSessions = 2
    MaxUp = 2
INVARIANT
    NoMinerWhileDraining
CHECK_DEADLOCK FALSE
