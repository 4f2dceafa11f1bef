\* A miner logs in again on a live socket.
SPECIFICATION Spec
CONSTANTS
    Sockets = {s1, s2}
    Identities = {a}
    Ports = 1
    MaxSessions = 2
    MaxUp = 2
INVARIANT
    DisconnectedAreRemoved
CHECK_DEADLOCK FALSE
