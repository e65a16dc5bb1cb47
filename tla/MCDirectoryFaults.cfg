SPECIFICATION Spec
CONSTANTS
    g = g
    s = s
    s2 = s2
    Proc = {s, s2}
    Satellites = {s}
    Addressed = {s}
    NameOf <- SameName
    AddrOf <- SameAddr
    Faults = {"failure", "timeout", "restart", "kill"}
    MaxFaults = 1
    MaxMoves = 1
INVARIANTS
    CacheDistinct
PROPERTIES
    QuitEndsWithTraffic
CHECK_DEADLOCK FALSE
