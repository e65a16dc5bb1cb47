SPECIFICATION Spec
CONSTANTS
    g = g
    s = s
    s2 = s2
    Proc = {g}
    Satellites = {}
    Addressed = {}
    NameOf <- OwnName
    AddrOf <- OwnAddr
    Faults = {}
    MaxFaults = 0
    MaxMoves = 0
PROPERTIES
    QuitEnds
CHECK_DEADLOCK FALSE
