SPECIFICATION Spec
CONSTANTS
    g = g
    s = s
    s2 = s2
    Proc = {g, s}
    Satellites = {s}
    Addressed = {}
    NameOf <- OwnName
    AddrOf <- OwnAddr
    Faults = {}
    MaxFaults = 0
    MaxMoves = 1
INVARIANTS
    TypeOK
    SessionIsListed
    GoneStaysGone
    SourceIsKnown
PROPERTIES
    PositionsNeverGoBack
    RunsUntilQuit
    PositionsConverge
CHECK_DEADLOCK FALSE
