SPECIFICATION Spec
CONSTANTS
    Self = "g1"
    Listing <- Chain
    IntMax = 2147483647
    NoLink = NoLink
    Garbage <- Rubbish
    Tick = 1
    MaxDistance = 1000
INVARIANTS
    TypeOK
    ShortestTree
    ShortestPaths
    NoSelfRelay
    HopsInRange
    GroundNeedsRelay
PROPERTIES
    IndexStable
    RouteTerminates
    EveryNodeGetsAnEntry
CHECK_DEADLOCK FALSE
