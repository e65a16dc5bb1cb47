SPECIFICATION Spec
CONSTANTS
    Self = "s2"
    Listing <- Moving
    IntMax = 400000
    NoLink = NoLink
    Garbage <- Rubbish
    Tick = 1
    MaxDistance = 260
INVARIANT
    ShortestPaths
PROPERTIES
    FreshTable
CHECK_DEADLOCK FALSE
