SPECIFICATION Spec
CONSTANTS
    Self = "g1"
    Listing <- Chain
    IntMax = 2147483647
    NoLink = NoLink
    Garbage <- Rubbish
    Tick = 1
    MaxDistance = 1000
INVARIANT
    NextHopIsNext
CHECK_DEADLOCK FALSE
