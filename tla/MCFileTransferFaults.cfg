SPECIFICATION Spec
CONSTANTS
    a = a
    b = b
    c = c
    t1 = t1
    t2 = t2
    t3 = t3
    NoTransfer = NoTransfer
    Partial = Partial
    Node = {a, b, c}
    Relays = {b}
    Transfer = {t1, t3}
    SourceOf <- From
    TargetOf <- To
    Size <- Sizes
    FragmentSize = 2
    Numbers = 65536
    SamePrefix <- OwnPrefix
    Hasty = FALSE
    MaxLosses = 2
    MaxCopies = 2
PROPERTIES
    AssembledWhole
CHECK_DEADLOCK FALSE
