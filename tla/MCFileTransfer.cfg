SPECIFICATION Spec
CONSTANTS
    a = a
    b = b
    c = c
    t1 = t1
    t2 = t2
    t3 = t3
    NoTransfer = NoTransfer
    Partial = Partial
    Node = {a, b, c}
    Relays = {b}
    Transfer = {t1, t2, t3}
    SourceOf <- From
    TargetOf <- To
    Size <- Sizes
    FragmentSize = 2
    Numbers = 65536
    SamePrefix <- OwnPrefix
    Hasty = FALSE
    MaxLosses = 0
    MaxCopies = 0
INVARIANTS
    TypeOK
    NothingLeftBehind
PROPERTIES
    FilesAreDelivered
CHECK_DEADLOCK FALSE
