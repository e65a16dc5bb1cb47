SPECIFICATION Spec
CONSTANTS
    a = a
    b = b
    b2 = b2
    r = r
    Proc = {a, b, b2, r}
    Args <- CommandLines
    Number <- Numbers
    InetPton <- Loopback
    Senders = {a}
    Listed = {b, b2, r}
    Names = {"ground2"}
    Texts <- Hello
    Garbage <- Memory
    Damages <- Somewhere
    Bursts <- Everywhere
    DataSize = 3
    MaxCommands = 2
    MaxMessages = 2
    MaxFaults = 1
INVARIANTS
    TypeOK
    Genuine
    DamageIsContained
    SameRecipient
    BurstsAreDetected
    AnyOrderStarts
PROPERTY
    Arrives
CHECK_DEADLOCK FALSE
