SPECIFICATION Spec
CONSTANTS
    Payloads <- SatelliteCalls
    None = None
    MaxCalls = 2
    Backlog = 1
    MaxRestarts = 1
INVARIANTS
    TypeOK
    AcknowledgedIsListed
PROPERTIES
    ServiceImplemented
    Returns
    HandlersEnd
CHECK_DEADLOCK FALSE
