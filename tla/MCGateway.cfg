CONSTANTS
    c1 = c1
    c2 = c2
    Client <- MCClient
    None = None
    Capacity = 1
    MaxReports = 2
    Workload <- MCWorkload
SPECIFICATION Spec
INVARIANTS
    StreamWhole
    BufferAlive
    PoolTakesAll
PROPERTIES
    Answered
    DisconnectNoticed
    ShutdownEnds
CHECK_DEADLOCK FALSE
