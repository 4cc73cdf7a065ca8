CONSTANTS
    Producer = {p1, p2, p3}
    Node = {1, 2, 3, 4}
    Null = Null
    MaxSend = 1
SPECIFICATION FairSpec
INVARIANTS
    FileIsPrefix
    CleanStopKeepsAll
PROPERTIES
    LoggedIsWritten
    LogReturns
    StopReturns
CHECK_DEADLOCK FALSE
