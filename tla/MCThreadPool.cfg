CONSTANTS
    Producer = {p1, p2, p3}
    Worker = {w1, w2}
    Main = Main
    Capacity = 2
    MaxSubmit = 2
SPECIFICATION FairSpec
INVARIANTS
    TypeOK
    NoLostWakeup
    NobodySleepsWhenClosed
    Drained
PROPERTIES
    AcceptedRuns
    SubmitReturns
    ShutdownReturns
CHECK_DEADLOCK FALSE
