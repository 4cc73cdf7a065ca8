CONSTANTS
    buyer = buyer
    Worker = {w1, w2}
    Client = {buyer}
    Result <- MCResult
    MaxCalls = 1
SPECIFICATION Spec
INVARIANTS
    DeliveredInOrder
    CleanStopDelivers
PROPERTIES
    PublishReturns
    QueuesDrain
    PipelineStops
CHECK_DEADLOCK FALSE
