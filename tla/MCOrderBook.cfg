CONSTANTS
    OrderId = {1, 2}
    Symbol = {"AAPL"}
    MaxPrice = 2
    MaxQty = 2
    MaxTime = 1
    Client = {1}
    Node = {n1, n2, n3}
    NoOrder = NoOrder
    OrderInput <- MCOrderInput
    ModifyInput <- MCModifyInput
    MaxTrades = 3
SPECIFICATION Spec
SYMMETRY MCSymmetry
INVARIANTS
    TypeOK
    LevelsWellFormed
    IndexSound
    NotCrossed
    TradesConserved
CHECK_DEADLOCK FALSE
