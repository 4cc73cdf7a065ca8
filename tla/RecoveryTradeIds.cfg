CONSTANTS
    OrderId = {1, 2, 3, 4}
    Symbol = {"A", "B"}
    MaxPrice = 2
    MaxQty = 2
    MaxTime = 4
    Client = {0, 1, 2, 3, 4}
    Node = {n1, n2, n3, n4}
    NoOrder = NoOrder
    Worker = {w1, w2}
    Main = Main
    Workload <- MCTwoBooks
    MaxCrashes = 1
SPECIFICATION Spec
INVARIANT RecoveredTradeIds
CHECK_DEADLOCK FALSE
