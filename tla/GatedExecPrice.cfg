CONSTANTS
    OrderId = {1, 2, 3}
    Symbol = {"AAPL"}
    MaxPrice = 3
    MaxQty = 2
    MaxTime = 4
    Client = {1, 2, 3}
    Node = {n1, n2, n3}
    NoOrder = NoOrder
    OrderInput <- MCOrderInput
    ModifyInput <- MCModifyInput
    MaxTrades = 2
    MAX_PRICE = 2
    MAX_QUANTITY = 2
    MAX_ORDER_VALUE = 3
    MCTypes = {"Limit", "Market"}
    MCPrices = {1, 2}
    MCModifyPrices = {1, 2}
    MCModifyQtys = {1}
SPECIFICATION GatedSpec
SYMMETRY MCSymmetry
INVARIANT
    ExecAtRestingPrice
CHECK_DEADLOCK FALSE
