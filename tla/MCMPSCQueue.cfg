CONSTANTS
    Producer = {p1, p2, p3}
    Node = {n1, n2, n3, n4}
    Null = Null
    MaxSend = 2
SPECIFICATION MPSCSpec
SYMMETRY MCSymmetry
INVARIANTS
    TypeOK
    NoUseAfterFree
PROPERTIES
    FifoAtExchange
