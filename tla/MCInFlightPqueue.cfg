SPECIFICATION MCSpec
CONSTANTS
    x1 = x1
    x2 = x2
    x3 = x3
    x4 = x4
    x5 = x5
    x6 = x6
    NoItem = NoItem
    Items = {x1, x2, x3, x4, x5, x6}
    Pris = {1, 2, 3}
    InitialCap = 1
    ShrinkAbove = 3
SYMMETRY Symmetry
INVARIANTS
    TypeOK
    IndexNamesPosition
    HeapOrdered
    CapSuffices
PROPERTIES
    ImplementsPriorityQueue
