CONSTANTS
    f1 = f1
    p1 = p1
    p2 = p2
    Orders <- TwoOrders
    Size = 2
    Callers <- TwoCallers
    FillIds <- NamesFirst
    MaxTime = 0
    MaxCalls = 3
    MaxRestarts = 1
SYMMETRY Symmetry
SPECIFICATION Spec
CHECK_DEADLOCK FALSE
INVARIANTS
    TypeOK
    NeverOverfilled
    FillsOnce
    CancelledStaysCancelled
    ReplaysAreReal
