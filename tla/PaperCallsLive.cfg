CONSTANTS
    f1 = f1
    p1 = p1
    p2 = p2
    Orders <- TwoOrders
    Size = 2
    Callers <- OneCaller
    FillIds <- NamesSecond
    MaxTime = 1
    MaxCalls = 2
    MaxRestarts = 1
SPECIFICATION Spec
CHECK_DEADLOCK FALSE
PROPERTY StopsEventuallyFire
