CONSTANTS
    f1 = f1
    p1 = p1
    p2 = p2
    Orders <- OneOrder
    Size = 2
    Callers <- TwoCallers
    FillIds <- OneName
    MaxTime = 1
    MaxCalls = 2
    MaxRestarts = 0
SPECIFICATION Spec
CHECK_DEADLOCK FALSE
INVARIANT FillSequenceReplays
