CONSTANTS
    p1 = p1
    p2 = p2
    c1 = c1
    c2 = c2
    x1 = x1
    x2 = x2
    Processes <- TwoProcesses
    Calls <- TwoCalls
    Ids <- OneId
    MaxSystem = 0
    MaxBoots = 1
SPECIFICATION Spec
PROPERTY OnlyEndedReconciled
CHECK_DEADLOCK FALSE
