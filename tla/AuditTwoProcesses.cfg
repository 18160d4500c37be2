CONSTANTS
    p1 = p1
    p2 = p2
    c1 = c1
    c2 = c2
    x1 = x1
    x2 = x2
    Processes <- TwoProcesses
    Calls <- TwoCalls
    Ids <- TwoIds
    MaxSystem = 1
    MaxBoots = 2
SYMMETRY Symmetry
SPECIFICATION Spec
INVARIANTS AuditInv ChainVerifies AnswersAreRecorded HandlerRunsOnce LeftoversClosed
PROPERTY ClosedIsFinal
CHECK_DEADLOCK FALSE
