CONSTANTS
    c1 = c1
    c2 = c2
    c3 = c3
    f1 = f1
    ClientIds <- TwoClients
    FillIds <- OneName
    Requests <- LotAndSell
    Quotes <- StopAndTarget
    Instants <- OneInstant
    StopPrice = 800
    TakeProfitPrice = 1200
    Slippage = 1
    MinimumFee = 100
    Tolerance = 1
    InitialCash = 10000
SYMMETRY ClientSymmetry
SPECIFICATION Spec
CHECK_DEADLOCK FALSE
INVARIANT OcoGroupEndsWithFill
