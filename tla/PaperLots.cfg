\* A BUY of three shares and a SELL of two with two fills that clients name, one of
\* them perhaps with the id of a leg, or two such BUYs with one; or up to three
\* smaller orders, so two lots and a SELL, with one.
CONSTANTS
    c1 = c1
    c2 = c2
    c3 = c3
    f1 = f1
    ClientIds <- ThreeClients
    FillIds <- NamedIds
    Requests <- LotOrLotsAndSell
    Quotes <- StopAndTarget
    Instants <- TwoInstants
    StopPrice = 800
    TakeProfitPrice = 1200
    Slippage = 1
    MinimumFee = 100
    Tolerance = 1
    InitialCash = 10000
SYMMETRY ClientSymmetry
SPECIFICATION BoundedSpec
CHECK_DEADLOCK FALSE
PROPERTIES ImplementsTradeBook StaysFitted
INVARIANTS
    LedgerInv
    ReservationsBacked
    LedgerReplaysFills
    RowsAgreeWithFills
    ProtectionBacked
    NothingStuck
