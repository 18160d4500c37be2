CONSTANTS
    MaxFlying = 3
    Regions = {"US", "CN"}
    Articles = {"a1", "a2"}
    Queries = {"q1", "q2"}
    Categories = {"all", "c1"}
    Funds = {"f1", "f2"}
    Symbols = {"s1", "s2"}
    Mainland = {"s2"}
    Details = {"stop"}
    Alerts = {"l1", "l2"}
    MaxAttempts = 2
    Tickers = {"t1", "t2"}
    Plans = {"p1", "p2"}
    MaxIds = 2
    MaxRefreshes = 2
    Stocks = {"t1", "t2"}
    Callers = {"scan", "stock"}
    MaxLoads = 3
    Calls = {"c1", "c2"}
    Providers = {"google", "openai", "deepseek", "dual"}
    Profiles = {"status", "paper"}
    Searches = {"q1", "q2"}
    Watched = {"s1", "s2"}
    Markets = {"CN", "US"}
    Tiers = {"IMMEDIATE", "EARLY"}
    Charted = {"s1", "s2"}
    Intervals = {"5", "D"}
    Slots = 3
    Drawn = {"s1", "s2"}
    Studies = {"MACD"}
    FeaturedUS = {"s1"}
    FeaturedCN = {"s2"}
    Disclosers = {"all", "a_share_top"}
    Dense = {"a_share_top"}
    Filters = {"all", "buy"}
    Slugs = {"w1", "w2"}
    Periods = {"Q1", "Q2"}
    Researched = {"s1", "s2"}
    MaxWire = 2
    MaxRequests = 2
    EvidenceRuns = {"e1", "e2"}
    AgentRuns = {"g1"}
    ArchivedRuns = {"u1"}
    Questions = {"k1", "k2"}
    MaxMessages = 4
    Routines = {"r1"}
    Editions = {"d1", "d2"}
    Trades = {"x1", "x2"}
    MaxMonth = 2
    Renters = {"runpod", "vast"}
    Models = {"h100"}
    Billings = {"hourly"}
    Spans = {7, 30}
    Archive = 2
    PerPage = 1
    Kinds = {"macro"}
    Presets = {"p1", "p2"}
    Typed = {"q1", "q2"}
    PulseRegions = {"US", "CN"}
    PulseCallers = {"h1", "h2"}
    MaxPulses = 3
SPECIFICATION Spec
INVARIANTS
    PagesShowOwn
    StaleIsMarked
    FailuresTold
    ChoicesFit
    DeskAnswersKnown
    ToldOnce
    CacheIsFresh
    AdminCallsRenewed
    PagesNeverStuck
PROPERTIES
    NotesReadKept
