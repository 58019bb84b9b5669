CONSTANTS
    Threads = {t1, t2}
    NoThread = NoThread
    Interval = 1
    Cooldown = 2
    MaxRetries = 1
    MaxPages = 4
    MaxSize = 4
    MaxShares = 3
    Decimals = 10
    Prices <- MCPrices
    Symbols = {"a", "b"}
    Histories <- MCHistories
SPECIFICATION AnswersSpec
INVARIANTS
    ListingIsWhole
    WritesOnce
    WorkingIsNotTerminal
    PlansSurvive
    ExitsAreNotPricedOut
    RiskFiguresAreTrue
PROPERTIES
    StartsArePaced
    CallsEnd
CHECK_DEADLOCK FALSE
