CONSTANTS
    s1 = s1
    s2 = s2
    None = None
    Symbols = {s1}
    Prices = {1, 2}
    PerMinute = 2
    Lookback = 3
    MaxReconnects = 1
    MaxLag = 1
    MaxTime = 5
    MaxTicks = 3
    MaxCrashes = 1
SPECIFICATION FeedSpec
INVARIANTS
    BarsAreWhole
    BarsAreOver
PROPERTIES
    BarsHeal
