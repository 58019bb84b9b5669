CONSTANTS
    s1 = s1
    s2 = s2
    Symbols = {s1}
    MaxPositions = 1
    MaxOrdersPerSymbol = 2
    Lifetime = 2
    TextLag = 540
    MaxTime = 3
    MaxCrashes = 1
SPECIFICATION EntrySpec
INVARIANTS
    ApprovedOrdersOnly
    OutcomeIsTrue
