CONSTANTS
    s1 = s1
    b1 = b1
    b2 = b2
    x1 = x1
    x2 = x2
    None = None
    Symbols = {s1}
    Buys = {b1}
    Sells = {x1}
    SymbolOf <- AllOnS1
    PositionOf <- OfB1
    LotSize <- TwoShares
    OffLadder = {}
    MaxUpsets = 0
    MaxExitRequotes = 0
SPECIFICATION Spec
INVARIANTS
    ResolvedIsBooked
