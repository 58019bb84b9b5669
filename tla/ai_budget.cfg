CONSTANTS
    w1 = w1
    w2 = w2
    Workers = {w1, w2}
    MaxRetries = 1
    MaxProcessCalls = 7
    MaxDailyCalls = 3
    MaxProcessCost = 9
    MaxDailyCost = 4
    Estimate = 2
    MaxActual = 3
    MaxDays = 2
SPECIFICATION AISpec
INVARIANTS
    HeldIsInFlight
    SpendIsBounded
PROPERTIES
    DecideReturns
