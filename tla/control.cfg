CONSTANTS
    p1 = p1
    p2 = p2
    None = None
    Procs = {p1, p2}
    MaxBatch = 1
    CycleOrders <- P1Trades
    MaxUpdates = 1
    MaxReplays = 1
SPECIFICATION ServiceFairSpec
INVARIANTS
    StopIsObeyed
    OneResumePerChallenge
PROPERTIES
    StopSettles
