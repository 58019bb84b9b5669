CONSTANTS
    p1 = p1
    p2 = p2
    p3 = p3
    NoOne = NoOne
    Callers = {p1, p2, p3}
    LockWait = 1
    Stale = 3
    Cooldown = 2
    Margin = 2
    Life = 4
    MaxHold = 1
    MaxCrashes = 2
SPECIFICATION CredSpec
INVARIANTS
    OneIssuerUnlessStolen
    CooldownIsKept
    TokenIsFresh
PROPERTIES
    DeadLockIsBroken
