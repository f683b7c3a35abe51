SPECIFICATION Spec
CONSTANTS
    c1 = c1
    c2 = c2
    Clients <- TwoClients
    MayFail = TRUE
    MayRekey = TRUE
    MayExpire = TRUE
    MayCrash = TRUE
    MayCrashLocked = TRUE
    MaxRuns = 3
INVARIANT HitIsGenuine
PROPERTY CallReturns
