SPECIFICATION Spec
CONSTANTS
    c1 = c1
    c2 = c2
    Clients <- TwoClients
    MayFail = FALSE
    MayRekey = FALSE
    MayExpire = TRUE
    MayCrash = FALSE
    MayCrashLocked = FALSE
    MaxRuns = 3
INVARIANT AtMostOneRun
