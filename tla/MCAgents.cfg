SPECIFICATION MCSpec
CONSTANTS
    j1 = j1
    j2 = j2
    j3 = j3
    a1 = a1
    a2 = a2
    Jobs = {j1, j2, j3}
    Agents = {a1, a2}
    AgentOf <- MCAgentOf
    Driver <- MCDriver
    Goals = {"g1", "g2"}
    Siblings = {{j1}}
    MaxParallel = 2
    Threshold = 1
    MaxAttempts = 2
    MaxFaults = 1
    Tasks = {t1, t2}
    Stdin = Stdin
    MaxSize = 1
    InputCap = 1
    MaxStatus = 1
    MaxFires = 3
    MaxLines = 1
    Clients = {c1, c2, c3}
    MayFail = TRUE
    MayRekey = FALSE
    MayExpire = FALSE
    MayCrash = TRUE
    MayCrashLocked = FALSE
    MaxRuns = 3
INVARIANTS OwnedWhileRunning SavedNotRedone RestoredAnswersGoal StatusTracksLife
PROPERTIES ImplementsLedger DelegationsEnd TaskHandled SignalStops
