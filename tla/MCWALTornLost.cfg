\* Two steps, no failing writes, no compaction, any torn tail.
SPECIFICATION MCSpec
CONSTANTS
    N = 2
    Outputs = {1, 2}
    SyncModes = {"write", "interval", "close"}
    Threshold = 1000
    MaxRecord = 1000
    MayTear = TRUE
    MayFail = FALSE
    MaxRuns = 3
    Processes = {p1, p2}
    MaxAppends = 0
    MaxFaults = 0
INVARIANT DurableSurvives
