SPECIFICATION MCSpec
CONSTANTS
    N = 3
    Outputs = {1, 2}
    SyncModes = {"write", "interval", "close"}
    Threshold = 7
    MaxRecord = 1000
    MayTear = TRUE
    MayFail = TRUE
    MaxRuns = 2
    Processes = {p1, p2}
    MaxAppends = 3
    MaxFaults = 1
INVARIANTS RecoveredIsReal AckedSurvives SeqIncreases ChainVerifies
PROPERTY CompactionPreserves
