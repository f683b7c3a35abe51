\* Three roots and a join of two of them, executed by two processes in turn.
CONSTANTS
    N = 4
    Deps <- MCDepsFork
    Conditional = {1}
    Evaluated = {3}
    Recoverable = {0}
    ContinueOnError = {1}
    MaxConcurrency = 2
    MayShutdown = TRUE
    MaySaveFail = TRUE
    MaxRuns = 2
SPECIFICATION FairSpec
INVARIANTS
    DepsBeforeDispatch
    InputsAreFinal
    EndIsComplete
    AbortIsFirstInOrder
PROPERTIES
    NoRerun
    RunEnds
