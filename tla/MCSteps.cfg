SPECIFICATION MCSpec
CONSTANTS
    N = 4
    Text <- MCText
    Workflows <- MCWorkflows
    s1 = s1
    s2 = s2
    s3 = s3
    Stages = {s1, s2, s3}
    Pipelines <- MCPipelines
    MaxRetries = 1
    Items = {1, 2, 3}
    SubItems = {1, 2}
    Shapes <- MCShapes
    SagaSteps = {1, 2, 3}
    MaxCrashes = 2
INVARIANTS
    CycleIsReal
    BatchesAreLevels
    StageAfterDeps
    SlotsAccounted
    NothingLeftBehind
    RollbackComplete
PROPERTY FanOutReturns
