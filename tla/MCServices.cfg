SPECIFICATION MCSpec
CONSTANTS
    ProviderList <- TheProviders
    Priority <- ThePriority
    CostPer1K <- TheCost
    QuotaDaily <- TheQuota
    Keyless = {"p1"}
    Calls = {c1, c2}
    Strategies = {"priority"}
    Tokens = {1}
    MaxRetry = 2
    FailureThreshold = 2
    OpenTimeout = 1
    HalfOpenMaxRequests = 1
    WindowSize = 1
    DayLength = 2
    MaxTime = 2
    MaxExecutes = 2
    MaxCrashes = 1
    Callers = {c1, c2}
    Keys = {"x", "y"}
    MaxEntries = 1
    TTL = 1
    MaxClock = 2
    MaxRequests = 5
    Deliveries = {d1, d2}
    Handlers = {c1, c2}
    MaxReq = 2
    Limit = 1
    MaxTasks = 1
    MaxSends = 4
    MaxExpiries = 2
    Resumers = {c1, c2}
    Cli = cli
    LastStep = 2
    MaxRuns = 2
    MaxResumes = 3
    MaxServerCrashes = 1
INVARIANTS
    OverspendBounded
    OpenBreakerShields
    ServedIsFresh
    OncePerDelivery
    StopSettles
    NothingPassedOver
    NoStepTwice
    ResumedIsOwned
PROPERTY PersistedNeverShrinks
SYMMETRY Symmetry
CHECK_DEADLOCK FALSE
