\* Two tasks, two processes of the daemon in turn.
CONSTANTS
    MinutesPerHour = 2
    HoursPerDay = 2
    DaysPerWeek = 2
    Year <- MCYear
    Years = 2
    Ids = {"a", "b"}
    Schedules <- MCSchedules
    MaxRetries <- MCRetries
    MaxMissedRunCount = 2
    MayLoadFail = TRUE
    MaySaveFail = TRUE
    MaxNow = 4
    MaxBoots = 2
SPECIFICATION FairSpec
PROPERTIES
    EachRunHasItsSlot
    MissedCountIsExact
    StopReturns
