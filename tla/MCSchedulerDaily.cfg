\* A task with one slot a day, added in the hour before it.
CONSTANTS
    MinutesPerHour = 2
    HoursPerDay = 2
    DaysPerWeek = 2
    Year <- MCYear
    Years = 2
    Ids = {"a"}
    Schedules <- MCDaily
    MaxRetries <- MCRetries
    MaxMissedRunCount = 2
    MayLoadFail = FALSE
    MaySaveFail = FALSE
    MaxNow = 4
    MaxBoots = 1
SPECIFICATION Spec
INVARIANT NoSlotSkipped
