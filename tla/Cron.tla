-------------------------------- MODULE Cron --------------------------------
(***************************************************************************)
(* The schedules of internal/scheduler/scheduler.go and the search for a   *)
(* schedule's next moment.  A moment is a minute, counted from the first   *)
(* one of the first year.  The calendar is a parameter: the lengths of the *)
(* hour, the day and the week, and the list of the days of a year.  Every  *)
(* year has the same days (no leap years) and there is one time zone.      *)
(***************************************************************************)
EXTENDS Integers, Sequences, FiniteSetsExt

CONSTANTS
    MinutesPerHour, HoursPerDay, DaysPerWeek,
    Year,   \* the days of a year in order, as records [month, day]
    Years   \* the number of years the search may look at

ASSUME CalendarAssumption ==
    /\ {MinutesPerHour, HoursPerDay, DaysPerWeek, Years} \subseteq Nat \ {0}
    /\ Year \in Seq([month : Nat \ {0}, day : Nat \ {0}]) /\ Year # <<>>
    /\ \A i, j \in DOMAIN Year : i < j => \/ Year[i].month < Year[j].month
                                          \/ Year[i].month = Year[j].month /\ Year[i].day < Year[j].day
    /\ \A i \in DOMAIN Year : (i = 1 \/ Year[i - 1].month # Year[i].month) => Year[i].day = 1

Moments == 0 .. Years * Len(Year) * HoursPerDay * MinutesPerHour - 1

MinuteOf(t) == t % MinutesPerHour

HourOf(t) == (t \div MinutesPerHour) % HoursPerDay

DayNumber(t) == (t \div MinutesPerHour) \div HoursPerDay

Date(t) == Year[(DayNumber(t) % Len(Year)) + 1]

YearOf(t) == DayNumber(t) \div Len(Year)

Weekday(t) == DayNumber(t) % DaysPerWeek

\* What parseCronExpr returns: the values allowed in each of the five fields.
Fields == [minute : SUBSET Nat, hour : SUBSET Nat, dayOfMonth : SUBSET Nat,
           month : SUBSET Nat, dayOfWeek : SUBSET Nat]

OnDay(schedule, t) ==
    /\ Date(t).month \in schedule.month
    /\ Date(t).day \in schedule.dayOfMonth
    /\ Weekday(t) \in schedule.dayOfWeek

\* The moments of a schedule.
Slot(schedule, t) ==
    /\ OnDay(schedule, t)
    /\ HourOf(t) \in schedule.hour
    /\ MinuteOf(t) \in schedule.minute

IsLeast(x, S) == x \in S /\ \A y \in S : x <= y

(***************************************************************************)
(* The five nested loops run over years, months, days, hours and minutes.  *)
(* Each inner one starts at the field of t, and t goes back to the start   *)
(* of its period only after the body of the loop ran once: so the day, the *)
(* hour and the minute of t are lower bounds in the first month, the first *)
(* day and the first hour whose bodies run, even if those are not the      *)
(* month, the day and the hour of t.  A new year resets them all.          *)
(***************************************************************************)
Candidates(schedule, t) ==
    LET slots == {u \in Moments : YearOf(u) >= YearOf(t) /\ Slot(schedule, u)}
        months == {month \in schedule.month : month >= Date(t).month}
        firstMonth(u) == YearOf(u) = YearOf(t) /\ IsLeast(Date(u).month, months)
        days == {DayNumber(u) : u \in {v \in Moments : /\ firstMonth(v)
                                                       /\ Date(v).day >= Date(t).day
                                                       /\ OnDay(schedule, v)}}
        hours == {hour \in schedule.hour : hour >= HourOf(t)}
        firstDay(u) == IsLeast(DayNumber(u), days)
        firstHour(u) == firstDay(u) /\ IsLeast(HourOf(u), hours)
    IN  {u \in slots : /\ YearOf(u) = YearOf(t) => Date(u).month >= Date(t).month
                       /\ firstMonth(u) => Date(u).day >= Date(t).day
                       /\ firstDay(u) => HourOf(u) >= HourOf(t)
                       /\ firstHour(u) => MinuteOf(u) >= MinuteOf(t)}

NextRunTime(schedule, from) == Min(Candidates(schedule, from + 1))

\* A schedule with a moment in the last year: the search always ends.
Satisfiable(schedule) == \E t \in Moments : YearOf(t) = Years - 1 /\ Slot(schedule, t)

\* Mutant: the minute of now is left out.
CountMissedBeforeNow(schedule, lastRun, now, limit) ==
    LET missed[t \in lastRun .. now] ==
            LET next == NextRunTime(schedule, t)
            IN  IF next >= now THEN 0 ELSE 1 + missed[next]
    IN  IF lastRun >= now THEN 0 ELSE Min({missed[lastRun], limit})

(***************************************************************************)
(* countMissedRuns: the slots up to now, found one after the other from    *)
(* the last run.  now lies inside its minute, after the slot of that       *)
(* minute.  The count stops at limit (MaxMissedRunCount).                  *)
(***************************************************************************)
CountMissedRuns(schedule, lastRun, now, limit) ==
    LET missed[t \in lastRun .. now] ==
            LET next == NextRunTime(schedule, t)
            IN  IF next > now THEN 0 ELSE 1 + missed[next]
    IN  IF lastRun >= now THEN 0 ELSE Min({missed[lastRun], limit})
=============================================================================
