-------------------------- MODULE SchedulerProofs ---------------------------
(***************************************************************************)
(* Work that is taken up again after a crash: the calendar and the search  *)
(* for the next run, the scheduler with its last-run file, and delegated   *)
(* jobs with their sidecar file.                                           *)
(***************************************************************************)
EXTENDS Scheduler, Delegation, FiniteSetTheorems, TLAPS

-----------------------------------------------------------------------------
(* Numbers *)

\* Every nonempty set of natural numbers has a least element.
LEMMA LeastNatural ==
    ASSUME NEW T \in SUBSET Nat, T # {}
    PROVE  \E x \in T : \A y \in T : x <= y
<1> DEFINE R == OpToRel(<, Nat)
<1>1. IsWellFoundedOn(R, Nat)
    BY Zenon, NatLessThanWellFounded
<1>2. \A x, y \in Nat : x < y => <<x, y>> \in R
    BY DEF OpToRel
<1> HIDE DEF R
<1>3. PICK x \in T : \A y \in T : ~(<<y, x>> \in R)
    BY Zenon, <1>1, WFMin
<1>4. \A y \in T : ~(y < x)
    BY Zenon, <1>2, <1>3
<1> QED BY <1>3, <1>4

-----------------------------------------------------------------------------
(* The calendar and the search for the next run                            *)

\* Division: the quotient and the remainder.
LEMMA Division ==
    ASSUME NEW a \in Nat, NEW c \in Nat \ {0}
    PROVE  /\ a \div c \in Nat /\ a % c \in 0 .. c - 1
           /\ a = c * (a \div c) + (a % c)
OBVIOUS

\* A quotient does not decrease, and in the same period the remainder does not.
LEMMA DivisionOrder ==
    ASSUME NEW a \in Nat, NEW b \in Nat, NEW c \in Nat \ {0}, a <= b
    PROVE  /\ a \div c <= b \div c
           /\ a \div c = b \div c => a % c <= b % c
           /\ a \div c = b \div c /\ a < b => a % c < b % c
<1>1. PICK q \in Nat, r \in Nat : q = a \div c /\ r = a % c /\ r < c /\ a = c * q + r
  BY Division
<1>2. PICK s \in Nat, t \in Nat : s = b \div c /\ t = b % c /\ t < c /\ b = c * s + t
  BY Division
<1>3. q <= s
  <2> SUFFICES ASSUME q >= s + 1 PROVE FALSE OBVIOUS
  <2>1. PICK d \in Nat : q = s + 1 + d OBVIOUS
  <2>2. c * q = c * s + c + c * d BY <2>1
  <2>3. c * d \in Nat /\ c * s \in Nat OBVIOUS
  <2> QED BY <1>1, <1>2, <2>2, <2>3
<1> QED BY <1>1, <1>2, <1>3

\* The next number is in the same period, or at the start of the next one.
LEMMA DivisionNext ==
    ASSUME NEW a \in Nat, NEW c \in Nat \ {0}
    PROVE  \/ (a + 1) \div c = a \div c
           \/ (a + 1) \div c = a \div c + 1 /\ (a + 1) % c = 0
<1>0. PICK b \in Nat : b = a + 1 /\ a <= b
  OBVIOUS
<1>1. PICK q \in Nat, r \in Nat : q = a \div c /\ r = a % c /\ r < c /\ a = c * q + r
  <2>1. a \div c \in Nat /\ a % c \in 0 .. c - 1 /\ a = c * (a \div c) + (a % c) BY Zenon, Division
  <2>2. a % c \in Nat /\ a % c < c BY <2>1
  <2> QED BY Zenon, <2>1, <2>2
<1>2. PICK s \in Nat, t \in Nat : s = b \div c /\ t = b % c /\ t < c /\ b = c * s + t
  <2>1. b \div c \in Nat /\ b % c \in 0 .. c - 1 /\ b = c * (b \div c) + (b % c) BY Zenon, Division
  <2>2. b % c \in Nat /\ b % c < c BY <2>1
  <2> QED BY Zenon, <2>1, <2>2
<1>3. q <= s
  BY Zenon, <1>0, <1>1, <1>2, DivisionOrder
<1>4. CASE s >= q + 1
  <2>1. PICK d \in Nat : s = q + 1 + d BY <1>4
  <2>2. c * s = c * q + c + c * d BY <2>1
  <2>3. c * d \in Nat /\ c * q \in Nat OBVIOUS
  <2>4. c * d = 0 /\ t = 0 BY <1>0, <1>1, <1>2, <2>2, <2>3
  <2>5. d = 0 BY <2>4
  <2> QED BY <1>0, <1>1, <1>2, <2>1, <2>4, <2>5
<1> QED BY <1>0, <1>1, <1>2, <1>3, <1>4

\* The fields of a moment.
LEMMA MomentFields ==
    ASSUME NEW t \in Nat
    PROVE  /\ t \div MinutesPerHour \in Nat /\ DayNumber(t) \in Nat /\ YearOf(t) \in Nat
           /\ HourOf(t) \in Nat /\ MinuteOf(t) \in Nat /\ Len(Year) \in Nat \ {0}
           /\ (DayNumber(t) % Len(Year)) + 1 \in DOMAIN Year
           /\ Date(t).month \in Nat \ {0} /\ Date(t).day \in Nat \ {0}
<1>1. /\ MinutesPerHour \in Nat \ {0} /\ HoursPerDay \in Nat \ {0}
      /\ Year \in Seq([month : Nat \ {0}, day : Nat \ {0}]) /\ Year # <<>>
  BY Zenon, CalendarAssumption
<1>2. PICK n \in Nat \ {0} : n = Len(Year) /\ DOMAIN Year = 1 .. n
  BY <1>1
<1>3. PICK k \in Nat : k = t \div MinutesPerHour
  BY Zenon, <1>1, Division
<1>4. /\ DayNumber(t) \in Nat /\ HourOf(t) \in Nat /\ MinuteOf(t) \in Nat
  <2>1. k \div HoursPerDay \in Nat /\ k % HoursPerDay \in 0 .. HoursPerDay - 1
    BY Zenon, <1>1, Division
  <2>2. t % MinutesPerHour \in 0 .. MinutesPerHour - 1
    BY Zenon, <1>1, Division
  <2>3. k % HoursPerDay \in Nat /\ t % MinutesPerHour \in Nat
    BY <1>1, <2>1, <2>2
  <2> QED BY Zenon, <1>3, <2>1, <2>3 DEF DayNumber, HourOf, MinuteOf
<1>5. PICK d \in Nat : d = DayNumber(t)
  BY Zenon, <1>4
<1>6. d \div n \in Nat /\ d % n \in 0 .. n - 1
  BY Zenon, Division
<1>7. YearOf(t) \in Nat /\ (d % n) + 1 \in DOMAIN Year
  <2>1. YearOf(t) = d \div n BY Zenon, <1>2, <1>5 DEF YearOf
  <2>2. (d % n) + 1 \in 1 .. n BY <1>6
  <2> QED BY Zenon, <1>2, <1>6, <2>1, <2>2
<1>8. Year[(d % n) + 1] \in [month : Nat \ {0}, day : Nat \ {0}]
  <2>1. PICK i \in 1 .. n : i = (d % n) + 1 BY Zenon, <1>2, <1>7
  <2> DEFINE D == [month : Nat \ {0}, day : Nat \ {0}]
  <2>2. Year \in Seq(D) BY Zenon, <1>1
  <2> HIDE DEF D
  <2>3. Year[i] \in D BY <1>2, <2>2
  <2> QED BY Zenon, <2>1, <2>3 DEF D
<1>9. Date(t).month \in Nat \ {0} /\ Date(t).day \in Nat \ {0}
  BY Zenon, <1>2, <1>5, <1>8 DEF Date
<1> QED BY Zenon, <1>2, <1>3, <1>4, <1>5, <1>7, <1>9

\* The months and the days of a month follow each other in a year.
LEMMA LaterDay ==
    ASSUME NEW u \in Nat, NEW v \in Nat, DayNumber(u) <= DayNumber(v)
    PROVE  /\ YearOf(u) <= YearOf(v)
           /\ YearOf(u) = YearOf(v) => \/ Date(u).month < Date(v).month
                                       \/ Date(u).month = Date(v).month /\ Date(u).day <= Date(v).day
           /\ (YearOf(u) = YearOf(v) /\ DayNumber(u) < DayNumber(v))
                => \/ Date(u).month < Date(v).month
                   \/ Date(u).month = Date(v).month /\ Date(u).day < Date(v).day
<1>1. PICK d \in Nat, e \in Nat, n \in Nat \ {0} : d = DayNumber(u) /\ e = DayNumber(v) /\ n = Len(Year) /\ d <= e
  BY Zenon, MomentFields
<1>2. YearOf(u) = d \div n /\ YearOf(v) = e \div n /\ Date(u) = Year[(d % n) + 1] /\ Date(v) = Year[(e % n) + 1]
  BY Zenon, <1>1 DEF YearOf, Date
<1>3. PICK i \in DOMAIN Year, j \in DOMAIN Year : i = (d % n) + 1 /\ j = (e % n) + 1
  BY Zenon, <1>1, MomentFields
<1>4. d % n \in Nat /\ e % n \in Nat
  BY Division
<1>5. d \div n <= e \div n /\ (d \div n = e \div n => i <= j) /\ (d \div n = e \div n /\ d < e => i < j)
  <2>1. /\ d \div n <= e \div n /\ (d \div n = e \div n => d % n <= e % n)
        /\ (d \div n = e \div n /\ d < e => d % n < e % n)
    BY Zenon, <1>1, DivisionOrder
  <2> QED BY <2>1, <1>3, <1>4
<1>6. i < j => \/ Year[i].month < Year[j].month
               \/ Year[i].month = Year[j].month /\ Year[i].day < Year[j].day
  BY Zenon, CalendarAssumption
<1>7. i \in Nat /\ j \in Nat /\ Date(u) = Year[i] /\ Date(v) = Year[j]
  BY <1>2, <1>3, <1>4
<1>8. /\ Date(u).month \in Nat /\ Date(u).day \in Nat /\ Date(v).month \in Nat /\ Date(v).day \in Nat
  BY Zenon, MomentFields
<1>9. i = j => Date(u).month = Date(v).month /\ Date(u).day <= Date(v).day
  BY <1>7, <1>8
<1> QED BY <1>1, <1>2, <1>5, <1>6, <1>7, <1>8, <1>9

\* The moments of a day share its date.
LEMMA SameDay ==
    ASSUME NEW u, NEW v, DayNumber(u) = DayNumber(v)
    PROVE  YearOf(u) = YearOf(v) /\ Date(u) = Date(v) /\ Weekday(u) = Weekday(v)
BY Zenon DEF YearOf, Date, Weekday

\* The hours of a day and the minutes of an hour follow each other.
LEMMA LaterMoment ==
    ASSUME NEW u \in Nat, NEW v \in Nat, u <= v
    PROVE  /\ DayNumber(u) <= DayNumber(v)
           /\ DayNumber(u) = DayNumber(v) => HourOf(u) <= HourOf(v)
           /\ DayNumber(u) = DayNumber(v) /\ HourOf(u) = HourOf(v) => MinuteOf(u) <= MinuteOf(v)
           /\ DayNumber(u) = DayNumber(v) /\ HourOf(u) = HourOf(v) /\ u < v => MinuteOf(u) < MinuteOf(v)
<1>1. PICK m \in Nat \ {0}, h \in Nat \ {0} : m = MinutesPerHour /\ h = HoursPerDay
  BY Zenon, CalendarAssumption
<1>2. PICK p \in Nat, q \in Nat : p = u \div m /\ q = v \div m
  BY Zenon, <1>1, MomentFields
<1>3. p <= q /\ (p = q => u % m <= v % m) /\ (p = q /\ u < v => u % m < v % m)
  BY Zenon, <1>1, <1>2, DivisionOrder
<1>4. p \div h <= q \div h /\ (p \div h = q \div h => p % h <= q % h) /\ (p \div h = q \div h /\ p < q => p % h < q % h)
  BY Zenon, <1>1, <1>2, <1>3, DivisionOrder
<1>5. p % h \in Nat /\ q % h \in Nat
  BY Division
<1>6. p \div h = q \div h /\ p % h = q % h => p = q
  BY <1>3, <1>4, <1>5
<1>7. /\ DayNumber(u) = p \div h /\ DayNumber(v) = q \div h /\ HourOf(u) = p % h /\ HourOf(v) = q % h
      /\ MinuteOf(u) = u % m /\ MinuteOf(v) = v % m
  BY Zenon, <1>1, <1>2 DEF DayNumber, HourOf, MinuteOf
<1> QED BY Zenon, <1>3, <1>4, <1>6, <1>7

\* A new day begins at its first minute, a new hour at its first minute, and a
\* new month or year with a first day.
LEMMA NextMoment ==
    ASSUME NEW t \in Nat
    PROVE  /\ DayNumber(t + 1) # DayNumber(t) => HourOf(t + 1) = 0 /\ MinuteOf(t + 1) = 0
           /\ HourOf(t + 1) # HourOf(t) => MinuteOf(t + 1) = 0
           /\ (YearOf(t + 1) # YearOf(t) \/ Date(t + 1).month # Date(t).month) => Date(t + 1).day = 1
<1>1. PICK m \in Nat \ {0}, h \in Nat \ {0} : m = MinutesPerHour /\ h = HoursPerDay
  BY Zenon, CalendarAssumption
<1>2. PICK v \in Nat : v = t + 1
  OBVIOUS
<1>3. PICK p \in Nat, q \in Nat : p = t \div m /\ q = v \div m
  BY Zenon, <1>1, MomentFields
<1>4. q = p \/ (q = p + 1 /\ v % m = 0)
  BY Zenon, <1>2, <1>3, DivisionNext
<1>5. (p + 1) \div h = p \div h \/ ((p + 1) \div h = p \div h + 1 /\ (p + 1) % h = 0)
  BY Zenon, DivisionNext
<1>6. /\ DayNumber(t) = p \div h /\ DayNumber(v) = q \div h /\ HourOf(t) = p % h /\ HourOf(v) = q % h
      /\ MinuteOf(t) = t % m /\ MinuteOf(v) = v % m
  BY Zenon, <1>1, <1>3 DEF DayNumber, HourOf, MinuteOf
<1>7. PICK d \in Nat, e \in Nat, n \in Nat \ {0} : d = DayNumber(t) /\ e = DayNumber(v) /\ n = Len(Year)
  BY Zenon, MomentFields
<1>8. e = d \/ e = d + 1
  BY Zenon, <1>4, <1>5, <1>6, <1>7
<1>9. ASSUME YearOf(v) # YearOf(t) \/ Date(v).month # Date(t).month PROVE Date(v).day = 1
  <2>1. e # d
    BY Zenon, <1>7, <1>9, SameDay
  <2>2. e = d + 1
    BY Zenon, <1>8, <2>1
  <2>3. (d + 1) \div n = d \div n \/ (d + 1) % n = 0
    BY Zenon, DivisionNext
  <2>4. YearOf(t) = d \div n /\ YearOf(v) = e \div n /\ Date(t) = Year[(d % n) + 1] /\ Date(v) = Year[(e % n) + 1]
    BY Zenon, <1>7 DEF YearOf, Date
  <2>5. PICK i \in DOMAIN Year, j \in DOMAIN Year : i = (d % n) + 1 /\ j = (e % n) + 1
    BY Zenon, <1>7, MomentFields
  <2>6. j = 1 \/ Year[j - 1].month # Year[j].month => Year[j].day = 1
    BY Zenon, CalendarAssumption
  <2>7. CASE j = 1
    BY Zenon, <2>4, <2>5, <2>6, <2>7
  <2>8. CASE j # 1
    <3>1. d % n \in Nat /\ e % n \in Nat /\ d % n < n /\ e % n < n
      BY Division
    <3>2. d = n * (d \div n) + (d % n) /\ e = n * (e \div n) + (e % n)
      BY Zenon, Division
    <3>3. e % n # 0
      BY <2>5, <2>8
    <3>4. e \div n = d \div n
      BY Zenon, <2>2, <2>3, <3>3
    <3>5. e % n = (d % n) + 1
      BY <3>1, <3>2, <3>4, <2>2
    <3>6. j - 1 = i
      BY <2>5, <3>1, <3>5
    <3>7. Year[i].month # Year[j].month
      BY Zenon, <1>9, <2>4, <2>5, <3>4
    <3> QED BY Zenon, <2>4, <2>5, <2>6, <3>6, <3>7
  <2> QED BY Zenon, <2>7, <2>8
<1>10. e # d => HourOf(v) = 0 /\ MinuteOf(v) = 0
  BY Zenon, <1>4, <1>5, <1>6, <1>7
<1>11. HourOf(v) # HourOf(t) => MinuteOf(v) = 0
  BY Zenon, <1>4, <1>6
<1> QED BY Zenon, <1>2, <1>7, <1>9, <1>10, <1>11

\* The months from that of t on, the first of them, the days on which the search
\* for the first day may end, and the first day and hour.
MonthsFrom(schedule, t) == {month \in schedule.month : month >= Date(t).month}
InFirstMonth(schedule, t, u) == YearOf(u) = YearOf(t) /\ IsLeast(Date(u).month, MonthsFrom(schedule, t))
DaysFrom(schedule, t) ==
    {DayNumber(u) : u \in {v \in Moments : /\ InFirstMonth(schedule, t, v)
                                           /\ Date(v).day >= Date(t).day
                                           /\ OnDay(schedule, v)}}
OnFirstDay(schedule, t, u) == IsLeast(DayNumber(u), DaysFrom(schedule, t))
InFirstHour(schedule, t, u) ==
    OnFirstDay(schedule, t, u) /\ IsLeast(HourOf(u), {hour \in schedule.hour : hour >= HourOf(t)})

\* What the search for the next moment may find.
LEMMA CandidateIs ==
    ASSUME NEW schedule, NEW t, NEW u
    PROVE  u \in Candidates(schedule, t) <=>
              /\ u \in Moments /\ YearOf(u) >= YearOf(t) /\ Slot(schedule, u)
              /\ YearOf(u) = YearOf(t) => Date(u).month >= Date(t).month
              /\ InFirstMonth(schedule, t, u) => Date(u).day >= Date(t).day
              /\ OnFirstDay(schedule, t, u) => HourOf(u) >= HourOf(t)
              /\ InFirstHour(schedule, t, u) => MinuteOf(u) >= MinuteOf(t)
BY Zenon DEF Candidates, MonthsFrom, InFirstMonth, DaysFrom, OnFirstDay, InFirstHour

\* In the first month the search looks at no day before that of t.
LEMMA FirstDayLater ==
    ASSUME NEW schedule \in Fields, NEW t \in Nat, NEW d \in DaysFrom(schedule, t),
           Date(t).month \in schedule.month
    PROVE  DayNumber(t) <= d
<1>1. PICK v \in Moments : /\ d = DayNumber(v) /\ InFirstMonth(schedule, t, v) /\ Date(v).day >= Date(t).day
  BY Zenon DEF DaysFrom
<1>2. v \in Nat
  BY DEF Moments
<1>3. YearOf(v) = YearOf(t) /\ Date(v).month >= Date(t).month /\ Date(v).month <= Date(t).month
  <2>0. Date(t).month \in Nat BY Zenon, MomentFields
  <2>1. Date(t).month \in MonthsFrom(schedule, t)
    BY <2>0 DEF MonthsFrom
  <2> QED BY Zenon, <1>1, <2>1 DEF InFirstMonth, IsLeast, MonthsFrom
<1>4. /\ Date(v).month \in Nat /\ Date(v).day \in Nat /\ Date(t).month \in Nat /\ Date(t).day \in Nat
      /\ DayNumber(v) \in Nat /\ DayNumber(t) \in Nat
  BY Zenon, <1>2, MomentFields
<1>5. ~(DayNumber(v) < DayNumber(t))
  <2> SUFFICES ASSUME DayNumber(v) < DayNumber(t) PROVE FALSE BY Zenon
  <2>1. \/ Date(v).month < Date(t).month
        \/ Date(v).month = Date(t).month /\ Date(v).day < Date(t).day
    BY <1>2, <1>3, <1>4, LaterDay
  <2> QED BY <1>1, <1>3, <1>4, <2>1
<1> QED BY <1>1, <1>4, <1>5

\* A moment of the schedule on the day of t makes that day the first one.
LEMMA DayIsFirst ==
    ASSUME NEW schedule \in Fields, NEW t \in Nat, NEW u \in Moments,
           OnDay(schedule, u), DayNumber(u) = DayNumber(t)
    PROVE  InFirstMonth(schedule, t, u) /\ OnFirstDay(schedule, t, u)
<1>1. u \in Nat
  BY DEF Moments
<1>2. YearOf(u) = YearOf(t) /\ Date(u) = Date(t)
  BY Zenon, SameDay
<1>3. Date(t).month \in schedule.month /\ Date(t).month \in Nat /\ Date(t).day \in Nat
  BY Zenon, <1>2, MomentFields DEF OnDay
<1>4. IsLeast(Date(t).month, MonthsFrom(schedule, t))
  BY <1>3 DEF IsLeast, MonthsFrom
<1>5. InFirstMonth(schedule, t, u)
  BY Zenon, <1>2, <1>4 DEF InFirstMonth
<1>6. Date(u).day >= Date(t).day
  BY <1>2, <1>3
<1>7. DayNumber(u) \in DaysFrom(schedule, t)
  BY Zenon, <1>5, <1>6 DEF DaysFrom
<1>8. \A d \in DaysFrom(schedule, t) : DayNumber(u) <= d
  BY Zenon, <1>3, FirstDayLater
<1> QED BY Zenon, <1>5, <1>7, <1>8 DEF OnFirstDay, IsLeast

\* The search never goes back: what it may find is a moment of the schedule
\* from t on.
LEMMA CandidatesLater ==
    ASSUME NEW schedule \in Fields, NEW t \in Nat, NEW u \in Candidates(schedule, t)
    PROVE  u \in Moments /\ u \in Nat /\ u >= t /\ Slot(schedule, u)
<1>1. /\ u \in Moments /\ YearOf(u) >= YearOf(t) /\ Slot(schedule, u)
      /\ YearOf(u) = YearOf(t) => Date(u).month >= Date(t).month
      /\ InFirstMonth(schedule, t, u) => Date(u).day >= Date(t).day
      /\ OnFirstDay(schedule, t, u) => HourOf(u) >= HourOf(t)
      /\ InFirstHour(schedule, t, u) => MinuteOf(u) >= MinuteOf(t)
  BY Zenon, CandidateIs
<1>2. u \in Nat
  BY <1>1 DEF Moments
<1>3. /\ YearOf(u) \in Nat /\ YearOf(t) \in Nat /\ DayNumber(u) \in Nat /\ DayNumber(t) \in Nat
      /\ HourOf(u) \in Nat /\ HourOf(t) \in Nat /\ MinuteOf(u) \in Nat /\ MinuteOf(t) \in Nat
      /\ Date(u).month \in Nat /\ Date(u).day \in Nat /\ Date(t).month \in Nat /\ Date(t).day \in Nat
  BY Zenon, <1>2, MomentFields
<1>4. ASSUME u < t PROVE FALSE
  <2>1. DayNumber(u) <= DayNumber(t)
    BY <1>2, <1>4, LaterMoment
  <2>2. YearOf(u) = YearOf(t)
    BY <1>1, <1>2, <1>3, <2>1, LaterDay
  <2>3. Date(u).month = Date(t).month
    <3>1. Date(u).month <= Date(t).month BY <1>2, <1>3, <2>1, <2>2, LaterDay
    <3> QED BY <1>1, <1>3, <2>2, <3>1
  <2>4. InFirstMonth(schedule, t, u)
    <3>1. Date(t).month \in schedule.month BY Zenon, <1>1, <2>3 DEF Slot, OnDay
    <3>2. IsLeast(Date(t).month, MonthsFrom(schedule, t)) BY <1>3, <3>1 DEF IsLeast, MonthsFrom
    <3> QED BY Zenon, <2>2, <2>3, <3>2 DEF InFirstMonth
  <2>5. DayNumber(u) = DayNumber(t)
    <3>1. Date(u).day >= Date(t).day BY Zenon, <1>1, <2>4
    <3> QED BY <1>2, <1>3, <2>1, <2>2, <2>3, <3>1, LaterDay
  <2>6. OnFirstDay(schedule, t, u)
    BY Zenon, <1>1, <2>5, DayIsFirst DEF Slot
  <2>7. HourOf(u) = HourOf(t)
    <3>1. HourOf(u) <= HourOf(t) BY <1>2, <1>4, <2>5, LaterMoment
    <3> QED BY <1>1, <1>3, <2>6, <3>1
  <2>8. InFirstHour(schedule, t, u)
    <3>1. HourOf(t) \in schedule.hour BY Zenon, <1>1, <2>7 DEF Slot
    <3>2. IsLeast(HourOf(t), {hour \in schedule.hour : hour >= HourOf(t)}) BY <1>3, <3>1 DEF IsLeast
    <3> QED BY Zenon, <2>6, <2>7, <3>2 DEF InFirstHour
  <2>9. MinuteOf(u) < MinuteOf(t)
    BY <1>2, <1>4, <2>5, <2>7, LaterMoment
  <2> QED BY <1>1, <1>3, <2>8, <2>9
<1> QED BY <1>1, <1>2, <1>4

\* From a moment of the schedule the search passes over none of the later ones.
LEMMA CandidatesAll ==
    ASSUME NEW schedule \in Fields, NEW t \in Nat, Slot(schedule, t),
           NEW u \in Moments, Slot(schedule, u), u > t
    PROVE  u \in Candidates(schedule, t + 1)
<1>1. u \in Nat /\ t \in Moments
  <2>1. /\ Years \in Nat /\ HoursPerDay \in Nat /\ MinutesPerHour \in Nat /\ Len(Year) \in Nat
    BY CalendarAssumption
  <2>2. PICK n \in Int : n = Years * Len(Year) * HoursPerDay * MinutesPerHour - 1
    <3>1. PICK p \in Nat : p = Years * Len(Year) BY <2>1
    <3>2. PICK q \in Nat : q = p * HoursPerDay BY <2>1
    <3>3. PICK k \in Nat : k = q * MinutesPerHour BY <2>1
    <3>4. k - 1 \in Int OBVIOUS
    <3> QED BY Zenon, <3>1, <3>2, <3>3, <3>4
  <2>3. Moments = 0 .. n
    BY Zenon, <2>2 DEF Moments
  <2> QED BY <2>3
<1>2. PICK v \in Nat : v = t + 1 /\ v <= u /\ t <= v
  BY <1>1
<1>3. /\ YearOf(u) \in Nat /\ YearOf(v) \in Nat /\ DayNumber(u) \in Nat /\ DayNumber(v) \in Nat
      /\ HourOf(u) \in Nat /\ HourOf(v) \in Nat /\ MinuteOf(u) \in Nat /\ MinuteOf(v) \in Nat
      /\ Date(u).month \in Nat /\ Date(u).day \in Nat \ {0} /\ Date(v).month \in Nat /\ Date(v).day \in Nat
  BY Zenon, <1>1, MomentFields
<1>4. /\ DayNumber(v) # DayNumber(t) => HourOf(v) = 0 /\ MinuteOf(v) = 0
      /\ HourOf(v) # HourOf(t) => MinuteOf(v) = 0
      /\ (YearOf(v) # YearOf(t) \/ Date(v).month # Date(t).month) => Date(v).day = 1
  BY Zenon, <1>2, NextMoment
<1>5. /\ DayNumber(v) <= DayNumber(u)
      /\ DayNumber(v) = DayNumber(u) => HourOf(v) <= HourOf(u)
      /\ DayNumber(v) = DayNumber(u) /\ HourOf(v) = HourOf(u) => MinuteOf(v) <= MinuteOf(u)
  BY Zenon, <1>1, <1>2, LaterMoment
<1>6. /\ YearOf(v) <= YearOf(u)
      /\ YearOf(v) = YearOf(u) => \/ Date(v).month < Date(u).month
                                  \/ Date(v).month = Date(u).month /\ Date(v).day <= Date(u).day
  BY Zenon, <1>1, <1>5, LaterDay
<1>7. OnDay(schedule, t) /\ HourOf(t) \in schedule.hour
  BY Zenon DEF Slot
<1>8. ASSUME InFirstMonth(schedule, v, u) PROVE Date(u).day >= Date(v).day
  <2>1. CASE YearOf(v) = YearOf(t) /\ Date(v).month = Date(t).month
    <3>1. Date(v).month \in MonthsFrom(schedule, v)
      BY <1>3, <1>7, <2>1 DEF MonthsFrom, OnDay
    <3>2. YearOf(v) = YearOf(u) /\ Date(u).month <= Date(v).month
      BY Zenon, <1>8, <3>1 DEF InFirstMonth, IsLeast
    <3> QED BY <1>3, <1>6, <3>2
  <2>2. CASE ~(YearOf(v) = YearOf(t) /\ Date(v).month = Date(t).month)
    BY <1>3, <1>4, <2>2
  <2> QED BY Zenon, <2>1, <2>2
<1>9. ASSUME DayNumber(v) = DayNumber(t), OnFirstDay(schedule, v, u) PROVE DayNumber(u) = DayNumber(v)
  <2>1. OnFirstDay(schedule, v, t)
    BY Zenon, <1>1, <1>7, <1>9, DayIsFirst
  <2>2. DayNumber(u) <= DayNumber(t)
    BY Zenon, <1>9, <2>1 DEF OnFirstDay, IsLeast
  <2> QED BY <1>3, <1>5, <1>9, <2>2
<1>10. ASSUME OnFirstDay(schedule, v, u) PROVE HourOf(u) >= HourOf(v)
  <2>1. CASE DayNumber(v) = DayNumber(t)
    BY Zenon, <1>3, <1>5, <1>9, <1>10, <2>1
  <2>2. CASE DayNumber(v) # DayNumber(t)
    BY <1>3, <1>4, <2>2
  <2> QED BY Zenon, <2>1, <2>2
<1>11. ASSUME InFirstHour(schedule, v, u) PROVE MinuteOf(u) >= MinuteOf(v)
  <2>1. CASE DayNumber(v) = DayNumber(t) /\ HourOf(v) = HourOf(t)
    <3>1. DayNumber(u) = DayNumber(v)
      BY Zenon, <1>9, <1>11, <2>1 DEF InFirstHour
    <3>2. HourOf(v) \in {hour \in schedule.hour : hour >= HourOf(v)}
      BY <1>3, <1>7, <2>1
    <3>3. HourOf(u) <= HourOf(v)
      BY Zenon, <1>11, <3>2 DEF InFirstHour, IsLeast
    <3>4. HourOf(u) = HourOf(v)
      BY <1>3, <1>5, <3>1, <3>3
    <3> QED BY Zenon, <1>3, <1>5, <3>1, <3>4
  <2>2. CASE ~(DayNumber(v) = DayNumber(t) /\ HourOf(v) = HourOf(t))
    BY <1>3, <1>4, <2>2
  <2> QED BY Zenon, <2>1, <2>2
<1>12. YearOf(u) >= YearOf(v) /\ (YearOf(u) = YearOf(v) => Date(u).month >= Date(v).month)
  BY <1>3, <1>6
<1>13. u \in Candidates(schedule, v)
  BY Zenon, <1>8, <1>10, <1>11, <1>12, CandidateIs
<1> QED BY Zenon, <1>2, <1>13

\* A moment in a later year ends every search.
LEMMA CandidateInLaterYear ==
    ASSUME NEW schedule, NEW t \in Nat, NEW u \in Moments, Slot(schedule, u), YearOf(u) > YearOf(t)
    PROVE  u \in Candidates(schedule, t)
<1>1. u \in Nat
  BY DEF Moments
<1>2. YearOf(u) \in Nat /\ YearOf(t) \in Nat
  BY Zenon, <1>1, MomentFields
<1>3. YearOf(u) >= YearOf(t) /\ YearOf(u) # YearOf(t)
  BY <1>2
<1>4. ~InFirstMonth(schedule, t, u)
  BY Zenon, <1>3 DEF InFirstMonth
<1>5. ASSUME OnFirstDay(schedule, t, u) PROVE FALSE
  <2>1. PICK v \in Moments : DayNumber(u) = DayNumber(v) /\ InFirstMonth(schedule, t, v)
    BY Zenon, <1>5 DEF OnFirstDay, IsLeast, DaysFrom
  <2>2. YearOf(u) = YearOf(v)
    BY Zenon, <2>1, SameDay
  <2> QED BY Zenon, <1>3, <2>1, <2>2 DEF InFirstMonth
<1>6. ~InFirstHour(schedule, t, u)
  BY Zenon, <1>5 DEF InFirstHour
<1> QED BY Zenon, <1>3, <1>4, <1>5, <1>6, CandidateIs

\* nextRunTime finds a later moment of the schedule, and from a moment of the
\* schedule it finds the next one.
THEOREM NextRunIsSlot ==
    ASSUME NEW schedule \in Fields, Satisfiable(schedule), NEW from \in Nat, YearOf(from + 1) < Years - 1
    PROVE  /\ NextRunTime(schedule, from) \in Moments /\ NextRunTime(schedule, from) \in Nat
           /\ NextRunTime(schedule, from) > from
           /\ Slot(schedule, NextRunTime(schedule, from))
           /\ \A u \in Moments : (Slot(schedule, from) /\ Slot(schedule, u) /\ u > from)
                                     => NextRunTime(schedule, from) <= u
<1>1. PICK t \in Nat : t = from + 1
  OBVIOUS
<1>2. PICK C : C = Candidates(schedule, t)
  BY Zenon
<1>3. \A u \in C : u \in Moments /\ u \in Nat /\ u >= t /\ Slot(schedule, u)
  BY Zenon, <1>2, CandidatesLater
<1>4. PICK w \in Moments : YearOf(w) = Years - 1 /\ Slot(schedule, w)
  BY Zenon DEF Satisfiable
<1>5. w \in C
  <2>1. YearOf(t) \in Nat /\ Years \in Nat BY Zenon, <1>1, MomentFields, CalendarAssumption
  <2>2. YearOf(w) > YearOf(t) BY Zenon, <1>1, <1>4, <2>1
  <2> QED BY Zenon, <1>2, <1>4, <2>2, CandidateInLaterYear
<1>6. C \in SUBSET Nat /\ C # {}
  BY Zenon, <1>3, <1>5
<1>7. \E x \in C : \A y \in C : x <= y
  BY Zenon, <1>6, LeastNatural
<1>8. PICK n : n = NextRunTime(schedule, from)
  BY Zenon
<1>9. n = CHOOSE x \in C : \A y \in C : x <= y
  BY Zenon, <1>1, <1>2, <1>8 DEF NextRunTime, Min
<1>10. n \in C /\ \A y \in C : n <= y
  BY Zenon, <1>7, <1>9
<1>11. n \in Moments /\ n \in Nat /\ n >= t /\ Slot(schedule, n)
  BY Zenon, <1>3, <1>10
<1>12. n > from
  BY <1>1, <1>11
<1>13. ASSUME NEW u \in Moments, Slot(schedule, from), Slot(schedule, u), u > from PROVE n <= u
  <2>1. u \in C BY Zenon, <1>1, <1>2, <1>13, CandidatesAll
  <2> QED BY Zenon, <1>10, <2>1
<1> QED BY Zenon, <1>8, <1>11, <1>12, <1>13

\* The moments of a schedule after one and up to another.
SlotsAfter(schedule, t, to) == {u \in t + 1 .. to : Slot(schedule, u)}

\* From a moment of the schedule, nextRunTime goes to the first of those left.
LEMMA SlotsLeft ==
    ASSUME NEW schedule \in Fields, Satisfiable(schedule), NEW to \in Nat,
           \A u \in 0 .. to + 1 : u \in Moments /\ YearOf(u) < Years - 1,
           NEW t \in 0 .. to, Slot(schedule, t)
    PROVE  LET next == NextRunTime(schedule, t)
               left == Cardinality(SlotsAfter(schedule, t, to)) IN
           /\ left \in Nat
           /\ next > to => left = 0
           /\ next <= to => /\ next \in 0 .. to /\ next > t /\ Slot(schedule, next)
                            /\ left = Cardinality(SlotsAfter(schedule, next, to)) + 1
<1>1. PICK n : n = NextRunTime(schedule, t)
  BY Zenon
<1>2. /\ n \in Nat /\ n > t /\ Slot(schedule, n)
      /\ \A u \in Moments : (Slot(schedule, u) /\ u > t) => n <= u
  <2>1. t \in Nat /\ YearOf(t + 1) < Years - 1 OBVIOUS
  <2> QED BY Zenon, <1>1, <2>1, NextRunIsSlot
<1>3. PICK S : S = SlotsAfter(schedule, t, to)
  BY Zenon
<1>4. \A u : u \in S <=> u \in t + 1 .. to /\ Slot(schedule, u)
  BY Zenon, <1>3 DEF SlotsAfter
<1>5. IsFiniteSet(S)
  <2>1. IsFiniteSet(t + 1 .. to) BY FS_Interval
  <2> QED BY Zenon, <1>4, <2>1, FS_Subset
<1>6. \A u \in S : u \in Nat /\ t < u /\ u <= to /\ n <= u /\ Slot(schedule, u)
  BY <1>2, <1>4
<1>7. Cardinality(S) \in Nat
  BY Zenon, <1>5, FS_CardinalityType
<1>8. ASSUME n > to PROVE Cardinality(S) = 0
  <2>1. S = {} BY <1>2, <1>6, <1>8
  <2> QED BY Zenon, <2>1, FS_EmptySet
<1>9. ASSUME n <= to PROVE n \in 0 .. to /\ Cardinality(S) = Cardinality(SlotsAfter(schedule, n, to)) + 1
  <2>1. PICK R : R = SlotsAfter(schedule, n, to)
    BY Zenon
  <2>2. \A u : u \in R <=> u \in n + 1 .. to /\ Slot(schedule, u)
    BY Zenon, <2>1 DEF SlotsAfter
  <2>3. n \notin R /\ n \in S
    BY <1>2, <1>4, <1>9, <2>2
  <2>4. \A u \in S : u = n \/ u \in R
    BY <1>2, <1>6, <2>2
  <2>5. R \subseteq S
    BY <1>2, <1>4, <2>2
  <2>6. S = R \cup {n}
    BY Zenon, <2>3, <2>4, <2>5
  <2>7. IsFiniteSet(R)
    BY Zenon, <1>5, <2>5, FS_Subset
  <2>8. Cardinality(S) = Cardinality(R) + 1
    BY Zenon, <2>3, <2>6, <2>7, FS_AddElement
  <2> QED BY <1>2, <1>9, <2>1, <2>8
<1> QED BY Zenon, <1>1, <1>2, <1>3, <1>7, <1>8, <1>9

\* A count of the runs from each minute on, as countMissedRuns makes it.
IsCount(f, schedule, from, to) ==
    f = [t \in from .. to |-> IF NextRunTime(schedule, t) > to THEN 0 ELSE 1 + f[NextRunTime(schedule, t)]]

\* There is one: after its first step the count is at a moment of the schedule.
LEMMA CountExists ==
    ASSUME NEW schedule \in Fields, Satisfiable(schedule), NEW from \in Nat, NEW to \in Nat,
           \A u \in 0 .. to + 1 : u \in Moments /\ YearOf(u) < Years - 1
    PROVE  \E f : IsCount(f, schedule, from, to)
<1> DEFINE N(t) == NextRunTime(schedule, t)
           g == [t \in from .. to |-> IF N(t) > to THEN 0 ELSE 1 + Cardinality(SlotsAfter(schedule, N(t), to))]
<1>1. ASSUME NEW t \in from .. to, ~(N(t) > to)
      PROVE  N(t) \in from .. to /\ g[N(t)] = Cardinality(SlotsAfter(schedule, N(t), to))
  <2>1. t \in Nat /\ YearOf(t + 1) < Years - 1
    OBVIOUS
  <2>2. PICK n \in Nat : n = N(t) /\ n > t /\ Slot(schedule, n)
    BY Zenon, <2>1, NextRunIsSlot
  <2>3. n \in from .. to /\ n \in 0 .. to
    BY <1>1, <2>2
  <2>4. /\ N(n) > to => Cardinality(SlotsAfter(schedule, n, to)) = 0
        /\ N(n) <= to => Cardinality(SlotsAfter(schedule, n, to)) = Cardinality(SlotsAfter(schedule, N(n), to)) + 1
    BY Zenon, <2>2, <2>3, SlotsLeft
  <2>5. n \in Nat /\ YearOf(n + 1) < Years - 1
    BY <2>3
  <2>6. N(n) \in Nat
    BY Zenon, <2>5, NextRunIsSlot
  <2>7. N(n) <= to => N(n) \in 0 .. to /\ Slot(schedule, N(n))
    BY Zenon, <2>2, <2>3, SlotsLeft
  <2>8. N(n) <= to => Cardinality(SlotsAfter(schedule, N(n), to)) \in Nat
    BY Zenon, <2>7, SlotsLeft
  <2>9. g[n] = IF N(n) > to THEN 0 ELSE 1 + Cardinality(SlotsAfter(schedule, N(n), to))
    BY Zenon, <2>3
  <2> HIDE DEF N, g
  <2>10. g[n] = Cardinality(SlotsAfter(schedule, n, to))
    BY <2>4, <2>6, <2>8, <2>9
  <2> QED BY Zenon, <2>2, <2>3, <2>10
<1>2. g = [t \in from .. to |-> IF N(t) > to THEN 0 ELSE 1 + g[N(t)]]
  BY Zenon, <1>1
<1> QED BY Zenon, <1>2 DEF IsCount

\* From a moment of the schedule on, the count is the number of those left.
LEMMA CountIsLeft ==
    ASSUME NEW schedule \in Fields, Satisfiable(schedule), NEW from \in Nat, NEW to \in Nat,
           \A u \in 0 .. to + 1 : u \in Moments /\ YearOf(u) < Years - 1,
           NEW f, IsCount(f, schedule, from, to), NEW a \in from .. to, Slot(schedule, a)
    PROVE  f[a] = Cardinality(SlotsAfter(schedule, a, to))
<1> SUFFICES ASSUME f[a] # Cardinality(SlotsAfter(schedule, a, to)) PROVE FALSE
  BY Zenon
<1> DEFINE Wrong(t) == t \in from .. to /\ Slot(schedule, t) /\ f[t] # Cardinality(SlotsAfter(schedule, t, to))
           T == {m \in Nat : m <= to /\ Wrong(to - m)}
<1>1. T \in SUBSET Nat /\ T # {}
  <2>1. to - a \in Nat /\ to - a <= to /\ to - (to - a) = a OBVIOUS
  <2>2. Wrong(to - (to - a)) BY Zenon, <2>1
  <2> QED BY Zenon, <2>1, <2>2
<1> HIDE DEF T
<1>2. PICK x \in T : \A y \in T : x <= y
  BY Zenon, <1>1, LeastNatural
<1> HIDE DEF Wrong
<1>3. PICK t \in Nat : t = to - x /\ x \in Nat /\ x <= to /\ Wrong(t)
  BY <1>2 DEF T
<1>4. t \in from .. to /\ Slot(schedule, t) /\ f[t] # Cardinality(SlotsAfter(schedule, t, to)) /\ t \in 0 .. to
  BY <1>3 DEF Wrong
<1>5. PICK n : n = NextRunTime(schedule, t)
  BY Zenon
<1>6. f[t] = IF n > to THEN 0 ELSE 1 + f[n]
  BY Zenon, <1>4, <1>5 DEF IsCount
<1>7. /\ n > to => Cardinality(SlotsAfter(schedule, t, to)) = 0
      /\ n <= to => /\ n \in 0 .. to /\ n > t /\ Slot(schedule, n)
                    /\ Cardinality(SlotsAfter(schedule, t, to)) = Cardinality(SlotsAfter(schedule, n, to)) + 1
  BY Zenon, <1>4, <1>5, SlotsLeft
<1>8. ~(n > to)
  BY Zenon, <1>4, <1>6, <1>7
<1>9. n \in Nat
  <2>1. t \in Nat /\ YearOf(t + 1) < Years - 1 BY <1>4
  <2> QED BY Zenon, <1>5, <2>1, NextRunIsSlot
<1>10. n <= to /\ n \in from .. to /\ to - n \in Nat /\ to - n <= to /\ to - (to - n) = n /\ ~(x <= to - n)
  BY <1>3, <1>4, <1>7, <1>8, <1>9
<1>11. f[n] # Cardinality(SlotsAfter(schedule, n, to))
  <2>1. PICK c \in Nat : c = Cardinality(SlotsAfter(schedule, n, to))
    BY Zenon, <1>7, <1>10, SlotsLeft
  <2> QED BY <1>4, <1>6, <1>7, <1>8, <1>10, <2>1
<1>12. Wrong(to - (to - n))
  BY Zenon, <1>7, <1>10, <1>11 DEF Wrong
<1>13. to - n \in T
  BY Zenon, <1>10, <1>12 DEF T
<1> QED BY Zenon, <1>2, <1>10, <1>13

\* countMissedRuns counts the moments of the schedule since a run.
CountsMissed(schedule, from, to, limit) ==
    CountMissedRuns(schedule, from, to, limit) = Min({Cardinality(SlotsAfter(schedule, from, to)), limit})

\* It does if the run it starts from was at one of them, for every calendar and limit.
THEOREM MissedExact ==
    ASSUME NEW schedule \in Fields, Satisfiable(schedule), NEW from \in Nat, NEW to \in Nat, NEW limit \in Nat,
           \A u \in 0 .. to + 1 : u \in Moments /\ YearOf(u) < Years - 1, Slot(schedule, from)
    PROVE  CountsMissed(schedule, from, to, limit)
<1>1. CASE from >= to
  <2>1. SlotsAfter(schedule, from, to) = {}
    BY <1>1 DEF SlotsAfter
  <2>2. Cardinality(SlotsAfter(schedule, from, to)) = 0
    BY Zenon, <2>1, FS_EmptySet
  <2>3. CountMissedRuns(schedule, from, to, limit) = 0
    BY Zenon, <1>1 DEF CountMissedRuns
  <2>4. Min({0, limit}) = 0
    BY DEF Min
  <2> QED BY Zenon, <2>2, <2>3, <2>4 DEF CountsMissed
<1>2. CASE ~(from >= to)
  <2>1. PICK f : f = CHOOSE g : IsCount(g, schedule, from, to)
    BY Zenon
  <2>2. IsCount(f, schedule, from, to)
    BY Zenon, <2>1, CountExists
  <2>3. CountMissedRuns(schedule, from, to, limit) = Min({f[from], limit})
    BY Zenon, <1>2, <2>1 DEF CountMissedRuns, IsCount
  <2>4. from \in from .. to
    BY <1>2
  <2>5. f[from] = Cardinality(SlotsAfter(schedule, from, to))
    BY ZenonT(40), <2>2, <2>4, CountIsLeft
  <2> QED BY Zenon, <2>3, <2>5 DEF CountsMissed
<1> QED BY Zenon, <1>1, <1>2

-----------------------------------------------------------------------------
(* The scheduler                                                           *)

\* The types that the order of the clocks rests on.
SchedTypes ==
    /\ now \in Nat /\ tick \in Nat
    /\ proc \in {"down", "up", "stopping", "cancelled"}
    /\ loop \in {"off", "wait", "dispatch", "persist"}
    /\ due \subseteq Ids
    /\ loop = "persist" => current \in Ids
    /\ lastRuns \in [Ids -> Int] /\ file \in [Ids -> Int] /\ fired \in [Ids -> Int]

\* The loop runs only in a daemon that is up or waits for the loop.
LoopInv == proc \in {"down", "cancelled"} => loop = "off"

\* The file is behind the daemon's map, except for entries the map does not have
\* because it could not be loaded; the map is behind the fires, and those are
\* behind the clock; a call of checkAndRunTasks is ahead of all of them.
TimeInv ==
    /\ tick <= now
    /\ \A id \in Ids : file[id] <= fired[id] /\ lastRuns[id] <= fired[id] /\ fired[id] \in -1 .. now
    /\ proc # "down" =>
          \A id \in Ids : file[id] <= lastRuns[id] \/ (MayLoadFail /\ lastRuns[id] = -1)
    /\ proc = "down" => \A id \in Ids : lastRuns[id] = -1
    /\ loop \in {"dispatch", "persist"} => \A id \in Ids : fired[id] <= tick
    /\ loop = "persist" => fired[current] = tick

\* The inductive invariant of the loop and of the last runs.
SchedInv == SchedTypes /\ LoopInv /\ TimeInv

\* It holds when the process is started for the first time.
LEMMA SchedInit == Init => SchedInv
BY SchedulerAssumption DEF Init, SchedInv, SchedTypes, LoopInv, TimeInv, Never, NoId

\* The goroutines of the tasks touch nothing the invariant speaks of.
LEMMA JobsApart ==
    ASSUME Goroutines
    PROVE  UNCHANGED <<now, proc, loop, tick, due, current, lastRuns, file, fired>>
<1>1. PICK w \in jobs : RunTaskWithRetry(w)
    BY Zenon DEF Goroutines
<1>2. \E after : JobStep(w, after)
    BY Zenon, <1>1 DEF RunTaskWithRetry, JobSucceeds, JobFails, JobRetries, JobCancelled
<1>3. QED
    BY Zenon, <1>2 DEF JobStep

\* Every step of the scheduler, its goroutines and its crashes keeps it.
LEMMA SchedStep == SchedInv /\ [Next]_vars => SchedInv'
<1> SUFFICES ASSUME SchedInv, [Next]_vars PROVE SchedInv'
    BY Zenon
<1> USE DEF SchedInv, SchedTypes, LoopInv, TimeInv
<1>1. CASE Boot
    BY <1>1 DEF Boot, NoRuns, Never
<1>2. CASE Stop \/ StopCancel
    BY Zenon, <1>2 DEF Stop, StopCancel, MainIsIdle
<1>3. CASE StopReturn
  <2>1. /\ UNCHANGED <<now, loop, tick, due, current, file, fired>> /\ proc' = "down"
        /\ proc = "cancelled" /\ lastRuns' = [id \in Ids |-> -1]
    BY Zenon, <1>3 DEF StopReturn, NoRuns, Never
  <2>2. loop = "off" /\ \A id \in Ids : -1 <= fired[id]
    BY <2>1
  <2>3. QED
    BY <2>1, <2>2
<1>4. ASSUME NEW id \in Ids, AddTask(id) \/ RestoreLastRun(id) \/ RemoveTask(id)
      PROVE  SchedInv'
    BY Zenon, <1>4 DEF AddTask, RestoreLastRun, RemoveTask
<1>5. CASE Tick
    BY <1>5 DEF Tick, DueAt
<1>6. ASSUME NEW id \in Ids, Dispatch(id) PROVE SchedInv'
    BY <1>6 DEF Dispatch
<1>7. CASE Persist
    BY <1>7 DEF Persist, NoId
<1>8. CASE LoopExit
    BY Zenon, <1>8 DEF LoopExit
<1>9. CASE Goroutines
    BY Zenon, <1>9, JobsApart
<1>10. CASE Clock
    BY <1>10 DEF Clock, daemonVars
<1>11. CASE Crash
    BY <1>11 DEF Crash, NoRuns, Never
<1>12. CASE Finished \/ UNCHANGED vars
    BY Zenon, <1>12 DEF Finished, vars
<1>13. QED
    BY Zenon, <1>1, <1>2, <1>3, <1>4, <1>5, <1>6, <1>7, <1>8, <1>9, <1>10, <1>11, <1>12
    DEF Next, Main, LoopStep

\* The invariant holds in every reachable state of the daemon.
THEOREM SchedInvariance == Spec => []SchedInv
BY SchedInit, SchedStep, PTL DEF Spec

\* Stop cancels the goroutines only after the tick loop has ended, so nothing
\* fires behind its back while it waits for them.
THEOREM StopIsFinal == Spec => NoFireAfterCancel
<1>1. ASSUME SchedInv, [Next]_vars
      PROVE  [\A id \in Ids : Fires(id) => proc \in {"up", "stopping"}]_vars
    BY Zenon, <1>1 DEF Fires, SchedInv, SchedTypes, LoopInv
<1>2. QED
    BY <1>1, SchedInvariance, PTL DEF Spec, NoFireAfterCancel

\* lastrun.json never goes back and never runs ahead of the fires: saves are
\* made in the order of the fires, from a map that started as the file, or
\* empty where the file could not be loaded.
LEMMA LastRunStep ==
    ASSUME SchedInv, [Next]_vars
    PROVE  \A id \in Ids :
              /\ \/ file[id] <= file'[id]
                 \/ MayLoadFail /\ lastRuns[id] = Never /\ file'[id] = Never
              /\ file'[id] <= fired'[id]
<1>1. SchedInv'
    BY Zenon, SchedStep
<1>2. \A id \in Ids : file'[id] <= fired'[id]
    BY Zenon, <1>1 DEF SchedInv, TimeInv
<1>3. CASE Persist
  <2>1. ASSUME NEW id \in Ids
        PROVE  \/ file[id] <= file'[id]
               \/ MayLoadFail /\ lastRuns[id] = Never /\ file'[id] = Never
    <3>1. /\ file[id] <= lastRuns[id] \/ (MayLoadFail /\ lastRuns[id] = -1)
          /\ file[id] <= fired[id] /\ lastRuns[id] <= fired[id] /\ file[id] \in Int
        BY Zenon, <1>3 DEF Persist, SchedInv, SchedTypes, LoopInv, TimeInv
    <3>2. file'[id] = file[id] \/ file'[id] = lastRuns[id] \/ (id = current /\ file'[id] = tick)
        BY Zenon, <1>3 DEF Persist, SchedInv, SchedTypes
    <3>3. id = current => fired[id] = tick
        BY Zenon, <1>3 DEF Persist, SchedInv, TimeInv
    <3>4. lastRuns[id] \in Int /\ tick \in Int
        BY DEF SchedInv, SchedTypes
    <3>5. QED
        BY <3>1, <3>2, <3>3, <3>4 DEF Never
  <2>2. QED
    BY Zenon, <2>1, <1>2
<1>7. CASE Boot /\ file' = NoRuns
  <2>1. MayLoadFail \/ file' = file
    BY Zenon, <1>7 DEF Boot
  <2>2. \A id \in Ids : lastRuns[id] = Never /\ file'[id] = Never
    BY Zenon, <1>7 DEF Boot, NoRuns, Never, SchedInv, TimeInv
  <2>3. file' = file => \A id \in Ids : file[id] <= file'[id]
    BY DEF SchedInv, SchedTypes
  <2>4. QED
    BY Zenon, <2>1, <2>2, <2>3, <1>2
<1>4. CASE UNCHANGED file
    BY <1>2, <1>4 DEF SchedInv, SchedTypes
<1>5. Persist \/ UNCHANGED file \/ (Boot /\ file' = NoRuns)
  <2>1. CASE Goroutines
    BY Zenon, <2>1, JobsApart
  <2>2. CASE Main
    BY Zenon, <2>2 DEF Main, Boot, Stop, StopCancel, StopReturn, AddTask, RestoreLastRun, RemoveTask
  <2>3. CASE LoopStep
    BY Zenon, <2>3 DEF LoopStep, Tick, Dispatch, LoopExit
  <2>4. CASE Clock \/ Crash \/ Finished \/ UNCHANGED vars
    BY Zenon, <2>4 DEF Clock, Crash, Finished, vars
  <2>5. QED
    BY Zenon, <2>1, <2>2, <2>3, <2>4 DEF Next
<1>6. QED
    BY Zenon, <1>3, <1>4, <1>5, <1>7

\* lastrun.json never goes back in time and never runs ahead of the fires, over
\* any number of crashes, restarts and failed saves; a task's entry is lost
\* only to a daemon that could not load the file (see LastRunStep).
THEOREM LastRunsOnlyAdvance == Spec => LastRunsAdvance
<1>1. ASSUME SchedInv, [Next]_vars
      PROVE  [\A id \in Ids :
                 /\ \/ file[id] <= file'[id]
                    \/ MayLoadFail /\ lastRuns[id] = Never /\ file'[id] = Never
                 /\ file'[id] <= fired'[id]]_vars
    BY Zenon, <1>1, LastRunStep
<1>2. QED
    BY <1>1, SchedInvariance, PTL DEF Spec, LastRunsAdvance

-----------------------------------------------------------------------------
(* The slots of the schedules                                              *)

\* The constants and the clock.
LEMMA ClockInRange ==
    ASSUME NEW t \in 0 .. MaxNow
    PROVE  /\ t \in Nat /\ MaxMissedRunCount \in Nat
           /\ \A u \in 0 .. t + 1 : u \in Moments /\ YearOf(u) < Years - 1
BY SchedulerAssumption

\* A time that is not Never is a minute, and a task that is not registered has
\* no count.
LEMMA KnownTimes ==
    /\ \A t \in Times : t # Never => t \in Nat
    /\ NoTask.missed = Never
BY SchedulerAssumption DEF Times, Never, NoTask

\* The table of next runs holds what nextRunTime finds.
LEMMA NextRunTable ==
    ASSUME cron \in Schedules, NEW id \in Ids, NEW from \in 0 .. MaxNow + 1
    PROVE  /\ NextRun[cron[id]][from] \in Moments /\ NextRun[cron[id]][from] \in Nat
           /\ NextRun[cron[id]][from] > from /\ Slot(cron[id], NextRun[cron[id]][from])
<1>1. cron[id] \in Fields /\ Satisfiable(cron[id])
  BY Zenon, SchedulerAssumption
<1>2. from \in Nat /\ YearOf(from + 1) < Years - 1
  BY SchedulerAssumption
<1>3. NextRun[cron[id]][from] = NextRunTime(cron[id], from)
  BY DEF NextRun
<1> QED BY Zenon, <1>1, <1>2, <1>3, NextRunIsSlot

\* The count of missed runs stays within its limit.
LEMMA MissedInLimit ==
    ASSUME NEW schedule \in Fields, Satisfiable(schedule), NEW from \in Nat, NEW to \in Nat, NEW limit \in Nat,
           \A u \in 0 .. to + 1 : u \in Moments /\ YearOf(u) < Years - 1
    PROVE  CountMissedRuns(schedule, from, to, limit) \in 0 .. limit
<1>1. CASE from >= to
  <2>1. CountMissedRuns(schedule, from, to, limit) = 0
    BY Zenon, <1>1 DEF CountMissedRuns
  <2> QED BY <2>1
<1>2. CASE ~(from >= to)
  <2>1. PICK f : f = CHOOSE g : IsCount(g, schedule, from, to)
    BY Zenon
  <2>2. IsCount(f, schedule, from, to)
    BY Zenon, <2>1, CountExists
  <2>3. CountMissedRuns(schedule, from, to, limit) = Min({f[from], limit})
    BY Zenon, <1>2, <2>1 DEF CountMissedRuns, IsCount
  <2>9. \A a \in from .. to : Slot(schedule, a) => f[a] = Cardinality(SlotsAfter(schedule, a, to))
    BY ZenonT(40), <2>2, CountIsLeft
  <2>4. PICK n \in Nat : n = NextRunTime(schedule, from) /\ n > from /\ Slot(schedule, n)
    <3>1. YearOf(from + 1) < Years - 1 BY <1>2
    <3> QED BY Zenon, <3>1, NextRunIsSlot
  <2>5. from \in from .. to
    BY <1>2
  <2>6. f[from] = IF n > to THEN 0 ELSE 1 + f[n]
    BY Zenon, <2>2, <2>4, <2>5 DEF IsCount
  <2>7. ASSUME ~(n > to) PROVE f[n] \in Nat
    <3>1. n \in from .. to /\ n \in 0 .. to BY <2>4, <2>7
    <3>2. f[n] = Cardinality(SlotsAfter(schedule, n, to)) BY Zenon, <2>4, <2>9, <3>1
    <3> QED BY Zenon, <2>4, <3>1, <3>2, SlotsLeft
  <2>8. PICK c \in Nat : c = f[from]
    BY <2>6, <2>7
  <2>10. Min({c, limit}) \in 0 .. limit
    <3>1. \E x \in {c, limit} : \A y \in {c, limit} : x <= y OBVIOUS
    <3>2. Min({c, limit}) \in {c, limit} /\ \A y \in {c, limit} : Min({c, limit}) <= y BY Zenon, <3>1 DEF Min
    <3> QED BY <3>2
  <2> QED BY Zenon, <2>3, <2>8, <2>10
<1> QED BY Zenon, <1>1, <1>2

\* A goroutine waits only if it has a retry left.
RetriesLeft == \A w \in jobs : w.waiting => w.attempt < MaxRetries[w.id]

\* Every task waits for a slot of its schedule after its last run, and a task
\* that is about to be dispatched has passed one.
SlotInv ==
    /\ \A id \in Ids : Registered(id) => /\ tasks[id].nextRun \in Nat /\ tasks[id].nextRun > fired[id]
                                         /\ Slot(cron[id], tasks[id].nextRun)
    /\ loop \in {"dispatch", "persist"} => \A id \in due : SlotsBetween(id, fired[id], tick) # {}

\* The types of a task.
TaskRecord == [nextRun : Moments \cup {Never}, lastRun : Times, missed : {Never} \cup 0 .. MaxMissedRunCount]

\* A task that is added, restored or fired keeps its types.
LEMMA TaskTypes ==
    /\ NoTask \in TaskRecord
    /\ \A n \in Moments : [nextRun |-> n, lastRun |-> Never, missed |-> Never] \in TaskRecord
    /\ \A r \in TaskRecord : /\ \A n \in Moments, t \in Times : [r EXCEPT !.nextRun = n, !.lastRun = t] \in TaskRecord
                             /\ \A t \in Times, m \in 0 .. MaxMissedRunCount :
                                    [r EXCEPT !.lastRun = t, !.missed = m] \in TaskRecord
BY Zenon DEF NoTask, TaskRecord, Times

\* What the goroutines of the tasks do to their set.
LEMMA JobTypes ==
    ASSUME TypeOK, RetriesLeft, Goroutines
    PROVE  /\ jobs' \subseteq Job
           /\ \A w \in jobs' : w.attempt <= MaxRetries[w.id] /\ (w.waiting => w.attempt < MaxRetries[w.id])
           /\ UNCHANGED <<cron, now, proc, loop, tick, due, current, tasks, lastRuns, file, fired, boots>>
<1>1. PICK w \in jobs : RunTaskWithRetry(w)
  BY Zenon DEF Goroutines
<1>2. /\ w \in Job /\ MaxRetries[w.id] \in Nat /\ w.attempt <= MaxRetries[w.id]
      /\ w.waiting => w.attempt < MaxRetries[w.id]
  BY Zenon, SchedulerAssumption DEF TypeOK, RetriesLeft, Job
<1>3. PICK a, b : a = [w EXCEPT !.waiting = TRUE] /\ b = [w EXCEPT !.waiting = FALSE, !.attempt = @ + 1]
  BY Zenon
<1>4. PICK after : /\ JobStep(w, after)
                   /\ \A j \in after : (j = a /\ w.attempt < MaxRetries[w.id]) \/ (j = b /\ w.waiting)
  <2>1. CASE JobSucceeds(w)
    BY <2>1 DEF JobSucceeds
  <2>2. CASE JobFails(w)
    <3>1. CASE w.attempt >= MaxRetries[w.id]
      BY <2>2, <3>1 DEF JobFails
    <3>2. CASE ~(w.attempt >= MaxRetries[w.id])
      <4>1. w.attempt < MaxRetries[w.id] BY <1>2, <3>2 DEF Job
      <4>2. JobStep(w, {a}) BY Zenon, <1>3, <2>2, <3>2 DEF JobFails
      <4> QED BY <4>1, <4>2
    <3> QED BY Zenon, <3>1, <3>2
  <2>3. CASE JobRetries(w)
    <3>1. w.waiting /\ JobStep(w, {b}) BY Zenon, <1>3, <2>3 DEF JobRetries
    <3> QED BY <3>1
  <2>4. CASE JobCancelled(w)
    BY <2>4 DEF JobCancelled
  <2> QED BY Zenon, <1>1, <2>1, <2>2, <2>3, <2>4 DEF RunTaskWithRetry
<1>5. \A j \in after : j \in Job /\ j.attempt <= MaxRetries[j.id] /\ (j.waiting => j.attempt < MaxRetries[j.id])
  <2>1. a \in Job /\ a.attempt = w.attempt /\ a.id = w.id
    BY Zenon, <1>2, <1>3 DEF Job
  <2>2. b \in Job /\ b.attempt = w.attempt + 1 /\ b.id = w.id /\ ~b.waiting
    <3>1. PICK n \in Nat : n = w.attempt + 1
      BY <1>2 DEF Job
    <3>2. b = [w EXCEPT !.waiting = FALSE, !.attempt = n]
      BY Zenon, <1>3, <3>1
    <3>3. b \in Job
      BY Zenon, <1>2, <3>2 DEF Job
    <3>4. b.attempt = n /\ b.id = w.id /\ ~b.waiting
      BY Zenon, <1>2, <3>2 DEF Job
    <3> QED BY Zenon, <3>1, <3>3, <3>4
  <2>3. w.attempt \in Nat /\ w.attempt <= MaxRetries[w.id]
    BY Zenon, <1>2 DEF Job
  <2>4. w.waiting => w.attempt + 1 <= MaxRetries[w.id]
    BY <1>2, <2>3
  <2> QED BY Zenon, <1>4, <2>1, <2>2, <2>3, <2>4
<1>6. jobs' = (jobs \ {w}) \cup after
  BY Zenon, <1>4 DEF JobStep
<1>7. UNCHANGED <<cron, now, proc, loop, tick, due, current, tasks, lastRuns, file, fired, boots>>
  BY Zenon, <1>4 DEF JobStep
<1>8. \A j \in jobs : j \in Job /\ j.attempt <= MaxRetries[j.id] /\ (j.waiting => j.attempt < MaxRetries[j.id])
  BY Zenon DEF TypeOK, RetriesLeft
<1>9. \A j \in jobs' : j \in Job /\ j.attempt <= MaxRetries[j.id] /\ (j.waiting => j.attempt < MaxRetries[j.id])
  BY Zenon, <1>5, <1>6, <1>8
<1> QED BY Zenon, <1>7, <1>9

\* A task added, restored, removed or fired keeps its types, and waits for a
\* slot after its last run.
LEMMA TaskStep ==
    ASSUME SchedInv, TypeOK, SlotInv, Next
    PROVE  /\ tasks' \in [Ids -> TaskRecord]
           /\ \A id \in Ids : Registered(id)' => /\ tasks'[id].nextRun \in Nat /\ tasks'[id].nextRun > fired'[id]
                                                 /\ Slot(cron'[id], tasks'[id].nextRun)
<1>1. tasks \in [Ids -> TaskRecord] /\ cron \in Schedules /\ now \in 0 .. MaxNow /\ tick \in 0 .. MaxNow
  BY SchedulerAssumption DEF TypeOK, TaskRecord
<1>2. \A id \in Ids : fired[id] \in Int /\ fired[id] <= now
  BY DEF SchedInv, TimeInv
<1>3. \A id \in Ids : Registered(id) => /\ tasks[id].nextRun \in Nat /\ tasks[id].nextRun > fired[id]
                                        /\ Slot(cron[id], tasks[id].nextRun)
  BY Zenon DEF SlotInv
<1>4. CASE UNCHANGED <<tasks, fired, cron>>
  BY Zenon, <1>1, <1>3, <1>4 DEF Registered
<1>5. CASE tasks' = [id \in Ids |-> NoTask]
  <2>1. \A id \in Ids : tasks'[id] = NoTask BY Zenon, <1>5
  <2>2. \A id \in Ids : ~Registered(id)' BY Zenon, <2>1 DEF Registered
  <2>3. tasks' \in [Ids -> TaskRecord] BY Zenon, <1>5, TaskTypes
  <2> QED BY Zenon, <2>2, <2>3
<1>6. ASSUME NEW id \in Ids, AddTask(id)
      PROVE  /\ tasks' \in [Ids -> TaskRecord]
             /\ \A i \in Ids : Registered(i)' => /\ tasks'[i].nextRun \in Nat /\ tasks'[i].nextRun > fired'[i]
                                                 /\ Slot(cron'[i], tasks'[i].nextRun)
  <2>1. PICK n : n = NextRun[cron[id]][now] BY Zenon
  <2>2. now \in 0 .. MaxNow + 1 BY <1>1, SchedulerAssumption
  <2>3. n \in Moments /\ n \in Nat /\ n > now /\ Slot(cron[id], n)
    BY Zenon, <1>1, <2>1, <2>2, NextRunTable
  <2>4. PICK r \in TaskRecord : r = [nextRun |-> n, lastRun |-> Never, missed |-> Never]
    BY Zenon, <2>3, TaskTypes
  <2>5. tasks' = [tasks EXCEPT ![id] = r] /\ UNCHANGED <<fired, cron>>
    BY Zenon, <1>6, <2>1, <2>4 DEF AddTask
  <2>6. tasks'[id] = r /\ (\A i \in Ids : i # id => tasks'[i] = tasks[i]) /\ tasks' \in [Ids -> TaskRecord]
    BY Zenon, <1>1, <2>5
  <2>7. r.nextRun = n BY Zenon, <2>4
  <2>8. n > fired[id] BY <1>1, <1>2, <2>3
  <2>9. ASSUME NEW i \in Ids, Registered(i)'
        PROVE  tasks'[i].nextRun \in Nat /\ tasks'[i].nextRun > fired'[i] /\ Slot(cron'[i], tasks'[i].nextRun)
    <3>1. CASE i = id BY Zenon, <2>3, <2>5, <2>6, <2>7, <2>8, <3>1
    <3>2. CASE i # id BY Zenon, <1>3, <2>5, <2>6, <2>9, <3>2 DEF Registered
    <3> QED BY Zenon, <3>1, <3>2
  <2> QED BY Zenon, <2>6, <2>9
<1>7. ASSUME NEW id \in Ids, RestoreLastRun(id)
      PROVE  /\ tasks' \in [Ids -> TaskRecord]
             /\ \A i \in Ids : Registered(i)' => /\ tasks'[i].nextRun \in Nat /\ tasks'[i].nextRun > fired'[i]
                                                 /\ Slot(cron'[i], tasks'[i].nextRun)
  <2>1. PICK l, m : /\ tasks' = [tasks EXCEPT ![id].lastRun = l, ![id].missed = m]
                    /\ l \in Times /\ m \in 0 .. MaxMissedRunCount
    <3>1. CASE lastRuns[id] = Never
      <4>1. tasks' = [tasks EXCEPT ![id].lastRun = tasks[id].lastRun, ![id].missed = 0]
        BY Zenon, <1>7, <3>1 DEF RestoreLastRun
      <4>2. tasks[id].lastRun \in Times /\ 0 \in 0 .. MaxMissedRunCount
        BY <1>1, SchedulerAssumption DEF TaskRecord
      <4> QED BY Zenon, <4>1, <4>2
    <3>2. CASE lastRuns[id] # Never
      <4>1. PICK m : m = CountMissedRuns(cron[id], lastRuns[id], now, MaxMissedRunCount) BY Zenon
      <4>2. tasks' = [tasks EXCEPT ![id].lastRun = lastRuns[id], ![id].missed = m]
        BY Zenon, <1>7, <3>2, <4>1 DEF RestoreLastRun
      <4>3. lastRuns[id] \in Times /\ lastRuns[id] \in Nat
        BY <3>2 DEF TypeOK, Times, Never
      <4>4. cron[id] \in Fields /\ Satisfiable(cron[id]) /\ MaxMissedRunCount \in Nat /\ now \in Nat
        BY <1>1, SchedulerAssumption
      <4>5. \A u \in 0 .. now + 1 : u \in Moments /\ YearOf(u) < Years - 1
        BY <1>1, SchedulerAssumption
      <4>6. m \in 0 .. MaxMissedRunCount
        BY Zenon, <4>1, <4>3, <4>4, <4>5, MissedInLimit
      <4> QED BY Zenon, <4>2, <4>3, <4>6
    <3> QED BY Zenon, <3>1, <3>2
  <2>2. tasks'[id] = [tasks[id] EXCEPT !.lastRun = l, !.missed = m]
    BY Zenon, <1>1, <2>1
  <2>3. tasks'[id].nextRun = tasks[id].nextRun /\ tasks'[id] \in TaskRecord
    BY Zenon, <1>1, <2>1, <2>2 DEF TaskRecord
  <2>4. (\A i \in Ids : i # id => tasks'[i] = tasks[i]) /\ tasks' \in [Ids -> TaskRecord]
    BY Zenon, <1>1, <2>1, <2>3
  <2>5. Registered(id) /\ UNCHANGED <<fired, cron>>
    BY Zenon, <1>7 DEF RestoreLastRun, Restored
  <2>6. ASSUME NEW i \in Ids, Registered(i)'
        PROVE  tasks'[i].nextRun \in Nat /\ tasks'[i].nextRun > fired'[i] /\ Slot(cron'[i], tasks'[i].nextRun)
    <3>1. CASE i = id BY Zenon, <1>3, <2>3, <2>5, <3>1
    <3>2. CASE i # id BY Zenon, <1>3, <2>4, <2>5, <2>6, <3>2 DEF Registered
    <3> QED BY Zenon, <3>1, <3>2
  <2> QED BY Zenon, <2>4, <2>6
<1>8. ASSUME NEW id \in Ids, RemoveTask(id)
      PROVE  /\ tasks' \in [Ids -> TaskRecord]
             /\ \A i \in Ids : Registered(i)' => /\ tasks'[i].nextRun \in Nat /\ tasks'[i].nextRun > fired'[i]
                                                 /\ Slot(cron'[i], tasks'[i].nextRun)
  <2>1. tasks' = [tasks EXCEPT ![id] = NoTask] /\ UNCHANGED <<fired, cron>>
    BY Zenon, <1>8 DEF RemoveTask
  <2>2. tasks'[id] = NoTask /\ (\A i \in Ids : i # id => tasks'[i] = tasks[i]) /\ tasks' \in [Ids -> TaskRecord]
    BY Zenon, <1>1, <2>1, TaskTypes
  <2> QED BY Zenon, <1>3, <2>1, <2>2 DEF Registered
<1>9. ASSUME NEW id \in Ids, Dispatch(id)
      PROVE  /\ tasks' \in [Ids -> TaskRecord]
             /\ \A i \in Ids : Registered(i)' => /\ tasks'[i].nextRun \in Nat /\ tasks'[i].nextRun > fired'[i]
                                                 /\ Slot(cron'[i], tasks'[i].nextRun)
  <2>1. fired' = [fired EXCEPT ![id] = tick] /\ cron' = cron
    BY Zenon, <1>9 DEF Dispatch
  <2>2. fired'[id] = tick /\ \A i \in Ids : i # id => fired'[i] = fired[i]
    BY Zenon, <2>1 DEF TypeOK
  <2>3. CASE ~Registered(id)
    <3>1. tasks' = tasks BY Zenon, <1>9, <2>3 DEF Dispatch
    <3> QED BY Zenon, <1>1, <1>3, <2>1, <2>2, <2>3, <3>1 DEF Registered
  <2>4. CASE Registered(id)
    <3>1. PICK n : n = NextRun[cron[id]][tick + 1] BY Zenon
    <3>2. tick + 1 \in 0 .. MaxNow + 1 BY <1>1, SchedulerAssumption
    <3>3. n \in Moments /\ n \in Nat /\ n > tick + 1 /\ Slot(cron[id], n)
      BY Zenon, <1>1, <3>1, <3>2, NextRunTable
    <3>4. tasks' = [tasks EXCEPT ![id].nextRun = n, ![id].lastRun = tick]
      BY Zenon, <1>9, <2>4, <3>1 DEF Dispatch, Reschedule
    <3>5. tasks'[id] = [tasks[id] EXCEPT !.nextRun = n, !.lastRun = tick]
      BY Zenon, <1>1, <3>4
    <3>6. tasks'[id].nextRun = n /\ tasks'[id] \in TaskRecord
      BY Zenon, <1>1, <3>3, <3>5 DEF TaskRecord, Times
    <3>7. (\A i \in Ids : i # id => tasks'[i] = tasks[i]) /\ tasks' \in [Ids -> TaskRecord]
      BY Zenon, <1>1, <3>4, <3>6
    <3>8. n > tick BY <1>1, <3>3
    <3>9. ASSUME NEW i \in Ids, Registered(i)'
          PROVE  tasks'[i].nextRun \in Nat /\ tasks'[i].nextRun > fired'[i] /\ Slot(cron'[i], tasks'[i].nextRun)
      <4>1. CASE i = id BY Zenon, <2>1, <2>2, <3>3, <3>6, <3>8, <4>1
      <4>2. CASE i # id BY Zenon, <1>3, <2>1, <2>2, <3>7, <3>9, <4>2 DEF Registered
      <4> QED BY Zenon, <4>1, <4>2
    <3> QED BY Zenon, <3>7, <3>9
  <2> QED BY Zenon, <2>3, <2>4
<1>10. CASE Goroutines
  <2>1. PICK w, after : JobStep(w, after)
    BY Zenon, <1>10 DEF Goroutines, RunTaskWithRetry, JobSucceeds, JobFails, JobRetries, JobCancelled
  <2>2. UNCHANGED <<tasks, fired, cron>> BY Zenon, <2>1 DEF JobStep
  <2> QED BY Zenon, <1>4, <2>2
<1>11. CASE Boot \/ Stop \/ StopCancel \/ Tick \/ Persist \/ LoopExit \/ Clock \/ Finished
  <2>1. UNCHANGED <<tasks, fired, cron>>
    BY Zenon, <1>11 DEF Boot, Stop, StopCancel, Tick, Persist, LoopExit, Clock, Finished, daemonVars, vars
  <2> QED BY Zenon, <1>4, <2>1
<1>12. CASE StopReturn \/ Crash
  BY Zenon, <1>5, <1>12 DEF StopReturn, Crash
<1> QED BY Zenon, <1>6, <1>7, <1>8, <1>9, <1>10, <1>11, <1>12 DEF Next, Main, LoopStep

\* A task that is about to be dispatched has passed a slot since its last run.
LEMMA DueStep ==
    ASSUME SchedInv, TypeOK, SlotInv, Next, loop' \in {"dispatch", "persist"}, NEW id \in due'
    PROVE  (SlotsBetween(id, fired[id], tick) # {})'
<1>1. CASE Tick
  <2>1. /\ id \in Ids /\ Registered(id) /\ tasks[id].nextRun <= now /\ tick' = now /\ UNCHANGED <<cron, fired>>
    BY Zenon, <1>1 DEF Tick, DueAt
  <2>2. PICK n \in Nat : n = tasks[id].nextRun /\ n > fired[id] /\ Slot(cron[id], n)
    BY Zenon, <2>1 DEF SlotInv
  <2>3. n \in fired[id] + 1 .. now
    BY <2>1, <2>2 DEF SchedInv, SchedTypes
  <2>4. n \in SlotsBetween(id, fired[id], tick)'
    BY Zenon, <2>1, <2>2, <2>3 DEF SlotsBetween
  <2> QED BY Zenon, <2>4
<1>2. CASE UNCHANGED <<cron, fired, tick, due>> /\ loop \in {"dispatch", "persist"}
  <2>1. SlotsBetween(id, fired[id], tick) # {}
    BY Zenon, <1>2 DEF SlotInv
  <2> QED BY Zenon, <1>2, <2>1 DEF SlotsBetween
<1>3. ASSUME NEW i \in Ids, Dispatch(i) PROVE (SlotsBetween(id, fired[id], tick) # {})'
  <2>1. /\ id \in due /\ id # i /\ loop = "dispatch" /\ UNCHANGED <<cron, tick>>
        /\ fired' = [fired EXCEPT ![i] = tick]
    BY Zenon, <1>3 DEF Dispatch
  <2>2. fired'[id] = fired[id]
    BY Zenon, <2>1 DEF TypeOK
  <2>3. SlotsBetween(id, fired[id], tick) # {}
    BY Zenon, <2>1 DEF SlotInv
  <2> QED BY Zenon, <2>1, <2>2, <2>3 DEF SlotsBetween
<1>4. CASE Persist
  <2>1. due # {} BY Zenon, <1>4 DEF Persist
  <2>2. UNCHANGED <<cron, fired, tick, due>> /\ loop \in {"dispatch", "persist"}
    BY Zenon, <1>4, <2>1 DEF Persist
  <2> QED BY Zenon, <1>2, <2>2
<1>5. CASE Goroutines
  <2>1. PICK w, after : JobStep(w, after)
    BY Zenon, <1>5 DEF Goroutines, RunTaskWithRetry, JobSucceeds, JobFails, JobRetries, JobCancelled
  <2>2. UNCHANGED <<cron, fired, tick, due, loop>> BY Zenon, <2>1 DEF JobStep
  <2> QED BY Zenon, <1>2, <2>2
<1>6. CASE Stop \/ StopCancel \/ StopReturn \/ Clock \/ Finished
  <2>1. UNCHANGED <<cron, fired, tick, due, loop>>
    BY Zenon, <1>6 DEF Stop, StopCancel, StopReturn, Clock, Finished, daemonVars, vars
  <2> QED BY Zenon, <1>2, <2>1
<1>7. ASSUME NEW i \in Ids, AddTask(i) \/ RestoreLastRun(i) \/ RemoveTask(i)
      PROVE  (SlotsBetween(id, fired[id], tick) # {})'
  <2>1. UNCHANGED <<cron, fired, tick, due, loop>>
    BY Zenon, <1>7 DEF AddTask, RestoreLastRun, RemoveTask
  <2> QED BY Zenon, <1>2, <2>1
<1>8. CASE Boot \/ LoopExit \/ Crash
  BY Zenon, <1>8 DEF Boot, LoopExit, Crash
<1> QED BY Zenon, <1>1, <1>3, <1>4, <1>5, <1>6, <1>7, <1>8 DEF Next, Main, LoopStep

\* The types, without those of the tasks and of the goroutines.
PlainTypes ==
    /\ cron \in Schedules
    /\ now \in 0 .. MaxNow /\ tick \in 0 .. now
    /\ proc \in {"down", "up", "stopping", "cancelled"}
    /\ loop \in {"off", "wait", "dispatch", "persist"}
    /\ due \subseteq Ids /\ current \in Ids \cup {NoId}
    /\ lastRuns \in [Ids -> Times] /\ file \in [Ids -> Times] /\ fired \in [Ids -> Times]
    /\ boots \in 0 .. MaxBoots

\* The goroutines of executeTaskWithRetry, none beyond its last retry.
JobsTyped == jobs \subseteq Job /\ \A w \in jobs : w.attempt <= MaxRetries[w.id]

\* The type invariant, with what a task and a goroutine are set apart.
LEMMA TypesSplit == TypeOK <=> PlainTypes /\ tasks \in [Ids -> TaskRecord] /\ JobsTyped
BY Zenon DEF TypeOK, PlainTypes, TaskRecord, JobsTyped

\* Every step keeps the types of the other variables.
LEMMA PlainTypeStep ==
    ASSUME SchedInv, PlainTypes, Next
    PROVE  PlainTypes'
<1>1. Never \in Times /\ tick \in Times /\ MaxNow \in Nat /\ MaxBoots \in Nat
  BY SchedulerAssumption DEF PlainTypes, Times
<1>2. CASE Boot \/ Stop \/ StopCancel
  BY <1>1, <1>2 DEF Boot, Stop, StopCancel, NoRuns, PlainTypes
<1>3. CASE StopReturn
  BY Zenon, <1>1, <1>3 DEF StopReturn, NoRuns, PlainTypes
<1>4. ASSUME NEW id \in Ids, AddTask(id) \/ RestoreLastRun(id) \/ RemoveTask(id) PROVE PlainTypes'
  BY Zenon, <1>4 DEF AddTask, RestoreLastRun, RemoveTask, PlainTypes
<1>5. CASE Tick
  BY <1>5 DEF Tick, DueAt, PlainTypes
<1>6. ASSUME NEW id \in Ids, Dispatch(id) PROVE PlainTypes'
  BY Zenon, <1>1, <1>6 DEF Dispatch, PlainTypes
<1>7. CASE Persist
  <2>1. lastRuns' \in [Ids -> Times]
    BY Zenon, <1>1, <1>7 DEF Persist, PlainTypes
  <2>2. file' \in [Ids -> Times]
    BY Zenon, <1>7, <2>1 DEF Persist, PlainTypes
  <2>3. tick' \in 0 .. now /\ loop' \in {"dispatch", "wait"} /\ now' = now
    BY <1>7 DEF Persist, PlainTypes
  <2>4. current' = NoId /\ UNCHANGED <<cron, proc, due, fired, boots>>
    BY Zenon, <1>7 DEF Persist
  <2> QED BY Zenon, <2>1, <2>2, <2>3, <2>4 DEF PlainTypes
<1>8. CASE LoopExit \/ Clock \/ Finished
  BY <1>1, <1>8 DEF LoopExit, Clock, Finished, daemonVars, vars, PlainTypes
<1>9. CASE Goroutines
  <2>1. PICK w, after : JobStep(w, after)
    BY Zenon, <1>9 DEF Goroutines, RunTaskWithRetry, JobSucceeds, JobFails, JobRetries, JobCancelled
  <2> QED BY Zenon, <2>1 DEF JobStep, PlainTypes
<1>10. CASE Crash
  BY <1>1, <1>10 DEF Crash, NoRuns, PlainTypes
<1> QED BY Zenon, <1>2, <1>3, <1>4, <1>5, <1>6, <1>7, <1>8, <1>9, <1>10 DEF Next, Main, LoopStep

\* Every step keeps the goroutines well typed.
LEMMA JobsStep ==
    ASSUME TypeOK, RetriesLeft, Next
    PROVE  JobsTyped' /\ RetriesLeft'
<1>1. CASE Goroutines
  BY Zenon, <1>1, JobTypes DEF JobsTyped, RetriesLeft
<1>2. CASE UNCHANGED jobs
  BY Zenon, <1>2 DEF TypeOK, JobsTyped, RetriesLeft
<1>3. ASSUME NEW id \in Ids, Dispatch(id) PROVE JobsTyped' /\ RetriesLeft'
  <2>1. PICK new : new = [id |-> id, at |-> tick, attempt |-> 0, waiting |-> FALSE]
    BY Zenon
  <2>2. new \in Job /\ new.attempt <= MaxRetries[new.id] /\ ~new.waiting
    BY <2>1, SchedulerAssumption DEF TypeOK, Job
  <2>3. jobs' = jobs \cup {new}
    BY Zenon, <1>3, <2>1 DEF Dispatch
  <2> QED BY Zenon, <2>2, <2>3 DEF TypeOK, JobsTyped, RetriesLeft
<1>4. CASE Crash
  BY Zenon, <1>4 DEF Crash, JobsTyped, RetriesLeft
<1>5. CASE Main
  BY Zenon, <1>2, <1>5 DEF Main, Boot, Stop, StopCancel, StopReturn, AddTask, RestoreLastRun, RemoveTask
<1>6. CASE Tick \/ Persist \/ LoopExit \/ Clock \/ Finished
  BY Zenon, <1>2, <1>6 DEF Tick, Persist, LoopExit, Clock, Finished, daemonVars, vars
<1> QED BY Zenon, <1>1, <1>3, <1>4, <1>5, <1>6 DEF Next, LoopStep

\* The inductive invariant of the fires and of the count of missed runs.
SlotsKept == SchedInv /\ TypeOK /\ RetriesLeft /\ SlotInv

\* It holds when the process is started for the first time.
LEMMA SlotInit == Init => SlotsKept
<1> SUFFICES ASSUME Init PROVE SlotsKept
  BY Zenon
<1>1. TypeOK
  <2>1. PlainTypes
    BY SchedulerAssumption DEF Init, PlainTypes, Times
  <2>2. tasks \in [Ids -> TaskRecord]
    BY Zenon, TaskTypes DEF Init
  <2>3. JobsTyped
    BY Zenon DEF Init, JobsTyped
  <2> QED BY Zenon, <2>1, <2>2, <2>3, TypesSplit
<1>2. RetriesLeft
  BY Zenon DEF Init, RetriesLeft
<1>3. SlotInv
  BY Zenon DEF Init, SlotInv, Registered
<1> QED BY Zenon, <1>1, <1>2, <1>3, SchedInit DEF SlotsKept

\* Every step keeps it.
LEMMA SlotStep == SlotsKept /\ [Next]_vars => SlotsKept'
<1> SUFFICES ASSUME SlotsKept, [Next]_vars PROVE SlotsKept'
  BY Zenon
<1>1. SchedInv /\ TypeOK /\ RetriesLeft /\ SlotInv
  BY Zenon DEF SlotsKept
<1>2. CASE Next
  <2>1. SchedInv' BY Zenon, <1>1, <1>2, SchedStep
  <2>2. PlainTypes' BY Zenon, <1>1, <1>2, PlainTypeStep, TypesSplit
  <2>3. JobsTyped' /\ RetriesLeft' BY Zenon, <1>1, <1>2, JobsStep
  <2>4. tasks' \in [Ids -> TaskRecord] BY Zenon, <1>1, <1>2, TaskStep
  <2>5. TypeOK' BY Zenon, <2>2, <2>3, <2>4 DEF TypeOK, PlainTypes, TaskRecord, JobsTyped
  <2>6. SlotInv' BY Zenon, <1>1, <1>2, TaskStep, DueStep DEF SlotInv
  <2> QED BY Zenon, <2>1, <2>3, <2>5, <2>6 DEF SlotsKept
<1>3. CASE UNCHANGED vars
  <2>1. SchedInv'
    BY Zenon, <1>1, <1>3, SchedStep
  <2>2. TypeOK' /\ RetriesLeft'
    BY Zenon, <1>1, <1>3 DEF TypeOK, RetriesLeft, vars
  <2>3. SlotInv'
    BY Zenon, <1>1, <1>3 DEF SlotInv, Registered, SlotsBetween, vars
  <2> QED BY Zenon, <2>1, <2>2, <2>3 DEF SlotsKept
<1> QED BY Zenon, <1>2, <1>3

\* So it holds at all times.
LEMMA SlotInvariance == Spec => []SlotsKept
BY SlotInit, SlotStep, PTL DEF Spec

\* The daemon's state keeps its types, over crashes and restarts; no goroutine
\* of runTaskWithRetry makes more attempts than its task's policy allows.
THEOREM SchedulerTypes == Spec => []TypeOK
<1>1. SlotsKept => TypeOK
  BY Zenon DEF SlotsKept
<1> QED BY <1>1, SlotInvariance, PTL

\* No task fires twice for one slot of its schedule, nor without a slot: the
\* next run that checkAndRunTasks sets is a slot after the tick, and after a
\* restart AddTask starts from a clock that is not behind the last fire.
THEOREM OneFirePerSlot == Spec => EachRunHasItsSlot
<1>1. ASSUME SlotsKept, [Next]_vars
      PROVE  [\A id \in Ids : Fires(id) => SlotsBetween(id, fired[id], tick) # {}]_vars
  <2> SUFFICES ASSUME NEW id \in Ids, Fires(id), Next PROVE SlotsBetween(id, fired[id], tick) # {}
    BY Zenon, <1>1
  <2>1. loop = "dispatch" /\ loop' = "persist" /\ current' = id
    BY Zenon DEF Fires
  <2>2. \E i \in Ids : Dispatch(i)
    <3>1. CASE Goroutines BY Zenon, <2>1, <3>1, JobsApart
    <3>2. CASE Main BY Zenon, <2>1, <3>2
      DEF Main, Boot, Stop, StopCancel, StopReturn, AddTask, RestoreLastRun, RemoveTask
    <3>3. CASE Tick \/ Persist \/ LoopExit \/ Clock \/ Crash \/ Finished
      BY Zenon, <2>1, <3>3 DEF Tick, Persist, LoopExit, Clock, Crash, Finished, daemonVars, vars
    <3> QED BY Zenon, <3>1, <3>2, <3>3 DEF Next, LoopStep
  <2>3. id \in due
    BY Zenon, <2>1, <2>2 DEF Dispatch
  <2> QED BY Zenon, <1>1, <2>1, <2>3 DEF SlotsKept, SlotInv
<1> QED BY <1>1, SlotInvariance, PTL DEF Spec, EachRunHasItsSlot

\* RestoreLastRun reports exactly the slots a task missed, up to the limit,
\* for every calendar and every schedule with a slot in the last year.
THEOREM MissedRunsCounted == Spec => MissedCountIsExact
<1>1. ASSUME SlotsKept, [Next]_vars
      PROVE  [\A id \in Ids :
                (/\ ~Restored(id) /\ tasks'[id].missed # Never
                 /\ lastRuns[id] # Never /\ Slot(cron[id], lastRuns[id]))
                => tasks'[id].missed =
                      Min({Cardinality(SlotsBetween(id, lastRuns[id], now)), MaxMissedRunCount})]_vars
  <2> SUFFICES ASSUME NEW id \in Ids, ~Restored(id), tasks'[id].missed # Never,
                      lastRuns[id] # Never, Slot(cron[id], lastRuns[id]), Next
               PROVE  tasks'[id].missed =
                         Min({Cardinality(SlotsBetween(id, lastRuns[id], now)), MaxMissedRunCount})
    BY Zenon, <1>1
  <2>1. Registered(id) /\ tasks[id].missed = Never /\ tasks[id] # NoTask
    BY Zenon DEF Restored, Registered
  <2>2. TypeOK BY Zenon, <1>1 DEF SlotsKept
  <2>3. RestoreLastRun(id)
    <3>1. tasks'[id] # tasks[id] BY Zenon, <2>1
    <3>2. tasks'[id] # NoTask BY Zenon, KnownTimes
    <3>3. CASE Goroutines
      <4>1. PICK w, after : JobStep(w, after)
        BY Zenon, <3>3 DEF Goroutines, RunTaskWithRetry, JobSucceeds, JobFails, JobRetries, JobCancelled
      <4> QED BY Zenon, <3>1, <4>1 DEF JobStep
    <3>4. CASE Boot \/ Stop \/ StopCancel \/ Tick \/ Persist \/ LoopExit \/ Clock \/ Finished
      BY Zenon, <3>1, <3>4 DEF Boot, Stop, StopCancel, Tick, Persist, LoopExit, Clock, Finished, daemonVars, vars
    <3>5. CASE StopReturn \/ Crash
      BY Zenon, <3>2, <3>5 DEF StopReturn, Crash
    <3>6. ASSUME NEW i \in Ids, AddTask(i) \/ RemoveTask(i) PROVE FALSE
      BY Zenon, <3>6 DEF AddTask, RemoveTask, MainIsIdle
    <3>7. ASSUME NEW i \in Ids, RestoreLastRun(i) PROVE i = id
      BY Zenon, <2>2, <3>1, <3>7 DEF RestoreLastRun, TypeOK
    <3>8. ASSUME NEW i \in Ids, Dispatch(i) PROVE FALSE
      <4>1. i = id /\ Registered(i)
        BY Zenon, <2>2, <3>1, <3>8 DEF Dispatch, TypeOK
      <4>2. tasks'[id].missed = tasks[id].missed
        BY Zenon, <2>2, <3>8, <4>1 DEF Dispatch, TypeOK
      <4> QED BY Zenon, <2>1, <4>2
    <3> QED BY Zenon, <3>3, <3>4, <3>5, <3>6, <3>7, <3>8 DEF Next, Main, LoopStep
  <2>4. tasks'[id].missed = CountMissedRuns(cron[id], lastRuns[id], now, MaxMissedRunCount)
    <3>1. PICK m : m = CountMissedRuns(cron[id], lastRuns[id], now, MaxMissedRunCount) BY Zenon
    <3>2. tasks' = [tasks EXCEPT ![id].lastRun = lastRuns[id], ![id].missed = m]
      BY Zenon, <2>3, <3>1 DEF RestoreLastRun
    <3> QED BY Zenon, <2>2, <3>1, <3>2 DEF TypeOK
  <2>5. lastRuns[id] \in Nat
    BY Zenon, <2>2, KnownTimes DEF TypeOK
  <2>6. cron[id] \in Fields /\ Satisfiable(cron[id])
    BY Zenon, <2>2, SchedulerAssumption DEF TypeOK
  <2>7. /\ now \in Nat /\ MaxMissedRunCount \in Nat
        /\ \A u \in 0 .. now + 1 : u \in Moments /\ YearOf(u) < Years - 1
    BY Zenon, <2>2, ClockInRange DEF TypeOK
  <2>8. SlotsBetween(id, lastRuns[id], now) = SlotsAfter(cron[id], lastRuns[id], now)
    BY Zenon DEF SlotsBetween, SlotsAfter
  <2>9. CountsMissed(cron[id], lastRuns[id], now, MaxMissedRunCount)
    BY Zenon, <2>5, <2>6, <2>7, MissedExact
  <2> QED BY Zenon, <2>4, <2>8, <2>9 DEF CountsMissed
<1> QED BY <1>1, SlotInvariance, PTL DEF Spec, MissedCountIsExact

-----------------------------------------------------------------------------
(* Delegation *)

\* A saved answer.
AnyResult == [job : Jobs, goal : Goals]

\* The types of a delegation and its sidecar.
DelegationType ==
    /\ goal \in Goals \cup {NoGoal} /\ resumed \subseteq AnyResult
    /\ job \in [Jobs -> {"idle", "restored", "queued", "slot", "probing", "running",
                         "recording", "ok", "failed"}]
    /\ sidecar \in [goal : Goals \cup {NoGoal}, results : SUBSET AnyResult]
    /\ saved \subseteq Jobs /\ savedBefore \subseteq Jobs

(* What the sidecar holds answers its goal, and holds all that counts as   *)
(* saved for that goal; so do the results in memory, from which it is      *)
(* rewritten, once an attempt at the same goal has loaded them.            *)
DelegationInv ==
    /\ DelegationType
    /\ (goal = NoGoal) => (resumed = {} /\ \A j \in Jobs : job[j] = "idle")
    /\ \A r \in resumed : r.goal = goal
    /\ \A r \in sidecar.results : r.goal = sidecar.goal
    /\ saved \subseteq AnsweredJobs(sidecar.results)
    /\ (goal # NoGoal /\ sidecar.goal = goal) => saved \subseteq AnsweredJobs(resumed)
    /\ (goal # NoGoal) => \A j \in savedBefore : job[j] \in {"idle", "restored"}

\* Before the first attempt there is no file and nothing was saved.
LEMMA DelegationStarts == DelegationInit => DelegationInv
    BY DelegationAssumption
    DEF DelegationInit, DelegationInv, DelegationType, Nothing, AnsweredJobs, AnyResult

\* A job's step leaves the books as they are and restored jobs alone.
LEMMA JobMoves ==
    ASSUME DelegationInv, NEW j \in Jobs, job[j] \notin {"idle", "restored"},
           NEW s \in {"slot", "probing", "running", "recording", "ok", "failed"}, To(j, s),
           UNCHANGED <<goal, resumed, sidecar, saved, savedBefore>>
    PROVE  DelegationInv'
<1>1. goal # NoGoal
    BY Zenon DEF DelegationInv
<1>2. DelegationType'
    BY Zenon DEF DelegationInv, DelegationType, To
<1>3. \A k \in savedBefore : job'[k] \in {"idle", "restored"}
    BY Zenon, <1>1 DEF DelegationInv, DelegationType, To
<1> QED BY Zenon, <1>1, <1>2, <1>3 DEF DelegationInv, AnsweredJobs

\* An attempt loads what was saved for its goal, and nothing else; or nothing.
LEMMA AttemptStarts ==
    ASSUME DelegationInv, NEW g \in Goals, NEW plan \in SUBSET Jobs, runDelegations(g, plan)
    PROVE  DelegationInv'
<1>1. /\ goal' = g /\ g # NoGoal
      /\ \/ /\ UNCHANGED <<sidecar, saved>>
            /\ resumed' = IF sidecar.goal = g THEN sidecar.results ELSE {}
            /\ savedBefore' = IF sidecar.goal = g THEN saved ELSE {}
         \/ /\ sidecar' \in {sidecar, [goal |-> NoGoal, results |-> {}]}
            /\ resumed' = {} /\ saved' = {} /\ savedBefore' = {}
      /\ job' = [j \in Jobs |-> IF j \notin plan THEN "idle"
                                ELSE IF j \in AnsweredJobs(resumed') THEN "restored" ELSE "queued"]
    BY Zenon, DelegationAssumption DEF runDelegations, newDelegationResume, Nothing
<1>8. /\ sidecar' \in [goal : Goals \cup {NoGoal}, results : SUBSET AnyResult]
      /\ resumed' \subseteq AnyResult /\ saved' \subseteq Jobs /\ savedBefore' \subseteq Jobs
      /\ \A r \in sidecar'.results : r.goal = sidecar'.goal
  <2>1. [goal |-> NoGoal, results |-> {}] \in [goal : Goals \cup {NoGoal}, results : SUBSET AnyResult]
      BY Zenon
  <2>2. sidecar.results \subseteq AnyResult
      BY DEF DelegationInv, DelegationType
  <2>3. /\ sidecar' \in {sidecar, [goal |-> NoGoal, results |-> {}]}
        /\ resumed' \in {sidecar.results, {}} /\ saved' \in {saved, {}} /\ savedBefore' \in {saved, {}}
      BY Zenon, <1>1
  <2>4. sidecar' \in [goal : Goals \cup {NoGoal}, results : SUBSET AnyResult]
      BY Zenon, <2>1, <2>3 DEF DelegationInv, DelegationType
  <2>5. \A r \in sidecar'.results : r.goal = sidecar'.goal
    <3>1. [goal |-> NoGoal, results |-> {}].results = {}
        OBVIOUS
    <3> QED BY Zenon, <2>3, <3>1 DEF DelegationInv
  <2>6. resumed' \subseteq AnyResult /\ saved' \subseteq Jobs /\ savedBefore' \subseteq Jobs
      BY Zenon, <2>2, <2>3 DEF DelegationInv, DelegationType
  <2> QED BY Zenon, <2>4, <2>5, <2>6
<1>9. job' \in [Jobs -> {"idle", "restored", "queued", "slot", "probing", "running",
                        "recording", "ok", "failed"}]
    BY Zenon, <1>1
<1>2. DelegationType'
    BY Zenon, <1>1, <1>8, <1>9 DEF DelegationType
<1>3. savedBefore' \subseteq AnsweredJobs(resumed')
    BY Zenon, <1>1 DEF DelegationInv, AnsweredJobs
<1>4. \A j \in savedBefore' : job'[j] \in {"idle", "restored"}
    BY Zenon, <1>1, <1>2, <1>3 DEF DelegationType
<1>5. \A r \in resumed' : r.goal = goal'
    BY Zenon, <1>1 DEF DelegationInv
<1>6. sidecar'.goal = goal' => saved' \subseteq AnsweredJobs(resumed')
    BY Zenon, <1>1 DEF DelegationInv
<1>7. saved' \subseteq AnsweredJobs(sidecar'.results)
    BY Zenon, <1>1 DEF DelegationInv
<1>10. goal' # NoGoal
    BY Zenon, <1>1
<1> QED BY Zenon, <1>2, <1>4, <1>5, <1>6, <1>7, <1>8, <1>10 DEF DelegationInv

\* A result goes to memory, and with all of memory to the file.
LEMMA ResultRecorded ==
    ASSUME DelegationInv, NEW j \in Jobs, recordResult(j)
    PROVE  DelegationInv'
<1>1. /\ job[j] = "recording" /\ goal \in Goals /\ goal # NoGoal
      /\ UNCHANGED <<goal, savedBefore>>
      /\ job' = [job EXCEPT ![j] = "ok"]
      /\ resumed' = resumed \cup {Result(j)}
    BY Zenon DEF recordResult, To, DelegationInv, DelegationType
<1>2. Result(j) \in AnyResult /\ Result(j).goal = goal /\ Result(j).job = j
    BY Zenon, <1>1 DEF Result, AnyResult
<1>3. /\ \A k \in savedBefore : job'[k] \in {"idle", "restored"}
      /\ \A r \in resumed' : r.goal = goal
    BY Zenon, <1>1, <1>2 DEF DelegationInv, DelegationType
<1>4. AnsweredJobs(resumed') = AnsweredJobs(resumed) \cup {j}
    BY Zenon, <1>1, <1>2 DEF AnsweredJobs
<1>5. CASE UNCHANGED <<sidecar, saved>>
  <2>1. DelegationType'
      BY Zenon, <1>1, <1>2, <1>5 DEF DelegationInv, DelegationType
  <2> QED BY Zenon, <1>1, <1>3, <1>4, <1>5, <2>1 DEF DelegationInv
<1>6. CASE /\ sidecar' = [goal |-> goal, results |-> resumed']
           /\ saved' = {j} \cup (IF sidecar.goal = goal THEN saved ELSE {})
  <2>1. DelegationType'
      BY Zenon, <1>1, <1>2, <1>6 DEF DelegationInv, DelegationType
  <2>2. saved' \subseteq AnsweredJobs(resumed')
      BY Zenon, <1>1, <1>4, <1>6 DEF DelegationInv
  <2> QED BY Zenon, <1>1, <1>3, <1>6, <2>1, <2>2 DEF DelegationInv
<1> QED BY Zenon, <1>5, <1>6 DEF recordResult

\* The file may become another supervisor's; what counts as saved shrinks.
LEMMA SiblingRecorded ==
    ASSUME DelegationInv, NEW g \in Goals, NEW answered \in SUBSET Jobs, siblingRecords(g, answered)
    PROVE  DelegationInv'
<1>1. PICK R : R = {[job |-> j, goal |-> g] : j \in answered}
    BY Zenon
<1>2. /\ UNCHANGED <<goal, resumed, job, savedBefore>>
      /\ sidecar' = [goal |-> g, results |-> R]
      /\ saved' = IF sidecar.goal = g THEN saved \cap answered ELSE {}
    BY Zenon, <1>1 DEF siblingRecords, jobVars
<1>9. \A j \in answered : /\ [job |-> j, goal |-> g] \in AnyResult
                           /\ [job |-> j, goal |-> g].job = j /\ [job |-> j, goal |-> g].goal = g
    BY DEF AnyResult
<1>3. R \subseteq AnyResult /\ (\A r \in R : r.goal = g) /\ answered \subseteq AnsweredJobs(R)
    BY Zenon, <1>1, <1>9 DEF AnsweredJobs
<1>4. /\ sidecar'.goal = g /\ sidecar'.results = R
      /\ sidecar' \in [goal : Goals \cup {NoGoal}, results : SUBSET AnyResult]
    BY Zenon, <1>2, <1>3
<1>5. saved' \subseteq answered /\ saved' \subseteq saved /\ (sidecar.goal # g => saved' = {})
    BY Zenon, <1>2
<1>6. DelegationType'
    BY Zenon, <1>2, <1>4, <1>5 DEF DelegationInv, DelegationType
<1>7. saved' \subseteq AnsweredJobs(sidecar'.results)
    BY Zenon, <1>3, <1>4, <1>5
<1>8. (goal' # NoGoal /\ sidecar'.goal = goal') => saved' \subseteq AnsweredJobs(resumed')
    BY Zenon, <1>2, <1>4, <1>5 DEF DelegationInv
<1> QED BY Zenon, <1>2, <1>3, <1>4, <1>6, <1>7, <1>8 DEF DelegationInv

\* Every step keeps the sidecar, the memory and what was saved in agreement.
LEMMA DelegationStep == DelegationInv /\ [DelegationNext]_delegationVars => DelegationInv'
<1> SUFFICES ASSUME DelegationInv, [DelegationNext]_delegationVars PROVE DelegationInv'
    BY Zenon
<1>1. ASSUME NEW j \in Jobs, jobStep(j) PROVE DelegationInv'
  <2>1. CASE recordResult(j)
      BY Zenon, <2>1, ResultRecorded
  <2>2. CASE takeSlot(j) \/ slotCancelled(j)
      BY Zenon, <2>2, JobMoves DEF takeSlot, slotCancelled, ghostVars
  <2>3. CASE allow(j)
    <3>1. PICK s \in {"running", "failed", "probing"} : To(j, s)
        BY Zenon, <2>3 DEF allow
    <3> QED BY Zenon, <2>3, <3>1, JobMoves DEF allow, ghostVars
  <2>4. CASE probe(j)
      BY Zenon, <2>4, JobMoves DEF probe, ghostVars
  <2>5. CASE delegationSucceeds(j) \/ delegationFails(j) \/ delegationUntold(j)
      BY Zenon, <2>5, JobMoves DEF delegationSucceeds, delegationFails, delegationUntold, ghostVars
  <2> QED BY Zenon, <1>1, <2>1, <2>2, <2>3, <2>4, <2>5 DEF jobStep
<1>2. CASE delegationsReturn \/ DelegationCrash
    BY Zenon, <1>2 DEF delegationsReturn, DelegationCrash, ghostVars, DelegationInv, DelegationType
<1>3. CASE cancelStep \/ DelegationOver \/ (\E a \in Agents : CoolDown(a)) \/ UNCHANGED delegationVars
  <2>1. UNCHANGED <<goal, resumed, job, sidecar, saved, savedBefore>>
      BY Zenon, <1>3 DEF cancelStep, DelegationOver, CoolDown, delegationVars, jobVars, ghostVars
  <2> QED BY Zenon, <2>1 DEF DelegationInv, DelegationType, AnsweredJobs
<1> QED BY Zenon, <1>1, <1>2, <1>3, AttemptStarts, SiblingRecorded, DelegationAssumption DEF DelegationNext

\* What an earlier attempt saved for the same goal is not sent to an agent
\* again, whatever crashed and whichever writes failed in between, as long as
\* the sidecar could be read and was not rewritten without it by another
\* supervisor of the same step (delegationResume, nodes/supervisor_checkpoint.go).
THEOREM SavedIsFinal == DelegationSpec => []SavedNotRedone
<1>1. DelegationInv => SavedNotRedone
    BY Zenon DEF DelegationInv, SavedNotRedone
<1> QED BY DelegationStarts, DelegationStep, <1>1, PTL DEF DelegationSpec

\* No restored result answers another goal (newDelegationResume).
THEOREM RestoredFits == DelegationSpec => []RestoredAnswersGoal
<1>1. DelegationInv => RestoredAnswersGoal
    BY Zenon DEF DelegationInv, RestoredAnswersGoal
<1> QED BY DelegationStarts, DelegationStep, <1>1, PTL DEF DelegationSpec
=============================================================================
