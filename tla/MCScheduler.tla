---------------------------- MODULE MCScheduler ----------------------------
(* The instance of Scheduler for TLC: a calendar of small hours, days and years. *)
EXTENDS Scheduler

\* Two months, of two days and of one day.
MCYear == <<[month |-> 1, day |-> 1], [month |-> 1, day |-> 2], [month |-> 2, day |-> 1]>>

Every == [minute |-> {0, 1}, hour |-> {0, 1}, dayOfMonth |-> {1, 2},
          month |-> {1, 2}, dayOfWeek |-> {0, 1}]
Hourly == [Every EXCEPT !.minute = {0}]
Daily == [Hourly EXCEPT !.hour = {1}]
Weekly == [Every EXCEPT !.dayOfWeek = {1}]

\* Task "a" is added with AddRetryingTask.
MCSchedules == {[id \in Ids |-> IF id = "a" THEN Daily ELSE Hourly],
                [id \in Ids |-> IF id = "a" THEN Weekly ELSE Every]}
MCRetries == [id \in Ids |-> IF id = "a" THEN 1 ELSE 0]

MCDaily == {[id \in Ids |-> Daily]}
=============================================================================
