----------------------------- MODULE Scheduler -----------------------------
(***************************************************************************)
(* The cron scheduler of internal/scheduler/scheduler.go inside the agent  *)
(* daemon (internal/cli/agent.go): the tick loop, the task goroutines with *)
(* their retries, the last-run file of lastrun_store.go, Stop, and the     *)
(* daemon's death and restart.  Time is counted in minutes.                *)
(***************************************************************************)
EXTENDS Cron

CONSTANTS
    Ids,                \* task ids
    Schedules,          \* the choices of a schedule for every task
    MaxRetries,         \* per task, RetryPolicy.MaxRetries, 0 with AddTask
    MaxMissedRunCount,
    MayLoadFail,        \* whether LoadLastRuns can fail
    MaySaveFail,        \* whether SaveLastRuns can fail
    MaxNow,             \* the last minute of the clock
    MaxBoots            \* the number of daemon processes in turn

ASSUME SchedulerAssumption ==
    /\ Schedules \subseteq [Ids -> Fields]
    /\ \A schedules \in Schedules, id \in Ids : Satisfiable(schedules[id])
    /\ MaxRetries \in [Ids -> Nat] /\ MaxMissedRunCount \in Nat
    /\ MayLoadFail \in BOOLEAN /\ MaySaveFail \in BOOLEAN
    /\ MaxNow \in Nat /\ \A t \in 0 .. MaxNow + 2 : t \in Moments /\ YearOf(t) < Years - 1
    /\ MaxBoots \in Nat

Never == -1
NoTask == [nextRun |-> Never, lastRun |-> Never, missed |-> Never]
NoId == "none"

VARIABLES
    cron,       \* the schedule of every task id
    now,        \* the current minute
    proc,       \* the daemon: "down", "up", and the stages of Stop
    loop,       \* the tick loop: "off", "wait", "dispatch", "persist"
    tick,       \* the time checkAndRunTasks was called with
    due,        \* tasksToRun, not yet dispatched
    current,    \* the task whose fire is being persisted
    tasks,      \* s.tasks
    lastRuns,   \* the daemon's map of last runs
    file,       \* lastrun.json
    jobs,       \* task goroutines
    fired,      \* history: when each task fired last
    boots       \* daemon processes started

vars == <<cron, now, proc, loop, tick, due, current, tasks, lastRuns, file, jobs, fired, boots>>

daemonVars == <<proc, loop, tick, due, current, tasks, lastRuns, jobs>>

\* nextRunTime of the schedules in use, as a table.
NextRun == [schedule \in {schedules[id] : schedules \in Schedules, id \in Ids} |->
               [from \in 0 .. MaxNow + 1 |-> NextRunTime(schedule, from)]]

Times == {Never} \cup 0 .. MaxNow
Job == [id : Ids, at : 0 .. MaxNow, attempt : Nat, waiting : BOOLEAN]
Registered(id) == tasks[id] # NoTask

\* The daemon calls RestoreLastRun right after it adds a task.
Restored(id) == Registered(id) => tasks[id].missed # Never
MainIsIdle == proc = "up" /\ \A id \in Ids : Restored(id)

Init ==
    /\ cron \in Schedules
    /\ now = 0 /\ tick = 0
    /\ proc = "down" /\ loop = "off" /\ due = {} /\ current = NoId
    /\ tasks = [id \in Ids |-> NoTask]
    /\ lastRuns = [id \in Ids |-> Never]
    /\ file = [id \in Ids |-> Never]
    /\ jobs = {} /\ boots = 0
    /\ fired = [id \in Ids |-> Never]

-----------------------------------------------------------------------------
(* The daemon's main goroutine *)

NoRuns == [id \in Ids |-> Never]

\* runAgentDaemon loads lastrun.json and calls Start.  When the file cannot be
\* read the map is empty; a corrupt one is also moved aside.
Boot ==
    /\ proc = "down" /\ boots < MaxBoots
    /\ boots' = boots + 1
    /\ \/ lastRuns' = file /\ UNCHANGED file
       \/ MayLoadFail /\ lastRuns' = NoRuns /\ file' \in {file, NoRuns}
    /\ proc' = "up" /\ loop' = "wait"
    /\ UNCHANGED <<cron, now, tick, due, current, tasks, jobs, fired>>

\* Mutant: the first run may be in the current minute.
AddTaskFromNow(id) ==
    /\ MainIsIdle /\ ~Registered(id)
    /\ tasks' = [tasks EXCEPT ![id] = [nextRun |-> Min(Candidates(cron[id], now)),
                                       lastRun |-> Never, missed |-> Never]]
    /\ UNCHANGED <<cron, now, proc, loop, tick, due, current, lastRuns, file, jobs, fired, boots>>

\* AddTask and AddRetryingTask.
AddTask(id) ==
    /\ MainIsIdle /\ ~Registered(id)
    /\ tasks' = [tasks EXCEPT ![id] = [nextRun |-> NextRun[cron[id]][now],
                                       lastRun |-> Never, missed |-> Never]]
    /\ UNCHANGED <<cron, now, proc, loop, tick, due, current, lastRuns, file, jobs, fired, boots>>

\* Its argument is the entry of the map, none if the task never fired.
RestoreLastRun(id) ==
    /\ proc = "up" /\ ~Restored(id)
    /\ tasks' = [tasks EXCEPT
          ![id].lastRun = IF lastRuns[id] = Never THEN @ ELSE lastRuns[id],
          ![id].missed = IF lastRuns[id] = Never THEN 0
                         ELSE CountMissedRuns(cron[id], lastRuns[id], now, MaxMissedRunCount)]
    /\ UNCHANGED <<cron, now, proc, loop, tick, due, current, lastRuns, file, jobs, fired, boots>>

RemoveTask(id) ==
    /\ MainIsIdle /\ Registered(id)
    /\ tasks' = [tasks EXCEPT ![id] = NoTask]
    /\ UNCHANGED <<cron, now, proc, loop, tick, due, current, lastRuns, file, jobs, fired, boots>>

\* Stop: close the stop channel, ...
Stop ==
    /\ MainIsIdle
    /\ proc' = "stopping"
    /\ UNCHANGED <<cron, now, loop, tick, due, current, tasks, lastRuns, file, jobs, fired, boots>>

\* ... wait for the loop and cancel the context of the goroutines, ...
StopCancel ==
    /\ proc = "stopping" /\ loop = "off"
    /\ proc' = "cancelled"
    /\ UNCHANGED <<cron, now, loop, tick, due, current, tasks, lastRuns, file, jobs, fired, boots>>

\* ... and wait for the goroutines.  The daemon exits.
StopReturn ==
    /\ proc = "cancelled" /\ jobs = {}
    /\ proc' = "down"
    /\ tasks' = [id \in Ids |-> NoTask] /\ lastRuns' = NoRuns
    /\ UNCHANGED <<cron, now, loop, tick, due, current, file, jobs, fired, boots>>

-----------------------------------------------------------------------------
(* The tick loop *)

\* checkAndRunTasks, the snapshot.  The clock goes on during the call: so it
\* does when the ticker hands over a tick that it kept for a late loop.
DueAt(at) == {id \in Ids : Registered(id) /\ tasks[id].nextRun <= at}

Tick ==
    /\ loop = "wait" /\ DueAt(now) # {}
    /\ tick' = now /\ due' = DueAt(now)
    /\ loop' = "dispatch"
    /\ UNCHANGED <<cron, now, proc, current, tasks, lastRuns, file, jobs, fired, boots>>

\* The time of a task's next run, set when the task fires.
Reschedule(id) == NextRun[cron[id]][tick + 1]

\* One round of the loop over tasksToRun: the goroutine, and the update of the
\* task, if it is still there.
Dispatch(id) ==
    /\ loop = "dispatch" /\ id \in due
    /\ jobs' = jobs \cup {[id |-> id, at |-> tick, attempt |-> 0, waiting |-> FALSE]}
    /\ tasks' = IF Registered(id)
                THEN [tasks EXCEPT ![id].nextRun = Reschedule(id), ![id].lastRun = tick]
                ELSE tasks
    /\ fired' = [fired EXCEPT ![id] = tick]
    /\ current' = id /\ due' = due \ {id} /\ loop' = "persist"
    /\ UNCHANGED <<cron, now, proc, tick, lastRuns, file, boots>>

\* The onFire callback of the daemon saves the map of last runs.
Persist ==
    /\ loop = "persist"
    /\ lastRuns' = [lastRuns EXCEPT ![current] = tick]
    /\ \/ file' = lastRuns'
       \/ MaySaveFail /\ UNCHANGED file
    /\ IF due = {} THEN loop' = "wait" /\ tick' = 0
       ELSE loop' = "dispatch" /\ UNCHANGED tick
    /\ current' = NoId
    /\ UNCHANGED <<cron, now, proc, due, tasks, jobs, fired, boots>>

\* The stop channel is closed.  A tick that is there too may be taken first.
LoopExit ==
    /\ loop = "wait" /\ proc = "stopping"
    /\ loop' = "off"
    /\ UNCHANGED <<cron, now, proc, tick, due, current, tasks, lastRuns, file, jobs, fired, boots>>

-----------------------------------------------------------------------------
(* The task goroutines: runTaskWithRetry; a task without ErrFunc has no retries *)

JobStep(job, after) ==
    /\ jobs' = (jobs \ {job}) \cup after
    /\ UNCHANGED <<cron, now, proc, loop, tick, due, current, tasks, lastRuns, file, fired, boots>>

JobSucceeds(job) == ~job.waiting /\ JobStep(job, {})

JobFails(job) ==
    /\ ~job.waiting
    /\ JobStep(job, IF job.attempt >= MaxRetries[job.id] THEN {} ELSE {[job EXCEPT !.waiting = TRUE]})

\* Mutant: the attempt is not counted.
JobRetriesUncounted(job) == job.waiting /\ JobStep(job, {[job EXCEPT !.waiting = FALSE]})

JobRetries(job) ==
    job.waiting /\ JobStep(job, {[job EXCEPT !.waiting = FALSE, !.attempt = @ + 1]})

JobCancelled(job) == job.waiting /\ proc = "cancelled" /\ JobStep(job, {})

-----------------------------------------------------------------------------
Clock ==
    /\ now < MaxNow
    /\ now' = now + 1
    /\ UNCHANGED <<cron, file, fired, boots, daemonVars>>

\* The daemon dies; lastrun.json is replaced atomically, so it is whole.
Crash ==
    /\ proc # "down"
    /\ proc' = "down" /\ loop' = "off" /\ due' = {} /\ current' = NoId /\ jobs' = {}
    /\ tick' = 0
    /\ tasks' = [id \in Ids |-> NoTask] /\ lastRuns' = NoRuns
    /\ UNCHANGED <<cron, now, file, fired, boots>>

\* The bounds are used up.
Finished ==
    /\ proc = "down" /\ boots = MaxBoots /\ now = MaxNow
    /\ UNCHANGED vars

LoopStep == Tick \/ (\E id \in Ids : Dispatch(id)) \/ Persist \/ LoopExit

RunTaskWithRetry(job) == JobSucceeds(job) \/ JobFails(job) \/ JobRetries(job) \/ JobCancelled(job)

Goroutines == \E job \in jobs : RunTaskWithRetry(job)

Main ==
    \/ Boot \/ Stop \/ StopCancel \/ StopReturn
    \/ \E id \in Ids : AddTask(id) \/ RestoreLastRun(id) \/ RemoveTask(id)

Next == Main \/ LoopStep \/ Goroutines \/ Clock \/ Crash \/ Finished

Spec == Init /\ [][Next]_vars

\* Goroutines that can run are scheduled, timers fire, and the functions of
\* the tasks return.  It is enough that one of them moves: each has only
\* finitely many steps to take once Stop is called.
Progress == LoopStep \/ Goroutines \/ StopCancel \/ StopReturn

FairSpec == Spec /\ WF_vars(Progress)

-----------------------------------------------------------------------------
(* Properties *)

\* The types of the daemon's state; no goroutine makes more attempts than its
\* task's retry policy allows.
TypeOK ==
    /\ cron \in Schedules
    /\ now \in 0 .. MaxNow /\ tick \in 0 .. now
    /\ proc \in {"down", "up", "stopping", "cancelled"}
    /\ loop \in {"off", "wait", "dispatch", "persist"}
    /\ due \subseteq Ids /\ current \in Ids \cup {NoId}
    /\ tasks \in [Ids -> [nextRun : Moments \cup {Never}, lastRun : Times,
                          missed : {Never} \cup 0 .. MaxMissedRunCount]]
    /\ lastRuns \in [Ids -> Times] /\ file \in [Ids -> Times] /\ fired \in [Ids -> Times]
    /\ jobs \subseteq Job /\ \A job \in jobs : job.attempt <= MaxRetries[job.id]
    /\ boots \in 0 .. MaxBoots

Fires(id) == loop = "dispatch" /\ loop' = "persist" /\ current' = id

SlotsBetween(id, from, to) == {t \in from + 1 .. to : Slot(cron[id], t)}

\* A task fires at most once for a slot of its schedule, and never without
\* one: between two fires in a row, in one process or in two, there is a slot
\* of its own for the second.  ("recording at dispatch ... means ... a restart
\* never double-triggers it", checkAndRunTasks.)
EachRunHasItsSlot ==
    [][\A id \in Ids : Fires(id) => SlotsBetween(id, fired[id], tick) # {}]_vars

\* RestoreLastRun counts exactly the slots since the run it is given, if that
\* run was at a slot: none is counted twice and none is passed over.
MissedCountIsExact ==
    [][\A id \in Ids :
          (/\ ~Restored(id) /\ tasks'[id].missed # Never
           /\ lastRuns[id] # Never /\ Slot(cron[id], lastRuns[id]))
          => tasks'[id].missed =
                Min({Cardinality(SlotsBetween(id, lastRuns[id], now)), MaxMissedRunCount})]_vars

\* Once Stop has cancelled the goroutines no task fires any more: all that
\* run then were told to end, and Stop waits for them all.
NoFireAfterCancel ==
    [][\A id \in Ids : Fires(id) => proc \in {"up", "stopping"}]_vars

\* What lastrun.json says of a task is never later than its last fire and never
\* goes back to an earlier one, over restarts and failed saves.  An entry can
\* only be lost, and only where a daemon could not load the file: it moves the
\* file aside or saves its own map, without the entry, over it.
LastRunsAdvance ==
    [][\A id \in Ids :
          /\ \/ file[id] <= file'[id]
             \/ MayLoadFail /\ lastRuns[id] = Never /\ file'[id] = Never
          /\ file'[id] <= fired'[id]]_vars

\* Stop returns (or the process is killed).
StopReturns == proc = "stopping" ~> proc = "down"

\* "Every minute", "Daily at 9 AM" (docs/scheduling.md): when nothing is due,
\* the next run of a task is not later than the next slot of its schedule.
NoSlotSkipped ==
    (loop = "wait" /\ DueAt(now) = {}) =>
        \A id \in Ids : Registered(id) => SlotsBetween(id, now, tasks[id].nextRun - 1) = {}
=============================================================================
