# A TLA+ verification of the aflare workflow engine

aflare runs workflows on one machine: a workflow is a list of steps, each a call
of a node (HTTP, files, mail, a language model) or a compound of such calls. The
parts that make it hard are around the nodes: steps that run concurrently and
finish in any order, processes that die and resume from a file, triggers of the
same work from several processes, servers that are stopped while they work, and
a daemon whose goroutines wait for each other. This directory models those
parts, checks them with TLC and proves the main properties with TLAPS. What a
node computes is a free choice in every model.

## The system

| Part | Code (`src/internal/`) | State | Operations |
|---|---|---|---|
| DAG scheduler | `workflow/executor_dag.go` | pending counts, ready queue, dispatch order, reorder buffer, outputs, checkpoint file | dispatch, worker, receive, process in order, recover, abort, save, resume |
| Dependency graph | `workflow/dag.go` | colours and stack of the search, in-degrees, batches | build, detectCycle, topoBatches |
| Write-ahead log | `workflow/wal.go`, `executor_state.go`, `executor_seq*.go` | file, buffer, fsynced prefix, baseline of deltas, sequence number | Append, Flush, Sync, Close, Compact, replay, resume |
| Idempotency | `workflow/idempotency.go`, `executor_executor.go` | record file and lock file of a key | Check, Reserve, run, Record, reap, reclaim |
| Cron scheduler | `scheduler/scheduler.go`, `lastrun_store.go`, `cli/agent.go` | tasks and next runs, last-run map and file, goroutines | AddTask, RemoveTask, RestoreLastRun, tick, retry, Stop |
| Compound steps | `workflow/executor_{parallel,map,map_backpressure,reduce,loop}.go` | goroutines, bounded queue, slots of the shared limiter | spawn, submit, take, acquire, execute, collect, cancel |
| Saga | `workflow/executor_saga.go` | completed steps | forward, compensate, abort |
| Pipeline | `workflow/pipeline.go` | batches, semaphore, results | launch, skip, retry, end of batch |
| Pause and resume | `workflow/resume.go`, `executor_seq*.go`, `api/server.go` | run metadata, copies of the log, shutdown flag | pause, load, mark, resume, save, end, restart |
| Delegation | `nodes/supervisor_{agents,checkpoint}.go`, `agentx/{breaker,cli,a2a}.go` | job goroutines, sidecar file, circuits | delegate, allow, probe, record, crash |
| Daemon | `cli/agent.go`, `taskqueue/queue.go`, `agent/loop.go` | queue and statuses, channels, terminal | enqueue, dequeue, handle, prompt, shut down |
| Webhook server | `webhook/webhook.go` | delivery cache, rate window, slots, tasks | receive, record, start, settle, clean up, Stop |
| Audit log | `history/history_{append,keys,verify}.go` | chained records, lock file, key file | lock, reclaim, choose key, append, verify |
| Model access | `nodes/llm_router.go`, `router_*.go`, `nodes/core/llm_*.go`, `cache/cache.go` | circuits, quotas and their file, cache, shared calls | choose, call, fall back, charge, persist, look up, insert |
| Shutdown flag, limiter | `workflow/shutdown.go`, `executor_state.go` | one flag; a channel of slots | signal; acquire, release |

They interact as follows. `ExecuteWithTrace` claims the idempotency key, then
runs the DAG scheduler (if a step declares dependencies) or the sequential
executor, then records the outcome. The DAG scheduler accepts only graphs that
`detectCycle` let through, takes slots of the limiter in its workers, and
persists a JSON checkpoint; the sequential executor persists to the log, pauses
into a run directory and is resumed from it through the API server. Compound
steps take their slots from the same limiter. The daemon's scheduler and file
watcher start tasks that reach the agent loop through the queue. A supervisor
node delegates to external agents, and a language-model node goes through the
router and the cache. The audit log is appended by whichever processes run. The
remaining packages are listed in `PROJECT.json` with the reason why each is not
modelled.

The hard behaviours, and the properties that speak of them, are the `hazards` of
`PROJECT.json`. Every property that a run checks answers at least one of them.

## Modules

| Module | Models | How |
|---|---|---|
| `DAGScheduler` | the DAG executor | One action per phase of the scheduler goroutine (`DispatchReady`, `AwaitReceive`, `ProcessNextResult`, `EndDispatch`), two per worker (`Acquire` or `AcquireTimeout`, `ExecuteDAGStep`), `RequestShutdown`, `Crash`, `Start` with the checkpoint restored. Outputs are abstract values; `Evaluated`, `Conditional`, `Recoverable` and `ContinueOnError` say which steps have expressions, conditions, recovery and tolerance. |
| `DepGraph` | `buildDepGraph`, `detectCycle`, `topoBatches` | The search is a stack machine that examines the dependencies of a step in any order, as Go's maps do; the layering takes one batch per step. |
| `WAL` | the log and the sequential executor over it | The file is a sequence of frames, each whole or torn; a crash keeps the fsynced prefix and any part of the rest. Each durability level is a mode. `Save` is `ExecuteStep` followed by `MaybeCompact`; the sync goroutine runs between them. A process may fail to open its log, or open it and fail to replay it and start over behind it. |
| `Idempotency` | `ExecuteWithTrace` over the file store | Every file operation (read, reap, create lock, read under lock, write, release, reclaim, record) is a step of its caller. Ages are flags; a record may fail the check of its HMAC. A run succeeds, fails, or is cut short by a shutdown without an error. |
| `IdempotencyLedger` | the in-memory store | The abstract specification: claims and outcomes in one step each. |
| `Cron` | `nextRunTime`, `countMissedRuns` | A declarative form of the five nested loops, over any calendar: the smallest slot within the lower bounds that the loops keep. |
| `Scheduler` | the tick loop, goroutines, Stop, the last-run file, the daemon's life | `Tick` takes the snapshot, `Dispatch` and `Persist` alternate for its tasks; `Stop`, `StopCancel`, `StopReturn` are the three waits of `Stop`. A load or save of the last-run file may fail. Time counts minutes. |
| `FanOut` | parallel, loop, map and reduce steps | A tree of at most two levels: items, and the items of a nested step. A shape says which kind, how concurrent, whether it stops on an error and whether its items nest. Slots belong to the limiter both levels share. A panic of a node is a failure or an empty success where the code recovers it, at the item or at the map around its step; one that nothing recovers ends the process and is left out. |
| `Saga` | saga steps | The forward loop, the compensation loop, and the restart that begins from the first step. `applied` and `tried` count effects and compensations over all crashes. |
| `Pipeline` | `PipelineExecutor` | Layering by in-degrees, one goroutine per stage of a batch under the semaphore, the policies of a failure and of exhausted retries. |
| `PausedRuns` | sequential runs over pauses, resumptions, shutdowns and restarts | A log is the number of its last saved step (the records are the subject of `WAL`). The metadata is read and written in separate steps. A log may be unreadable on resumption, and a node may panic. `excuse` collects the faults that a property allows for. |
| `Delegation` | `runDelegations`, the sidecar, the breakers | One goroutine per job. The planner may plan other jobs in every attempt. A result is the goal it answers. The sidecar may be unreadable, and `siblingRecords` is the write of another supervisor nested in the same step, to the same file. |
| `AgentDaemon` | `HandleAgent` with its queue and agent loop | Channels are sequences with a capacity, a `select` is a choice among the cases that can go on. A schedule's callback is a source of tasks. |
| `Webhook` | the webhook server | Handlers, task goroutines, the clean-up goroutine and `Stop`. Time is what has expired. |
| `AuditChain` | `AppendAuditLog` and `VerifyAuditChain` | A hash is the number of the record it belongs to; a key is where it comes from. A write may be cut, or lose its newline. |
| `LLMRouter` | candidate choice, breakers, quotas | The day is read before the lock, the selection made under it, the call without it, outcome and charge in steps of their own; the writer of the quota file is a goroutine. A new process may be unable to read or clear a record. |
| `LLMCall` | cache and shared calls of one node | Look-up, join, call, insertion and eviction; expiry by a clock. |
| `DAGInvariant`, `*Proofs` | | Inductive invariants, lemmas and theorems. |
| `MC*` | | Constants of the instances that TLC checks. |

Definitions whose comment begins with "Mutant" are deliberately wrong versions of
the definition that follows. They belong to no specification; each shows that a
property can fail.

## Runs

| Run | Question | Size and bounds |
|---|---|---|
| `dag_runs` | Are order, inputs, checkpoint and abort right, and does a run end? | Three roots and a join, two slots, two processes; 225 000 states. Three roots are needed for two failures and a success to race over two slots; the join has a dependency that may fail and one that may be skipped. |
| `logs` | Does recovery of the write-ahead log give a state that was saved, with all that was acknowledged? Does the audit chain verify? | Three steps, two outputs, two processes, a compaction threshold below a run's log; two processes that append three records with one fault. 2.0 million states. The second process resumes from every log that a crash of the first can leave, torn frames included; `overTorn` tells those behaviours apart, which `wal_torn_lost` is about. |
| `idempotency` | With every fault at once, are cache hits genuine and does every call return? | Two callers, three runs, failing I/O, records that expire or fail their HMAC, runs that a shutdown cuts short, deaths in and outside the lock; 710 000 states. |
| `scheduler` | Once per slot, exact counts, and a Stop that returns? | Two tasks (one with a retry), two pairs of schedules, two processes, five minutes of a calendar with two-minute hours and two-hour days, failing loads and saves; 718 000 states. Minutes, hours and weekdays all roll over, and three missed slots exceed the cap of two. |
| `workflow_structure` | Does the search reject exactly the cyclic graphs, and are the batches the levels? Do stages, fan-outs and sagas keep their order, their slots and their promises? | Every graph on four steps and named steps with colliding names; three stages in every combination of a few graphs, policies and limits; three items with nested pairs under two slots; three forward steps and two crashes. 437 000 states. |
| `waiting_callers` | Do delegations, tasks and the signal get their answer? Does one run at a time own an idempotency key, and does the file store implement the ledger? | Three jobs on two agents, two attempts, one fault (a crash, a failing read or write of the sidecar, or another supervisor's record, `Siblings`); two task identifiers, a queue and an input channel of one, three tasks, one typed line; three triggers, three runs, failing I/O, deaths outside the lock. 835 000 states. Queue and channel of one make every send block and every second task drop another. |
| `services` | Quotas, breakers, cache, deliveries, resumptions: is each decision still right when it is applied? | Two callers everywhere; two providers, one without a key and one with a quota of one, over two days; two cache keys and room for one; two deliveries, a cache swept at one entry; two steps, two run directories, one crash. 2.3 million states. A quota of one is used up by the first call, so that a second call, a late caller and a new process all meet it. The two callers are interchangeable (symmetry). Deadlock is not checked: these servers rest when no request comes. |
| `map_nested_deadlock`, `resume_cut_short`, `wal_torn_lost`, `idempotency_reap_race`, `scheduler_daily_skipped` | What the code or its documentation says, where the model disagrees. | Violated, see below. |

A run that covers several modules that share no state chooses one of them in its
initial state (`part`); the others rest. The bounds named `Max...` stop a model
after a number of processes, requests, faults or minutes; an action such as
`Finished` or `SagaReturned` marks the states in which they are used up, so that
TLC's deadlock check stays on where the system may not stop.

### Fairness

* `DAGScheduler`: weak fairness of the scheduler goroutine and of a node's
  execution (nodes run under a context with a deadline), strong fairness of
  acquiring a slot (Go's channels serve waiting senders in order).
* `Idempotency`: weak fairness of a call once it is made; the wait for the lock
  polls a deadline.
* `Scheduler`: weak fairness of the loop, the goroutines and Stop taken together.
  It assumes that the functions of the tasks return, which `Stop` assumes too.
* `FanOut`: weak fairness of its goroutines taken together: the Go scheduler runs
  a goroutine that can go on, and nodes end by their deadlines. No fairness among
  waiters for a slot is needed.
* `Delegation`, `AgentDaemon`: weak fairness of the goroutines taken together.
  Crashes, cancellations, signals and new tasks are never assumed to happen.

The other modules have safety properties only.

## Proofs

All theorems hold for every value of the constants that satisfies the named
assumptions, which TLC evaluates in the runs. There is one invariant for each
question below; each is inductive by itself, and `TypeOK`-like conjuncts are part
of it. Every module below `EXTENDS` the modules it is about.

* **DAG scheduler** (`DAGStepProofs`: what each action keeps; `DAGSchedulerProofs`:
  the theorems), from `DAGAssumption` (types) and
  `DAGAcyclic`. No property of interest is
  inductive: that dependencies precede a dispatch depends on the pending counts,
  those on what has been propagated, and that on where each result is. `IInv`
  has these layers: `TypeOK`; `FlowInv`, what a dispatched position is; `ResultInv`,
  a result is in one place only; `OrderInv`, pending counts are the numbers of
  dependencies not completed; `CheckpointInv`, the file and the run agree;
  `InputsAreFinal`; `PhaseInv`, what holds between runs. `Invariance` proves it,
  and `DepsFirst`, `OnceOnly`, `FinalInputs`, `FailuresRetried`, `CompleteAtEnd`
  and `CheckpointedNotRerun` follow. `FirstErrorWins` adds `AbortInv`, and
  `LimitHolds` counts the running workers. `CompleteAtEnd` is where acyclicity is
  used: a set of steps left over at the end would have one that waits for none.
* **Dependency graph** (`StructureProofs`), from `GraphAssumption`. `GraphInv` says
  that black steps depend on black ones only and that no set of black steps lacks a
  minimal one; in the layering, in-degrees count the dependencies not yet
  scheduled. `GraphTypes`, `CycleDetectionComplete` and `LayeringNeverStalls`
  follow, and `CycleDetectionComplete` discharges what `DAGAcyclic` assumes.
  `ReportedCycleIsReal` adds `WalkInv`: the stack is a walk along dependencies that
  meets no step twice, so the part from the gray step on, closed by it, is a
  cycle. `BatchesAreTheLevels` adds `LevelInv`: the batches so far are levels, and
  a step outside them waits for a step of the last batch or for one outside.
* **Pipeline** (`ServiceProofs`), from `PipelineAssumption` (a finite, nonempty
  set of stages). `StagesFollowDependencies`: batches before the one that runs are
  over and have stopped nothing, those after it have not begun (`PipelineInv`). What
  makes it work is a lemma about the layering itself: the rounds of `resolvedAfter`
  grow, stop growing only when every stage that can be resolved is, and put a stage
  into the round after its last dependency.
* **Write-ahead log** (`WALProofs`), from `WALAssumption`. Three layers over
  the sequence of frames in file and buffer. `LogInv` has the types, and that
  readable frames carry increasing numbers below the writer's counter, also where a
  crash tore a frame and the next process went on behind it:
  `SequenceNumbersIncrease` needs no premise. `SavedInv`: every prefix of the log
  that can be read holds a state that was handed to `Save`. `AckInv`: every prefix
  that reaches the fsynced part holds the acknowledged step. Prefixes, because a
  crash may cut anywhere; this is the strengthening that makes the two properties
  inductive. `RecoveryIsFaithful` and `AcknowledgedIsDurable` have one premise,
  `RecordsFit`: no record is larger than replay accepts (the note on `wal.go:342`
  below). Both properties speak of the time before some process resumes over a torn
  frame (`overTorn`), and durability is that of a record since the last process that
  started over; `wal_torn_lost` shows that the first exception is needed. `TornInv`
  carries the layers up to that moment. `WholeFramesLeaveTailIntact` shows that it never
  comes where a write reaches the file whole or not at all. `CompactionIsInvisible` has the
  same premise. All rest on lemmas about `Merged`, which states in closed form what the loop
  of `LoadStateWAL` computes: one more record on top of it is either a snapshot that
  replaces everything or a delta merged over it (`MergeSnapshot`, `MergeDelta`).
* **Idempotency** (`RecordProofs`), assuming that nobody dies inside the lock, no
  record expires and all processes have one HMAC key (`idempotency_reap_race` shows that
  the second is needed, the note on line 486 below that the first is; a record with
  another HMAC is taken for none, so its key is claimed again): `KeyInvariance`
  ties the lock file to the client in Reserve and the record to the client that
  runs; `ReserveExcludes`, `ClaimStands` and the refinement `StoreImplementsLedger`
  follow for any number of callers. `BoundInv` relates the bound on run
  identifiers to the calls that will still take one. `HitsAreGenuine` needs none of
  the assumptions: whatever expires or dies, a completed record names a run that
  returned no error (`HitInv`), so a cache hit is never a failed run's. Such a run
  executed to its end or was cut short by a shutdown.
* **Audit log** (`RecordProofs`), without an assumption.
  `AuditChainVerifies`: as long as none of the four excuses occurred, the holder of
  the sentinel is alone between lock and unlock, what it read of the end of the log
  is still so when it writes, and the key it chose is that of the chain
  (`AuditInv`).
* **Scheduler** (`SchedulerProofs`), from `CalendarAssumption` (the days of a year are
  in order and every month begins with its day 1) and `SchedulerAssumption` (the
  schedules can be met, and the clock stays clear of the end of the calendar).
  `SchedInvariance` orders file, map, fires and clock and keeps the loop off while
  Stop waits for goroutines; `StopIsFinal` and `LastRunsOnlyAdvance` follow for any
  tasks, schedules and calendar; an entry of the file is lost only where a daemon could
  not load it (`MayLoadFail`) and saved its own map over it. `NextRunIsSlot` is about the search alone: it ends
  at a later slot, and from a slot it passes over none. Away from a slot it may,
  which is `scheduler_daily_skipped`. The argument goes field by field: a moment
  after t is in the month, day and hour of t or at the start of a later one
  (`NextMoment`), and a slot on the day of t makes that day the first the loops look
  at (`DayIsFirst`). `MissedExact` follows: from a slot the loop of `countMissedRuns`
  takes one slot after the other, so it counts what is left (`CountIsLeft`).
  `SlotInv` carries both into the daemon: the next run of a task is a slot after its
  last fire, and a task about to be dispatched has passed one. `SchedulerTypes`,
  `OneFirePerSlot` and `MissedRunsCounted` follow.
* **Fan-out** (`StructureProofs`), from `ItemsAssumption`, for any set of shapes,
  any number of items and any number of slots, with one level of nesting.
  `LimiterNeverLeaks` and `ReturnLeavesNothing` need what each fan-out keeps on its
  own: the producer has submitted exactly the items before its next one, the queue
  holds each queued item once, an item that is sequential never waits, and a result
  is there only when everything is collected (`FanInv`). Slots are counted over both
  levels, so an item that holds one while its nested step runs is counted with it.
* **Model access.** *Router* (`RouterProofs`), from `RouterAssumption` (a list of
  distinct providers, natural quotas, finitely many callers, a largest call).
  `OpenBreakersShield`: no candidate's breaker is open since before the candidates
  were chosen (`ShieldInv`). `PersistedUsageGrows`: a count exists in four copies,
  the counter, the pending update, the update being written and the record on disk,
  and they are ordered by day and then by usage (`Book`); a clear is pending only
  over a record of an earlier day. The order, and the property, hold until the day's
  count is begun again (`setback`), by a caller late over midnight or a process that
  could not read the record. `QuotaOverspendBounded`: a provider is below its
  quota, or above it with room left for a largest call of each call in flight
  (`QuotaInv`), and what was spent and not lost is what the counter says (`LedgerInv`).
  After a setback the file may have more than the counter, so every copy of the count
  has to be bounded, since a new process may start from it (`CopyInv`).
  *Cache and shared calls* (`ServiceProofs`), from `CallAssumption`:
  `CacheServesFresh`, from the invariant that an entry or a flight answers its own
  key, is not from the future, and is in the cache once (`CallInv`).
* **Webhook server** (`ServiceProofs`), from `WebhookAssumption` (types and a finite
  number of handlers). `DeliveredOnce`: at most one request of a delivery is past
  the authentication, none beside an accepted task, and either keeps the delivery
  fresh in the cache, where the sweep leaves it (`DeliveryInv`). `StopLeavesNothing`:
  every slot belongs to a request or a goroutine, and a task is unsettled only
  while its goroutine attends to it (`TaskInv`, with counts of both).
* **Paused runs** (`ServiceProofs`), from `PausedAssumption`.
  `ResumedRunsAreOwned`: a request works on a run directory, and the first process on
  run 0, each only until it ends (`OwnedInv`); a crash, a panic of a node, an unreadable workflow
  file or a failed write of metadata is what may strand one. `NoStepPassedOver`: a log, and the loop
  of a process, are behind steps that were passed (`PassedInv`). `StepsSucceedOnce`:
  unless something happened that may repeat a step (a failed save or copy, a log that
  could not be opened or replayed, a death at work, two readers of one paused run, a second
  pause), one run at most is alive, and
  every step that succeeded is covered by its log or about to be (`OnceInv`).
* **Delegation** (`SchedulerProofs`). `SavedIsFinal` and `RestoredFits`, from
  `DelegationAssumption`: the sidecar answers one goal and holds all that was saved
  for it and not taken back since, by another supervisor of the step or by a sidecar
  that could not be read; an attempt at that goal has it in memory before it writes
  (`DelegationInv`). The other supervisors (`Siblings`) are any sets of jobs.
* **Saga** (`RecordProofs`). `EffectsUndone`, from `SagaAssumption`: the steps to undo are
  the first ones in order, and each effect is compensated, still to be undone, or
  forgotten in a crash (`SagaInv`).
* **Daemon** (`RecordProofs`). `TaskBooksAgree`, from `DaemonAssumption` (a queue
  of at least one): the property, that status, queue, active set and goroutines
  agree, is inductive with the types beside it (`DaemonInv`).

Loops that the models state as recursive functions (`resolvedAfter`, `unexpired`,
`missed` of `CountMissedRuns`) or in closed form (`Merged`) are reasoned about with
the least-number principle (`LeastNatural`, from the well-foundedness of `<`): a claim
about all prefixes that failed would fail at a first one.

Every safety property that a passing run checks is thus also a theorem, under the
premises named. Only
model-checked are the liveness properties (`RunEnds`, `CallReturns`, `StopReturns`,
`FanOutReturns`, `DelegationsEnd`, `TaskHandled`, `SignalStops`): they need fairness,
which is out of reach of the prover.

## Findings

1. `wal_torn_lost`: a log that ends in a torn frame is appended to as it is, and
   replay never gets past the frame. Records of the resumed run that were fsynced
   are lost with the next crash.
2. `idempotency_reap_race`: Check removes an expired record without the lock, and
   can remove the claim of a caller that was faster.
3. `scheduler_daily_skipped`: a daily task added in an hour before its slot, at a
   later minute of the hour, first runs a day late.
4. `map_nested_deadlock`: the workers of a map hold their slots of the shared
   limiter while the nested steps of their items wait for one.
5. `resume_cut_short`: a shutdown between two steps of a resumed run ends it
   without an error, and it is marked as completed with steps left.

Met while modelling and not the subject of a run:

* *DAG executor.* A resumed run's first save drops the steps it restored
  (`executor_dag.go:655`), where `executor_state.go:32` calls the set monotonic. The
  error of an aborted run carries the last processed position instead of the
  failing step (`:922`). A run stopped by the shutdown flag is recorded as completed
  (`:909`).
* *Log.* A compaction may write a snapshot above the 64 MB that replay accepts
  (`wal.go:342`); its rename is not followed by an fsync of the directory.
  Behind a torn frame, a compaction keeps what is before the frame while the next delta
  is taken from what was written behind it, so the recovered state may be a mixture
  (`wal.go:391`). A process that cannot replay its log starts over and writes behind it
  (`executor_seq.go:153`).
* *Idempotency.* Two callers that see one stale lock can both remove it, the
  second time a new one (`idempotency.go:486`; a second comment disclaims safety
  across processes). A run that a shutdown cut short is recorded as completed, and its
  output so far is served to later triggers (`executor_executor.go:365`).
* *Scheduler.* Slots one minute apart are skipped (`scheduler.go:400`). A date that
  never occurs keeps `nextRunTime` searching for ever. A daemon that cannot load the
  last runs begins with none and saves over them (`cli/agent.go:103`).
* *Compound steps.* Concurrent maps and loops run all items also with stop on
  error. A panicking map iteration counts as a success with empty output.
  Sequential loops, reduces and sagas recover no panic. Compensations run under the
  context of the saga, which may be over.
* *Pause and resume.* A second pause leaves the old and the new run both paused
  with one log. A workflow that does not parse leaves its run marked as resumed.
  Two requests that both read before either writes both resume. A resumed run whose
  log cannot be read begins at its first step; one whose node panics stays marked as
  resumed. `Start` returns
  when `Shutdown` begins, so the process may exit before its requests are drained.
* *Daemon.* End of file on the terminal does not stop the daemon (`cli/agent.go:205`
  says it does). The input channel is closed before the context is cancelled, so a
  task that sends at that moment panics. A full queue drops its oldest task
  although `queue.go:66` says that no task is dropped silently. The map of last runs
  is read without its mutex at `cli/agent.go:150`.
* *Delegation.* A half-open breaker lets every caller through, and the success of
  a call from before it opened closes it (`agentx/breaker.go:157`). Identical jobs of
  one plan both run. Supervisors nested in one parallel or map step share a sidecar,
  and so do steps whose names differ only in replaced characters, where
  `nodes/supervisor_checkpoint.go:96` says that two never do; each rewrites the file
  with what it knows itself.
* *Pipeline.* A `MaxConcurrency` of zero is documented as unlimited and means one.
  A pipeline with failed stages under "continue" reports success.
* *Webhook.* A delivery answered 503 or 404 is remembered, so its retry is refused
  as a replay.
* *Audit log.* A record above 8 KiB hides the key of the chain from the next
  append; a lost newline garbles the next record.
* *Model access.* Choosing candidates takes a probe slot of every half-open
  provider, and only the provider that is called gives it back
  (`router_circuit_breaker.go:133`). A shared call runs under the context of its first
  caller. Hits of the cache are charged to the quota. A caller that reads the date before
  midnight and takes the lock after it sets the new day's counter back to zero
  (`llm_router.go:422`). A quota record that cannot be read counts as no usage
  (`router_quota.go:811`).

## Not modelled

Expressions and YAML are functions of text. Nodes, HTTP and databases are I/O; they
are most of the repository's lines. Clock changes, leap years, daylight saving and
time zones are left out of `Cron`. The idempotency store is modelled for one key,
since keys share nothing. Files replaced by rename are replaced in one step and
the rename is durable at once. A file damaged from outside appears as a read that
fails. The JSON file that the sequential executor falls back to where it has no log is
left out of `WAL`. Data races in the Go sense are not modelled;
those met are listed above. `Webhook` has one client address. `PausedRuns` keeps a
log's position only, and `FanOut` two levels of nesting. The health monitor and the
MCP client have state worth a model but no user outside their tests. The memory
and secrets stores are files that one process rewrites whole.
