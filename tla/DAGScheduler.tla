---------------------------- MODULE DAGScheduler ----------------------------
(***************************************************************************)
(* The DAG executor of internal/workflow/executor_dag.go: the dagScheduler *)
(* goroutine with its dynamic ready queue, the worker goroutines that run  *)
(* the nodes, and the checkpoint file through which an interrupted         *)
(* workflow is resumed by a later process.                                 *)
(*                                                                         *)
(* A result is applied twice.  When it ARRIVES, a success is "finalized":  *)
(* written back and propagated, so that dependents start at once.  When    *)
(* its TURN in dispatch order comes, it is processed: error recovery,      *)
(* trace, checkpoint.  Between the two lie arbitrary worker steps, an      *)
(* abort, a shutdown request or a crash.                                   *)
(***************************************************************************)
EXTENDS Integers, Sequences, FiniteSets

CONSTANTS
    N,                \* number of steps of the workflow
    Deps,             \* graph.deps: Deps[s] is what step s waits for
    Conditional,      \* steps with a condition, which may be skipped
    Evaluated,        \* steps whose input/params/condition may fail to evaluate
    Recoverable,      \* steps with capture_error, fallback or on_error
    ContinueOnError,  \* steps with continue_on_error
    MaxConcurrency,   \* max_concurrency; 0 means no limiter
    MayShutdown,      \* whether a graceful shutdown may be requested
    MaySaveFail,      \* whether writing the checkpoint may fail
    MaxRuns           \* bound: processes that execute the workflow in turn

Steps == 0 .. N - 1

ASSUME DAGAssumption ==
    /\ N \in Nat \ {0}
    /\ Deps \in [Steps -> SUBSET Steps]
    /\ Conditional \subseteq Steps
    /\ Evaluated \subseteq Steps
    /\ Recoverable \subseteq Steps
    /\ ContinueOnError \subseteq Steps
    /\ MaxConcurrency \in Nat
    /\ MayShutdown \in BOOLEAN
    /\ MaySaveFail \in BOOLEAN
    /\ MaxRuns \in Nat

\* buildDepGraph rejects cyclic workflows: in every set of steps, some step
\* waits for none of the set.
ASSUME DAGAcyclic ==
    \A S \in (SUBSET Steps) \ {{}} : \E s \in S : Deps[s] \cap S = {}

VARIABLES
    phase,         \* where the scheduler goroutine is
    pending,       \* per step, dependencies not completed yet
    readyQueue,    \* steps ready for dispatch, FIFO
    dispatchSeq,   \* steps in the order they were dispatched
    processPos,    \* how many of dispatchSeq have been processed
    prepared,      \* per step, what prepareDAGStep decided
    input,         \* per step, the dependency outputs it was given
    results,       \* reorder buffer: results received, not yet processed
    finalized,     \* steps completed on arrival
    completedOK,   \* steps whose outputs may be checkpointed
    resumed,       \* steps restored from the checkpoint
    outputs,       \* engine and resolver: output of each step
    lastOutput,    \* the step whose output is lastOutput, or NoStep
    stepResults,   \* allResults: how each step ended in this run
    firstAbortErr, \* the step whose error aborted the run, or NoStep
    worker,        \* per step, its worker goroutine
    resultChan,    \* results sent by workers, in order
    shuttingDown,  \* the process-wide shutdown flag
    saved,         \* checkpoint file: StepOutputs
    savedData,     \* checkpoint file: Data
    runs           \* processes started so far

schedVars == <<pending, readyQueue, dispatchSeq, processPos, prepared, input,
               results, finalized, completedOK, resumed, outputs, lastOutput,
               stepResults, firstAbortErr>>
fileVars == <<saved, savedData>>
vars == <<phase, schedVars, worker, resultChan, shuttingDown, fileVars, runs>>

NoStep == -1
Absent == "absent"              \* no entry in a map
Value == {Absent, "empty", "out", "recovered"}
Result == [idx : Steps, output : {"empty", "out"}, err : {"nil", "error"}]
NoResult == [idx |-> NoStep, output |-> "empty", err |-> "nil"]
NoInput == [d \in {} |-> Absent]

Aborted == firstAbortErr # NoStep
Elements(q) == {q[i] : i \in 1 .. Len(q)}
NoDuplicates(q) == \A i, j \in 1 .. Len(q) : q[i] = q[j] => i = j
Dispatched == Elements(dispatchSeq)
Processed == {dispatchSeq[i] : i \in 1 .. processPos}
Restored == {s \in Steps : saved[s] # Absent}
Dependents(s) == {d \in Steps : s \in Deps[d]}
Running == {s \in Steps : worker[s] = "running"}
Want == dispatchSeq[processPos + 1]

\* The elements of a set of steps in index order (sort.Ints).
Ascending(S) ==
    {q \in [1 .. Cardinality(S) -> S] :
        \A i, j \in 1 .. Cardinality(S) : i < j => q[i] < q[j]}

-----------------------------------------------------------------------------
(* Starting a run: newDAGScheduler, then the checkpoint restore *)

NewPending(restored) ==
    [s \in Steps |-> IF s \in restored THEN 0
                                       ELSE Cardinality(Deps[s] \ restored)]

\* Mutant: restored steps stay in the initial ready queue.
InitiallyReadyAll(restored) ==
    {s \in Steps : Deps[s] \subseteq restored}

InitiallyReady(restored) ==
    {s \in Steps \ restored : Deps[s] \subseteq restored}

Init ==
    /\ phase = "down"
    /\ pending = NewPending({})
    /\ readyQueue = <<>>
    /\ dispatchSeq = <<>>
    /\ processPos = 0
    /\ prepared = [s \in Steps |-> "none"]
    /\ input = [s \in Steps |-> NoInput]
    /\ results = [s \in Steps |-> NoResult]
    /\ finalized = {}
    /\ completedOK = {}
    /\ resumed = {}
    /\ outputs = [s \in Steps |-> Absent]
    /\ lastOutput = NoStep
    /\ stepResults = [s \in Steps |-> "none"]
    /\ firstAbortErr = NoStep
    /\ worker = [s \in Steps |-> "idle"]
    /\ resultChan = <<>>
    /\ shuttingDown = FALSE
    /\ saved = [s \in Steps |-> Absent]
    /\ savedData = NoStep
    /\ runs = 0

\* A process loads the checkpoint and hands the rest of the graph to the
\* scheduler: restored steps keep their outputs, are credited to their
\* dependents and never enter the ready queue (applyResumed).
Start ==
    /\ phase = "down"
    /\ runs < MaxRuns
    /\ phase' = "dispatch"
    /\ runs' = runs + 1
    /\ resumed' = Restored
    /\ pending' = NewPending(Restored)
    /\ readyQueue' \in Ascending(InitiallyReady(Restored))
    /\ outputs' = saved
    /\ lastOutput' = savedData
    /\ stepResults' = [s \in Steps |-> IF s \in Restored THEN "ok" ELSE "none"]
    /\ UNCHANGED <<dispatchSeq, processPos, prepared, input, results,
                   finalized, completedOK, firstAbortErr, worker, resultChan,
                   shuttingDown, fileVars>>

-----------------------------------------------------------------------------
(* The scheduler goroutine *)

\* Mutant: a dependent is enqueued as soon as one dependency completes.
PropagateDepsEarly(s, queue) ==
    /\ pending' = [d \in Steps |->
                      IF s \in Deps[d] THEN pending[d] - 1 ELSE pending[d]]
    /\ \E q \in Ascending({d \in Dependents(s) : pending[d] >= 1}) :
           readyQueue' = queue \o q

\* Notify the dependents of s; those with nothing left to wait for join the
\* queue in index order.
PropagateDeps(s, queue) ==
    /\ pending' = [d \in Steps |->
                      IF s \in Deps[d] THEN pending[d] - 1 ELSE pending[d]]
    /\ \E q \in Ascending({d \in Dependents(s) : pending[d] = 1}) :
           readyQueue' = queue \o q

Finalize(s, output, queue) ==
    /\ outputs' = [outputs EXCEPT ![s] = output]
    /\ finalized' = finalized \cup {s}
    /\ completedOK' = completedOK \cup {s}
    /\ PropagateDeps(s, queue)

ResolveInput(s) == [d \in Deps[s] |-> outputs[d]]

PrepareDAGStep(s) ==
    {"run"} \cup (IF s \in Conditional THEN {"skipped"} ELSE {})
            \cup (IF s \in Evaluated THEN {"evalErr"} ELSE {})

\* A skipped step is finalized on the spot; one whose evaluation failed waits
\* for its turn to abort; any other gets a worker.
DispatchAs(s, kind, queue) ==
    /\ prepared' = [prepared EXCEPT ![s] = kind]
    /\ input' = [input EXCEPT ![s] = ResolveInput(s)]
    /\ dispatchSeq' = Append(dispatchSeq, s)
    /\ \/ /\ kind = "skipped"
          /\ Finalize(s, "empty", queue)
          /\ UNCHANGED worker
       \/ /\ kind # "skipped"
          /\ readyQueue' = queue
          /\ worker' = IF kind = "run" THEN [worker EXCEPT ![s] = "queued"]
                                       ELSE worker
          /\ UNCHANGED <<pending, outputs, finalized, completedOK>>

\* One iteration of dispatchReady: the head of the queue is prepared on the
\* scheduler goroutine.
DispatchReady ==
    /\ phase = "dispatch"
    /\ readyQueue # <<>>
    /\ ~Aborted
    /\ ~shuttingDown
    /\ \E kind \in PrepareDAGStep(Head(readyQueue)) :
           DispatchAs(Head(readyQueue), kind, Tail(readyQueue))
    /\ UNCHANGED <<phase, processPos, results, resumed, lastOutput,
                   stepResults, firstAbortErr, resultChan, shuttingDown,
                   fileVars, runs>>

\* Mutant: an aborted run does not wait for the steps in flight.
EndDispatchOnAbort ==
    /\ phase = "dispatch"
    /\ readyQueue = <<>> \/ Aborted \/ shuttingDown
    /\ phase' = IF Aborted \/ processPos >= Len(dispatchSeq)
                   THEN "done" ELSE "await"
    /\ UNCHANGED <<schedVars, worker, resultChan, shuttingDown, fileVars, runs>>

\* dispatchReady returns; run() leaves its loop once every dispatched step
\* has been processed.
EndDispatch ==
    /\ phase = "dispatch"
    /\ readyQueue = <<>> \/ Aborted \/ shuttingDown
    /\ phase' = IF processPos >= Len(dispatchSeq) THEN "done" ELSE "await"
    /\ UNCHANGED <<schedVars, worker, resultChan, shuttingDown, fileVars, runs>>

NeedsNoResult == prepared[Want] # "run" \/ results[Want] # NoResult

\* awaitNextResult returning false: the next step in order can be processed.
AwaitSatisfied ==
    /\ phase = "await"
    /\ NeedsNoResult
    /\ phase' = "process"
    /\ UNCHANGED <<schedVars, worker, resultChan, shuttingDown, fileVars, runs>>

\* Mutant: failed results are finalized on arrival too.
AwaitReceiveAny ==
    /\ phase = "await"
    /\ ~NeedsNoResult
    /\ resultChan # <<>>
    /\ LET res == Head(resultChan) IN
         /\ results' = [results EXCEPT ![res.idx] = res]
         /\ IF ~Aborted
              THEN Finalize(res.idx, res.output, readyQueue)
              ELSE UNCHANGED <<pending, readyQueue, outputs, finalized,
                               completedOK>>
    /\ resultChan' = Tail(resultChan)
    /\ phase' = "dispatch"
    /\ UNCHANGED <<dispatchSeq, processPos, prepared, input, resumed,
                   lastOutput, stepResults, firstAbortErr, worker,
                   shuttingDown, fileVars, runs>>

\* awaitNextResult receiving whatever result arrives next.
AwaitReceive ==
    /\ phase = "await"
    /\ ~NeedsNoResult
    /\ resultChan # <<>>
    /\ LET res == Head(resultChan) IN
         /\ results' = [results EXCEPT ![res.idx] = res]
         /\ IF res.err = "nil" /\ ~Aborted
              THEN Finalize(res.idx, res.output, readyQueue)
              ELSE UNCHANGED <<pending, readyQueue, outputs, finalized,
                               completedOK>>
    /\ resultChan' = Tail(resultChan)
    /\ phase' = "dispatch"
    /\ UNCHANGED <<dispatchSeq, processPos, prepared, input, resumed,
                   lastOutput, stepResults, firstAbortErr, worker,
                   shuttingDown, fileVars, runs>>

Outcome(out, how) == [output |-> out, status |-> how]

\* applyErrorRecovery: a recovery primitive may itself fail, and
\* continue_on_error, the last resort, drops what the failed node returned.
ApplyErrorRecovery(s) ==
    (IF s \in Recoverable THEN {Outcome("empty", "ok"), Outcome("recovered", "ok")}
                          ELSE {})
    \cup
    {IF s \in ContinueOnError THEN Outcome("empty", "continue")
                              ELSE Outcome(results[s].output, "abort")}

\* processDAGStepResult: the output, and whether the step counts as completed
\* ("ok"), failed without consequence, or aborts the workflow.
ProcessDAGStepResult(s) ==
    CASE prepared[s] = "evalErr" -> {Outcome("empty", "abort")}
      [] prepared[s] = "skipped" -> {Outcome("empty", "ok")}
      [] prepared[s] = "run" /\ results[s].err # "nil" -> ApplyErrorRecovery(s)
      [] OTHER -> {Outcome(results[s].output, "ok")}

\* The atomic rewrite of the checkpoint file; its failure is only logged.
SaveCheckpointState(completed, outs, last) ==
    \/ /\ saved' = [s \in Steps |-> IF s \in completed THEN outs[s] ELSE Absent]
       /\ savedData' = last
    \/ /\ MaySaveFail
       /\ UNCHANGED fileVars

\* Mutant: a later failure replaces the error of the first one.
AnyAbort(o) == o.status = "abort"

\* Only the first failure without recovery aborts the run.
FirstAbort(o) == o.status = "abort" /\ ~Aborted

\* The effect of step s, whose turn it is, ending with outcome o.
ApplyOutcome(s, o) ==
    /\ outputs' = [outputs EXCEPT ![s] = o.output]
    /\ lastOutput' = IF o.status = "ok" /\ o.output # "empty" THEN s
                                                               ELSE lastOutput
    /\ stepResults' = [stepResults EXCEPT
                         ![s] = IF o.status = "ok" THEN "ok" ELSE "error"]
    /\ \/ /\ FirstAbort(o)
          /\ firstAbortErr' = s
          /\ readyQueue' = <<>>
          /\ UNCHANGED <<pending, completedOK, fileVars>>
       \/ /\ Aborted
          /\ UNCHANGED <<firstAbortErr, readyQueue, pending, completedOK,
                         fileVars>>
       \/ /\ o.status # "abort" /\ ~Aborted
          /\ IF s \in finalized THEN UNCHANGED <<pending, readyQueue>>
                                ELSE PropagateDeps(s, readyQueue)
          /\ IF o.status = "ok"
               THEN /\ completedOK' = completedOK \cup {s}
                    /\ SaveCheckpointState(completedOK', outputs', lastOutput')
               ELSE UNCHANGED <<completedOK, fileVars>>
          /\ UNCHANGED firstAbortErr

\* processNextResult: apply the next step in dispatch order.
ProcessNextResult ==
    /\ phase = "process"
    /\ phase' = "dispatch"
    /\ \E o \in ProcessDAGStepResult(Want) : ApplyOutcome(Want, o)
    /\ processPos' = processPos + 1
    /\ results' = [results EXCEPT ![Want] = NoResult]
    /\ UNCHANGED <<dispatchSeq, prepared, input, finalized, resumed, worker,
                   resultChan, shuttingDown, runs>>

-----------------------------------------------------------------------------
(* Worker goroutines *)

Send(s, output, err) ==
    /\ worker' = [worker EXCEPT ![s] = "sent"]
    /\ resultChan' = Append(resultChan, [idx |-> s, output |-> output, err |-> err])
    /\ UNCHANGED <<phase, schedVars, shuttingDown, fileVars, runs>>

\* ConcurrencyLimiter.Acquire
Acquire(s) ==
    /\ worker[s] = "queued"
    /\ MaxConcurrency = 0 \/ Cardinality(Running) < MaxConcurrency
    /\ worker' = [worker EXCEPT ![s] = "running"]
    /\ UNCHANGED <<phase, schedVars, resultChan, shuttingDown, fileVars, runs>>

\* Mutant: a worker that gets no slot returns without sending a result.
AcquireTimeoutSilent(s) ==
    /\ worker[s] = "queued"
    /\ MaxConcurrency > 0
    /\ worker' = [worker EXCEPT ![s] = "sent"]
    /\ UNCHANGED <<phase, schedVars, resultChan, shuttingDown, fileVars, runs>>

\* The workflow timeout expires while the worker waits for a slot.
AcquireTimeout(s) ==
    /\ worker[s] = "queued"
    /\ MaxConcurrency > 0
    /\ Send(s, "empty", "error")

\* executeDAGStep: the node returns, exhausts its retries (perhaps with an
\* output beside the error) or panics; the slot is released.
ExecuteDAGStep(s) ==
    /\ worker[s] = "running"
    /\ \E output \in {"empty", "out"}, err \in {"nil", "error"} :
           Send(s, output, err)

Worker(s) == Acquire(s) \/ AcquireTimeout(s) \/ ExecuteDAGStep(s)

-----------------------------------------------------------------------------
(* The environment of the process *)

RequestShutdown ==
    /\ MayShutdown
    /\ phase \notin {"down", "done"}
    /\ ~shuttingDown
    /\ shuttingDown' = TRUE
    /\ UNCHANGED <<phase, schedVars, worker, resultChan, fileVars, runs>>

\* The process dies, in the middle of a run or after it; only the checkpoint
\* file is left for the next one.
Crash ==
    /\ phase # "down"
    /\ phase' = "down"
    /\ pending' = NewPending({})
    /\ readyQueue' = <<>>
    /\ dispatchSeq' = <<>>
    /\ processPos' = 0
    /\ prepared' = [s \in Steps |-> "none"]
    /\ input' = [s \in Steps |-> NoInput]
    /\ results' = [s \in Steps |-> NoResult]
    /\ finalized' = {}
    /\ completedOK' = {}
    /\ resumed' = {}
    /\ outputs' = [s \in Steps |-> Absent]
    /\ lastOutput' = NoStep
    /\ stepResults' = [s \in Steps |-> "none"]
    /\ firstAbortErr' = NoStep
    /\ worker' = [s \in Steps |-> "idle"]
    /\ resultChan' = <<>>
    /\ shuttingDown' = FALSE
    /\ UNCHANGED <<fileVars, runs>>

\* Nothing is left to do.
Finished ==
    /\ phase \in {"down", "done"}
    /\ runs = MaxRuns
    /\ UNCHANGED vars

Scheduler ==
    \/ DispatchReady
    \/ EndDispatch
    \/ AwaitSatisfied
    \/ AwaitReceive
    \/ ProcessNextResult

Next ==
    \/ Start
    \/ Scheduler
    \/ \E s \in Steps : Worker(s)
    \/ RequestShutdown
    \/ Crash
    \/ Finished

Spec == Init /\ [][Next]_vars

\* The scheduler goroutine is never descheduled for good, and neither is a
\* worker: every node runs under a context with a deadline, and a slot that
\* is released goes to some waiting worker.
Fairness ==
    /\ WF_vars(Scheduler)
    /\ \A s \in Steps : WF_vars(ExecuteDAGStep(s)) /\ SF_vars(Acquire(s))

FairSpec == Spec /\ Fairness

-----------------------------------------------------------------------------
(* Properties *)

\* The types of the scheduler's, the workers' and the checkpoint's state.
TypeOK ==
    /\ phase \in {"down", "dispatch", "await", "process", "done"}
    /\ pending \in [Steps -> Int]
    /\ readyQueue \in Seq(Steps)
    /\ dispatchSeq \in Seq(Steps)
    /\ processPos \in 0 .. Len(dispatchSeq)
    /\ phase \in {"await", "process"} => processPos < Len(dispatchSeq)
    /\ prepared \in [Steps -> {"none", "run", "skipped", "evalErr"}]
    /\ DOMAIN input = Steps
    /\ results \in [Steps -> Result \cup {NoResult}]
    /\ finalized \in SUBSET Steps
    /\ completedOK \in SUBSET Steps
    /\ resumed \in SUBSET Steps
    /\ outputs \in [Steps -> Value]
    /\ lastOutput \in Steps \cup {NoStep}
    /\ stepResults \in [Steps -> {"none", "ok", "error"}]
    /\ firstAbortErr \in Steps \cup {NoStep}
    /\ worker \in [Steps -> {"idle", "queued", "running", "sent"}]
    /\ resultChan \in Seq(Result)
    /\ shuttingDown \in BOOLEAN
    /\ saved \in [Steps -> Value]
    /\ savedData \in Steps \cup {NoStep}
    /\ runs \in 0 .. MaxRuns

\* No step is dispatched before every step it depends on has been restored,
\* finalized on arrival or processed in turn (propagateDeps).
DepsBeforeDispatch ==
    \A s \in Dispatched : Deps[s] \subseteq resumed \cup finalized \cup Processed

\* A run dispatches a step at most once and never a restored one, although a
\* result is applied twice, on arrival and in turn, and a restored step may
\* depend on one that is executed again (applyResumed).
DispatchedOnce ==
    /\ NoDuplicates(dispatchSeq)
    /\ Dispatched \cap resumed = {}

\* The dependency outputs a step was given are the final ones: nothing that
\* finalize, recovery or processDAGStepResult writes later changes them.
InputsAreFinal ==
    \A s \in Dispatched : input[s] = ResolveInput(s)

\* A step whose failure the trace records is not in the checkpoint, even
\* under continue_on_error, so that a resume runs it again.
FailuresNotCheckpointed ==
    \A s \in Steps : stepResults[s] = "error" => saved[s] = Absent

\* A run that reaches its end has collected every worker it started, and has
\* covered the whole graph unless it was aborted or asked to shut down.
EndIsComplete ==
    phase = "done" =>
        /\ Processed = Dispatched
        /\ resultChan = <<>>
        /\ \A s \in Steps : worker[s] \in {"idle", "sent"}
        /\ ~Aborted /\ ~shuttingDown => Dispatched \cup resumed = Steps

\* The error that aborts a run is that of the first step in dispatch order
\* with an unrecovered failure, whatever the order results arrived in.
AbortIsFirstInOrder ==
    Aborted =>
        \E i \in 1 .. processPos :
            /\ dispatchSeq[i] = firstAbortErr
            /\ \A j \in 1 .. i - 1 :
                 \/ stepResults[dispatchSeq[j]] = "ok"
                 \/ /\ dispatchSeq[j] \in ContinueOnError
                    /\ prepared[dispatchSeq[j]] = "run"

\* max_concurrency bounds the nodes that execute at any moment.
WithinLimit == MaxConcurrency > 0 => Cardinality(Running) <= MaxConcurrency

\* A step that the checkpoint records as completed is not dispatched again,
\* in this run or in one that resumes it.
NoRerun ==
    [][Len(dispatchSeq') > Len(dispatchSeq) =>
           saved[dispatchSeq'[Len(dispatchSeq')]] = Absent]_vars

\* A run ends: waiting for the next result in dispatch order never blocks for
\* good, through failures, aborts, shutdown and a limiter smaller than the
\* number of ready steps.
RunEnds == phase = "dispatch" ~> phase \in {"done", "down"}

=============================================================================
