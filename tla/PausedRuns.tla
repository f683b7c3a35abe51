----------------------------- MODULE PausedRuns -----------------------------
(***************************************************************************)
(* Sequential runs that pause and are resumed (executor_seq.go,            *)
(* executor_seq_step.go, resume.go) by the handlers of an API server       *)
(* (handleResumeWorkflow of server.go) that may be shut down or die.       *)
(*                                                                         *)
(* All runs descend from one `aflare run` of one workflow with a           *)
(* write-ahead log, in a process of its own.  Run 0 is that first run; a   *)
(* pause creates a run directory 1, 2, ... with its own metadata and a     *)
(* copy of the log.  A log is the index of the last step saved in it; what *)
(* a crash can do to the records behind it is the subject of WAL.tla.      *)
(***************************************************************************)
EXTENDS Integers, FiniteSets

CONSTANTS Resumers,      \* concurrent requests of the API server
          Cli,           \* the process of the first run
          LastStep,      \* number of the workflow's last step
          MaxRuns,       \* bound on the run directories
          MaxResumes,    \* bound on the requests to resume a run
          MaxServerCrashes   \* bound on the processes that die

ASSUME PausedAssumption ==
    /\ Cli \notin Resumers
    /\ LastStep \in Nat /\ MaxRuns \in Nat /\ MaxResumes \in Nat /\ MaxServerCrashes \in Nat

Procs == Resumers \cup {Cli}
Steps == 1..LastStep
Runs == 1..MaxRuns

VARIABLES status,        \* status[r]: the status in the run's metadata
          log,           \* log[r]: last step saved in the run's log, 0 for none
          runner,        \* runner[h]: what a request or the first run is doing
          shutdown,      \* the server's shutdown flag
          resumes, restarts,
          (* what happened, for the properties only *)
          done,          \* steps executed with success
          twice,         \* some step was executed with success again
          passed,        \* steps executed or skipped by their condition
          cut,           \* runs that the shutdown flag stopped before their end
          excuse         \* {"repeat", "strand"}: what may happen by a fault

observed == <<done, twice, passed, cut>>
pausedVars == <<status, log, runner, shutdown, resumes, restarts, observed, excuse>>

NoRun == -1
idle == [pc |-> "idle", run |-> NoRun, step |-> 0, end |-> "none"]

PausedInit ==
    /\ status = [r \in Runs |-> "none"]
    /\ log = [r \in {0} \cup Runs |-> 0]
    /\ runner = [h \in Procs |->
          IF h = Cli THEN [idle EXCEPT !.pc = "loop", !.run = 0, !.step = 1] ELSE idle]
    /\ shutdown = FALSE
    /\ restarts = 0
    /\ resumes = 0
    /\ done = {}
    /\ twice = FALSE
    /\ passed = {}
    /\ cut = {}
    /\ excuse = {}
-----------------------------------------------------------------------------
(* ResumeWorkflow                                                          *)

(* The metadata is rewritten with a new status; when that fails the        *)
(* failure is logged and the old status stays.                             *)
UpdateRunMetaStatus(r, s) ==
    \/ status' = [status EXCEPT ![r] = s] /\ UNCHANGED excuse
    \/ UNCHANGED status /\ excuse' = excuse \cup {"strand"}

(* The metadata is read and its status checked.                            *)
LoadRunMeta(h, r) ==
    /\ runner[h].pc = "idle" /\ h # Cli /\ ~shutdown
    /\ status[r] = "paused"
    /\ runner' = [runner EXCEPT ![h].pc = "checked", ![h].run = r]
    /\ excuse' = IF \E g \in Resumers : runner[g].run = r
                 THEN excuse \cup {"repeat"} ELSE excuse
    /\ resumes < MaxResumes /\ resumes' = resumes + 1
    /\ UNCHANGED <<status, log, shutdown, restarts, observed>>

(* The run is marked in a step of its own.  Then the workflow file is read *)
(* and checked: one that cannot be parsed ends the request as it is, one   *)
(* the policy rejects is paused again.                                     *)
markResumed(h) ==
    /\ runner[h].pc = "checked"
    /\ UpdateRunMetaStatus(runner[h].run, "resumed")
    /\ runner' = [runner EXCEPT ![h].pc = "parse"]
    /\ UNCHANGED <<log, shutdown, resumes, restarts, observed>>

parseFails(h) ==
    /\ runner[h].pc = "parse"
    /\ runner' = [runner EXCEPT ![h] = idle]
    /\ excuse' = excuse \cup {"strand"}
    /\ UNCHANGED <<status, log, shutdown, resumes, restarts, observed>>

rejectAsIs(h) ==
    /\ runner[h].pc = "parse"
    /\ runner' = [runner EXCEPT ![h] = idle]
    /\ UNCHANGED <<status, log, shutdown, resumes, restarts, observed, excuse>>

policyRejects(h) ==
    /\ runner[h].pc = "parse"
    /\ UpdateRunMetaStatus(runner[h].run, "paused")
    /\ runner' = [runner EXCEPT ![h] = idle]
    /\ UNCHANGED <<log, shutdown, resumes, restarts, observed>>

resumeAgain(r) == IF log[r] = 0 THEN 1 ELSE log[r]
resumeTooFar(r) == log[r] + 2

(* initResumeState: execution continues behind the last saved step.        *)
resumeFromStep(r) == log[r] + 1

(* A log that cannot be opened or replayed is a warning: the run starts    *)
(* again with its first step.                                              *)
initResumeState(h) ==
    /\ runner[h].pc = "parse"
    /\ \/ /\ runner' = [runner EXCEPT ![h].pc = "loop", ![h].step = resumeFromStep(runner[h].run)]
          /\ UNCHANGED excuse
       \/ /\ runner' = [runner EXCEPT ![h].pc = "loop", ![h].step = 1]
          /\ excuse' = excuse \cup {"repeat"}
    /\ UNCHANGED <<status, log, shutdown, resumes, restarts, observed>>
-----------------------------------------------------------------------------
(* executeWorkflowSequential                                               *)

(* IsShuttingDown: the flag is set in the process of the server only; of   *)
(* SetupShutdown, which would set it in that of a command, there is no     *)
(* call.                                                                   *)
IsShuttingDown(h) == shutdown /\ h # Cli

AtStep(h) == runner[h].pc = "loop" /\ runner[h].step \in Steps /\ ~IsShuttingDown(h)

advance(h) == [runner EXCEPT ![h].pc = "loop", ![h].step = @ + 1]
endWith(h, e) == [runner EXCEPT ![h].pc = "end", ![h].end = e]

(* A regular or compound step succeeds.                                    *)
executeStep(h) ==
    /\ AtStep(h)
    /\ twice' = (twice \/ runner[h].step \in done)
    /\ done' = done \cup {runner[h].step}
    /\ passed' = passed \cup {runner[h].step}
    /\ runner' = [runner EXCEPT ![h].pc = "save"]
    /\ UNCHANGED <<status, log, shutdown, resumes, restarts, cut, excuse>>

(* saveCP: a save that fails is logged and the workflow goes on.           *)
saveCP(h) ==
    /\ runner[h].pc = "save"
    /\ \/ /\ log' = [log EXCEPT ![runner[h].run] = runner[h].step]
          /\ UNCHANGED excuse
       \/ /\ excuse' = excuse \cup {"repeat"}
          /\ UNCHANGED log
    /\ runner' = advance(h)
    /\ UNCHANGED <<status, shutdown, resumes, restarts, observed>>

(* handleStepCondition: a skipped step is not saved.                       *)
skipStep(h) ==
    /\ AtStep(h)
    /\ passed' = passed \cup {runner[h].step}
    /\ runner' = advance(h)
    /\ UNCHANGED <<status, log, shutdown, resumes, restarts, done, twice, cut, excuse>>

(* A step fails and is not resumable, or the pause itself fails.           *)
stepFails(h) ==
    /\ AtStep(h)
    /\ runner' = endWith(h, "failed")
    /\ UNCHANGED <<status, log, shutdown, resumes, restarts, observed, excuse>>

(* A node panics.  Nothing recovers between the loop and net/http, which   *)
(* drops the request: the server lives on and the status stays as it is.   *)
(* The process of the first run dies of it.                                *)
nodePanics(h) ==
    /\ AtStep(h)
    /\ runner' = [runner EXCEPT ![h] = idle]
    /\ excuse' = excuse \cup {"strand"}
    /\ UNCHANGED <<status, log, shutdown, resumes, restarts, observed>>

(* PauseWorkflow copies the log into the run directory, best effort.       *)
copyWAL(r) == log[r]

(* handleStepFailure and PauseWorkflow: a resumable step fails and a new   *)
(* run directory is written, its metadata last.                            *)
PauseWorkflow(h) ==
    LET r == CHOOSE n \in Runs : status[n] = "none" /\ \A m \in 1..(n - 1) : status[m] # "none"
    IN  /\ AtStep(h) /\ \E n \in Runs : status[n] = "none"
        /\ status' = [status EXCEPT ![r] = "paused"]
        /\ \/ /\ log' = [log EXCEPT ![r] = copyWAL(runner[h].run)]
              /\ excuse' = IF runner[h].run # 0 THEN excuse \cup {"repeat"} ELSE excuse
           \/ /\ log' = [log EXCEPT ![r] = 0]
              /\ excuse' = excuse \cup {"repeat"}
        /\ runner' = endWith(h, "paused")
        /\ UNCHANGED <<shutdown, resumes, restarts, observed>>

(* The loop is over, or the shutdown flag is seen between two steps: in    *)
(* both cases the run returns without an error.                            *)
leaveLoop(h) ==
    /\ runner[h].pc = "loop"
    /\ runner[h].step > LastStep \/ IsShuttingDown(h)
    /\ cut' = IF runner[h].step <= LastStep THEN cut \cup {runner[h].run} ELSE cut
    /\ runner' = endWith(h, "completed")
    /\ UNCHANGED <<status, log, shutdown, resumes, restarts, done, twice, passed, excuse>>

(* The end of ResumeWorkflow; the first run has no metadata.               *)
resumeEnds(h) ==
    /\ runner[h].pc = "end"
    /\ IF runner[h].run = 0 THEN UNCHANGED <<status, excuse>>
       ELSE UpdateRunMetaStatus(runner[h].run, runner[h].end)
    /\ runner' = [runner EXCEPT ![h] = idle]
    /\ UNCHANGED <<log, shutdown, resumes, restarts, observed>>
-----------------------------------------------------------------------------
(* SIGTERM sets the flag.  Start returns as soon as the server begins to   *)
(* shut down, so the process may exit before its requests have ended.      *)
SignalShutdown ==
    /\ ~shutdown
    /\ shutdown' = TRUE
    /\ UNCHANGED <<status, log, runner, resumes, restarts, observed, excuse>>

lostWork(P) == IF \E h \in P : runner[h].pc # "idle" THEN {"repeat", "strand"} ELSE excuse

(* The server exits after a shutdown, or dies, and is started again.       *)
RestartServer ==
    /\ \/ shutdown /\ UNCHANGED restarts
       \/ restarts < MaxServerCrashes /\ restarts' = restarts + 1
    /\ excuse' = lostWork(Resumers)
    /\ runner' = [h \in Procs |-> IF h = Cli THEN runner[h] ELSE idle]
    /\ shutdown' = FALSE
    /\ UNCHANGED <<status, log, resumes, observed>>

(* The process of the first run dies.                                      *)
CliCrash ==
    /\ runner[Cli].pc # "idle" /\ restarts < MaxServerCrashes
    /\ restarts' = restarts + 1
    /\ excuse' = lostWork({Cli})
    /\ runner' = [runner EXCEPT ![Cli] = idle]
    /\ UNCHANGED <<status, log, shutdown, resumes, observed>>

runnerStep(h) ==
    \/ \E r \in Runs : LoadRunMeta(h, r)
    \/ markResumed(h) \/ parseFails(h) \/ policyRejects(h) \/ initResumeState(h)
    \/ executeStep(h) \/ saveCP(h) \/ skipStep(h) \/ stepFails(h) \/ nodePanics(h)
    \/ PauseWorkflow(h) \/ leaveLoop(h) \/ resumeEnds(h)

PausedNext == SignalShutdown \/ RestartServer \/ CliCrash \/ (\E h \in Procs : runnerStep(h))

PausedSpec == PausedInit /\ [][PausedNext]_pausedVars
-----------------------------------------------------------------------------
(* Properties                                                              *)

(* No step is passed over: what a log claims to be done was executed or    *)
(* skipped by its condition, in this run or in one it continues, and so    *)
(* was every step of a run marked as completed that ended by itself.       *)
NothingPassedOver ==
    /\ \A r \in Runs : 1..log[r] \subseteq passed
    /\ \A r \in Runs \ cut : status[r] = "completed" => Steps \subseteq passed

(* No step succeeds twice over all resumptions of a run, except where a    *)
(* save or the copy of the log failed, the log could not be opened or      *)
(* replayed (initResumeState starts afresh), a process died, two requests  *)
(* read the same paused run, or a resumed run paused again: that leaves    *)
(* the old and the new run directory both paused with the same log.        *)
NoStepTwice == twice => "repeat" \in excuse

(* A run marked as resumed is being worked on; only a crash, a node that   *)
(* panics, a workflow file that cannot be parsed or metadata that cannot   *)
(* be written strands it in that state, where no request accepts it any    *)
(* more.                                                                   *)
ResumedIsOwned ==
    \A r \in Runs : status[r] = "resumed" =>
        \/ \E h \in Resumers : runner[h].run = r
        \/ "strand" \in excuse

(* A run marked as completed has passed all its steps: ResumeWorkflow      *)
(* "resumes a paused workflow from the WAL and runs it to completion".     *)
CompletedRanToEnd ==
    \A r \in Runs : status[r] = "completed" => Steps \subseteq passed
=============================================================================
