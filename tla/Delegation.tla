----------------------------- MODULE Delegation -----------------------------
(***************************************************************************)
(* The supervisor's delegation of subtasks to external agents              *)
(* (runDelegations of nodes/supervisor_agents.go), the sidecar file that   *)
(* lets a crashed step resume (nodes/supervisor_checkpoint.go) and the     *)
(* circuit breaker of each agent (agentx/breaker.go) that RunCLI and       *)
(* SendMessage ask before and tell after a delegation.                     *)
(*                                                                         *)
(* A job is an agent with a subtask, the key of the sidecar.  The planning *)
(* model may plan other jobs in every attempt.  A result is its goal: what *)
(* matters is which question it answers.  The sidecar is named after the   *)
(* step of the DAG: supervisors nested in one parallel or map step have    *)
(* the same.  One of them is modelled in full, the others by what they     *)
(* write.                                                                  *)
(***************************************************************************)
EXTENDS Integers, FiniteSets

CONSTANTS Jobs, Agents,
          AgentOf,       \* AgentOf[j]: the agent job j is assigned to
          Driver,        \* Driver[a]: "cli" or "a2a"
          Siblings,      \* sets of jobs that another supervisor may have answers to
          Goals,
          MaxParallel,   \* delegation slots
          Threshold,     \* failures that open a circuit
          MaxAttempts,   \* bound on the attempts of the step
          MaxFaults      \* bound on crashes, I/O errors and writes of others

NoGoal == "none"

ASSUME DelegationAssumption ==
    /\ AgentOf \in [Jobs -> Agents]
    /\ Driver \in [Agents -> {"cli", "a2a"}]
    /\ NoGoal \notin Goals /\ Siblings \subseteq SUBSET Jobs
    /\ MaxParallel \in Nat \ {0} /\ Threshold \in Nat \ {0}

VARIABLES goal,          \* of the attempt; NoGoal between attempts
          resumed,       \* delegationResume.done: jobs with a result, and its goal
          job,           \* job[j]: how far the job is in this attempt
          stepCancelled, \* the step's context
          sidecar,       \* the file: its goal hash and its results
          circuit,       \* circuit[a]: "closed", "open" or "half-open"
          failures,      \* failures[a]: consecutive ones while closed
          cooled,        \* cooled[a]: the open circuit's cool-down has elapsed
          saved,         \* ghost: jobs with a result saved for the sidecar's goal
          savedBefore,   \* ghost: saved, when the attempt began
          attempts, faults

jobVars == <<goal, resumed, job, stepCancelled>>
breakerVars == <<circuit, failures, cooled>>
ghostVars == <<saved, savedBefore, attempts>>
delegationVars == <<jobVars, sidecar, breakerVars, ghostVars, faults>>

Nothing == [goal |-> NoGoal, results |-> {}]

(* A failed job keeps its slot.                                            *)
SlotsLeaked == Cardinality({j \in Jobs : job[j] \in {"slot", "probing", "running", "recording", "failed"}})

Slots == Cardinality({j \in Jobs : job[j] \in {"slot", "probing", "running", "recording"}})
Ended == {"idle", "restored", "ok", "failed"}

DelegationInit ==
    /\ goal = NoGoal /\ resumed = {} /\ job = [j \in Jobs |-> "idle"] /\ stepCancelled = FALSE
    /\ sidecar = Nothing
    /\ circuit = [a \in Agents |-> "closed"] /\ failures = [a \in Agents |-> 0]
    /\ cooled = [a \in Agents |-> FALSE]
    /\ saved = {} /\ savedBefore = {} /\ attempts = 0 /\ faults = 0
-----------------------------------------------------------------------------
(* The step                                                                *)

AnsweredJobs(results) == {r.job : r \in results}

newDelegationResumeAnyGoal(g) == sidecar.results

(* Results of the sidecar written for another goal are not loaded.         *)
newDelegationResume(g) == IF sidecar.goal = g THEN sidecar.results ELSE {}

(* An attempt of the step: the first, a retry of the executor, or the      *)
(* resume after a crash.  Restored jobs are answered from the sidecar, the *)
(* others get a goroutine each.  A sidecar that cannot be read counts as   *)
(* empty, and one that cannot be parsed is moved aside.                    *)
runDelegations(g, plan) ==
    /\ goal = NoGoal /\ attempts < MaxAttempts /\ attempts' = attempts + 1
    /\ goal' = g /\ stepCancelled' = FALSE
    /\ \/ /\ resumed' = newDelegationResume(g)
          /\ savedBefore' = IF sidecar.goal = g THEN saved ELSE {}
          /\ UNCHANGED <<sidecar, saved, faults>>
       \/ /\ faults < MaxFaults /\ faults' = faults + 1
          /\ resumed' = {} /\ savedBefore' = {} /\ saved' = {}
          /\ sidecar' \in {sidecar, Nothing}
    /\ job' = [j \in Jobs |-> IF j \notin plan THEN "idle"
                              ELSE IF j \in AnsweredJobs(resumed') THEN "restored" ELSE "queued"]
    /\ UNCHANGED breakerVars

To(j, s) == job' = [job EXCEPT ![j] = s]

takeSlot(j) ==
    /\ job[j] = "queued" /\ Slots < MaxParallel
    /\ To(j, "slot")
    /\ UNCHANGED <<goal, resumed, stepCancelled, sidecar, breakerVars, ghostVars, faults>>

(* The wait for a slot gives up when the step's context ends.              *)
slotCancelled(j) ==
    /\ job[j] = "queued" /\ stepCancelled
    /\ To(j, "failed")
    /\ UNCHANGED <<goal, resumed, stepCancelled, sidecar, breakerVars, ghostVars, faults>>

cancelStep ==
    /\ goal # NoGoal /\ ~stepCancelled /\ stepCancelled' = TRUE
    /\ UNCHANGED <<goal, resumed, job, sidecar, breakerVars, ghostVars, faults>>

(* wg.Wait returns.                                                        *)
delegationsReturn ==
    /\ goal # NoGoal /\ \A j \in Jobs : job[j] \in Ended
    /\ goal' = NoGoal /\ resumed' = {} /\ job' = [j \in Jobs |-> "idle"] /\ stepCancelled' = FALSE
    /\ UNCHANGED <<sidecar, breakerVars, ghostVars, faults>>
-----------------------------------------------------------------------------
(* The circuit breaker                                                     *)

(* record, as a function of the agent and the outcome.                     *)
Succeeded(a) ==
    /\ circuit' = [circuit EXCEPT ![a] = "closed"]
    /\ failures' = [failures EXCEPT ![a] = 0]
    /\ UNCHANGED cooled
reopen(a) ==
    /\ circuit' = [circuit EXCEPT ![a] = "open"]
    /\ cooled' = [cooled EXCEPT ![a] = FALSE]
failed(a) ==
    \/ /\ circuit[a] = "closed"
       /\ failures' = [failures EXCEPT ![a] = @ + 1]
       /\ IF failures'[a] >= Threshold THEN reopen(a) ELSE UNCHANGED <<circuit, cooled>>
    \/ circuit[a] = "half-open" /\ reopen(a) /\ UNCHANGED failures
    \/ circuit[a] = "open" /\ UNCHANGED breakerVars

CoolDown(a) ==
    /\ circuit[a] = "open" /\ ~cooled[a]
    /\ cooled' = [cooled EXCEPT ![a] = TRUE]
    /\ UNCHANGED <<jobVars, sidecar, circuit, failures, ghostVars, faults>>

(* allow refuses while the circuit is open; after the cool-down the caller *)
(* that finds it so makes it half-open, and probes an A2A agent first.     *)
allow(j) ==
    LET a == AgentOf[j] IN
    /\ job[j] = "slot"
    /\ \/ circuit[a] \in {"closed", "half-open"} /\ To(j, "running") /\ UNCHANGED breakerVars
       \/ circuit[a] = "open" /\ ~cooled[a] /\ To(j, "failed") /\ UNCHANGED breakerVars
       \/ /\ circuit[a] = "open" /\ cooled[a]
          /\ circuit' = [circuit EXCEPT ![a] = "half-open"]
          /\ To(j, IF Driver[a] = "a2a" THEN "probing" ELSE "running")
          /\ UNCHANGED <<failures, cooled>>
    /\ UNCHANGED <<goal, resumed, stepCancelled, sidecar, ghostVars, faults>>

probe(j) ==
    /\ job[j] = "probing"
    /\ \/ Succeeded(AgentOf[j]) /\ To(j, "running")
       \/ reopen(AgentOf[j]) /\ To(j, "failed") /\ UNCHANGED failures
    /\ UNCHANGED <<goal, resumed, stepCancelled, sidecar, ghostVars, faults>>
-----------------------------------------------------------------------------
(* The delegation itself                                                   *)

(* RunCLI and SendMessage end: the time limit of the task sees to it.      *)
delegationSucceeds(j) ==
    /\ job[j] = "running" /\ Succeeded(AgentOf[j]) /\ To(j, "recording")
    /\ UNCHANGED <<goal, resumed, stepCancelled, sidecar, ghostVars, faults>>
delegationFails(j) ==
    /\ job[j] = "running" /\ failed(AgentOf[j]) /\ To(j, "failed")
    /\ UNCHANGED <<goal, resumed, stepCancelled, sidecar, ghostVars, faults>>

(* A task that is refused before the breaker is asked, or an audit record  *)
(* or temporary file that cannot be written, ends the delegation without   *)
(* telling the breaker.                                                    *)
delegationUntold(j) ==
    /\ job[j] \in {"slot", "running"} /\ faults < MaxFaults /\ faults' = faults + 1
    /\ To(j, "failed")
    /\ UNCHANGED <<goal, resumed, stepCancelled, sidecar, breakerVars, ghostVars>>

Result(j) == [job |-> j, goal |-> goal]

recordOwn(j) ==
    /\ job[j] = "recording" /\ To(j, "ok")
    /\ resumed' = resumed \cup {Result(j)}
    /\ \/ /\ sidecar' = [goal |-> goal, results |-> {Result(j)}]
          /\ saved' = {j} \cup (IF sidecar.goal = goal THEN saved ELSE {})
          /\ UNCHANGED faults
       \/ faults < MaxFaults /\ faults' = faults + 1 /\ UNCHANGED <<sidecar, saved>>
    /\ UNCHANGED <<goal, stepCancelled, breakerVars, savedBefore, attempts>>

(* resume.record, under the resume's mutex, rewrites the file with every   *)
(* result so far; a file of another goal is replaced.  A failed write is   *)
(* logged and forgotten.                                                   *)
recordResult(j) ==
    /\ job[j] = "recording" /\ To(j, "ok")
    /\ resumed' = resumed \cup {Result(j)}
    /\ \/ /\ sidecar' = [goal |-> goal, results |-> resumed']
          /\ saved' = {j} \cup (IF sidecar.goal = goal THEN saved ELSE {})
          /\ UNCHANGED faults
       \/ faults < MaxFaults /\ faults' = faults + 1 /\ UNCHANGED <<sidecar, saved>>
    /\ UNCHANGED <<goal, stepCancelled, breakerVars, savedBefore, attempts>>

(* Another supervisor of the step records a result, and so replaces the    *)
(* file by what it knows itself: answers to its own goal only.             *)
siblingRecords(g, answered) ==
    /\ faults < MaxFaults /\ faults' = faults + 1
    /\ sidecar' = [goal |-> g, results |-> {[job |-> j, goal |-> g] : j \in answered}]
    /\ saved' = IF sidecar.goal = g THEN saved \cap answered ELSE {}
    /\ UNCHANGED <<jobVars, breakerVars, savedBefore, attempts>>

(* The process dies: the file is what is left.                             *)
DelegationCrash ==
    /\ faults < MaxFaults /\ faults' = faults + 1
    /\ goal' = NoGoal /\ resumed' = {} /\ job' = [j \in Jobs |-> "idle"] /\ stepCancelled' = FALSE
    /\ circuit' = [a \in Agents |-> "closed"] /\ failures' = [a \in Agents |-> 0]
    /\ cooled' = [a \in Agents |-> FALSE]
    /\ UNCHANGED <<sidecar, ghostVars>>

jobStep(j) ==
    \/ takeSlot(j) \/ slotCancelled(j) \/ allow(j) \/ probe(j)
    \/ delegationSucceeds(j) \/ delegationFails(j) \/ delegationUntold(j) \/ recordResult(j)

(* The bound on the attempts is used up.                                   *)
DelegationOver == goal = NoGoal /\ attempts = MaxAttempts /\ UNCHANGED delegationVars

DelegationNext ==
    \/ \E g \in Goals, plan \in SUBSET Jobs \ {{}} : runDelegations(g, plan)
    \/ \E g \in Goals, answered \in Siblings : siblingRecords(g, answered)
    \/ \E j \in Jobs : jobStep(j)
    \/ \E a \in Agents : CoolDown(a)
    \/ cancelStep \/ delegationsReturn \/ DelegationCrash \/ DelegationOver

DelegationSpec == DelegationInit /\ [][DelegationNext]_delegationVars

(* Goroutines that can go on are scheduled, and delegations end by their   *)
(* time limit.  It is enough that one of them moves: each job has finitely *)
(* many steps.                                                             *)
DelegationProgress ==
    \/ delegationsReturn
    \/ \E j \in Jobs : takeSlot(j) \/ allow(j) \/ probe(j) \/ delegationSucceeds(j)
                         \/ delegationFails(j) \/ recordResult(j)
DelegationFairness == WF_delegationVars(DelegationProgress)
-----------------------------------------------------------------------------
(* What an earlier attempt of this step saved for the same goal is never   *)
(* sent to an agent again, whatever crashed and whichever writes failed    *)
(* in between (nodes/supervisor_checkpoint.go: a resume "re-dispatches     *)
(* only the unfinished ones"), except where the sidecar could not be read  *)
(* or another supervisor nested in the same step has rewritten it without  *)
(* the result since.                                                       *)
SavedNotRedone ==
    goal # NoGoal => \A j \in savedBefore : job[j] \in {"idle", "restored"}

(* A restored result answers the goal of the attempt that restores it      *)
(* (newDelegationResume: "stale sidecars can never answer a new            *)
(* question").                                                             *)
RestoredAnswersGoal ==
    \A r \in resumed : r.goal = goal

(* runDelegations returns: no job waits for ever for a slot or for the     *)
(* breaker, whatever the others do and fail to do.                         *)
DelegationsEnd == goal # NoGoal ~> goal = NoGoal
=============================================================================
