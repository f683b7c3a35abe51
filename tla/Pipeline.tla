------------------------------ MODULE Pipeline ------------------------------
(***************************************************************************)
(* Pipelines of workflows (PipelineExecutor of workflow/pipeline.go): the  *)
(* stages run batch by batch of their dependency graph, each in a          *)
(* goroutine, with a condition, retries and a failure policy of its own.   *)
(*                                                                         *)
(* A condition is evaluated on outputs, so it may hold or not.  The input  *)
(* computed for a stage is left out: executeStage takes it and never uses  *)
(* it.                                                                     *)
(***************************************************************************)
EXTENDS Integers, FiniteSets

CONSTANTS Stages,
          Pipelines,     \* [deps, cond, policy, exhausted, concurrency]
          MaxRetries

ASSUME PipelineAssumption == IsFiniteSet(Stages) /\ Stages # {}

VARIABLES pipe,          \* the pipeline that runs
          batch,         \* number of the batch
          toCome,        \* stages of the batch the loop has not come to
          stage,         \* stage[s]: how far the stage is, or its result
          tries, outcome,
          exec,          \* Execute: "batch", "success", "error" or "refused"
          race           \* two goroutines wrote StageResults at once

pipelineVars == <<pipe, batch, toCome, stage, tries, outcome, exec, race>>

Results == {"ok", "failed", "stopped", "skipped"}
-----------------------------------------------------------------------------
(* resolveDAG: round by round, the stages whose dependencies were resolved *)
(* in the rounds before.                                                   *)
resolvedAfter(p) ==
    LET after[i \in 0..Cardinality(Stages)] ==
            IF i = 0 THEN {} ELSE after[i - 1] \cup {s \in Stages : p.deps[s] \subseteq after[i - 1]}
    IN  after

(* Mutant: one resolved dependency is enough.                              *)
BatchSome(p, k) ==
    LET after[i \in 0..k] ==
            IF i = 0 THEN {}
            ELSE after[i - 1] \cup {s \in Stages : p.deps[s] = {} \/ p.deps[s] \cap after[i - 1] # {}}
    IN  after[k] \ after[k - 1]
BatchOf(p, k) == resolvedAfter(p)[k] \ resolvedAfter(p)[k - 1]
Batches(p) == {k \in 1..Cardinality(Stages) : BatchOf(p, k) # {}}
Level(p, s) == CHOOSE k \in Batches(p) : s \in BatchOf(p, k)
circular(p) == UNION {BatchOf(p, k) : k \in Batches(p)} # Stages

PipelineInit ==
    /\ pipe \in Pipelines
    /\ batch = 1 /\ toCome = BatchOf(pipe, 1)
    /\ stage = [s \in Stages |-> "none"] /\ tries = [s \in Stages |-> 0]
    /\ outcome = [s \in Stages |-> "none"]
    /\ exec = IF circular(pipe) THEN "refused" ELSE "batch"
    /\ race = FALSE

(* The loop over the batch launches a goroutine, or notes the stage as     *)
(* skipped when its condition is false.  That note is written without the  *)
(* mutex the goroutines hold when they write theirs.                       *)
skip(s) ==
    /\ exec = "batch" /\ ~race /\ s \in toCome /\ s \in pipe.cond
    /\ toCome' = toCome \ {s} /\ stage' = [stage EXCEPT ![s] = "skipped"]
    /\ race' \in {FALSE, \E t \in Stages : stage[t] = "writing"}
    /\ UNCHANGED <<pipe, batch, tries, outcome, exec>>
launch(s) ==
    /\ exec = "batch" /\ ~race /\ s \in toCome
    /\ toCome' = toCome \ {s} /\ stage' = [stage EXCEPT ![s] = "queued"]
    /\ UNCHANGED <<pipe, batch, tries, outcome, exec, race>>

Holders == {s \in Stages : stage[s] \in {"running", "ran", "writing"}}
Concurrency == IF pipe.concurrency > 1 THEN pipe.concurrency ELSE 1

acquireSem(s) ==
    /\ ~race /\ stage[s] = "queued" /\ Cardinality(Holders) < Concurrency
    /\ stage' = [stage EXCEPT ![s] = "running"]
    /\ UNCHANGED <<pipe, batch, toCome, tries, outcome, exec, race>>

(* executeStage: attempts until one succeeds, while the policy retries.    *)
StageOutcome(s) ==
    IF "continue" \in {pipe.policy[s], pipe.exhausted[s]} THEN "failed" ELSE "stopped"
executeStage(s) ==
    /\ ~race /\ stage[s] = "running"
    /\ \/ /\ stage' = [stage EXCEPT ![s] = "ran"] /\ outcome' = [outcome EXCEPT ![s] = "ok"]
          /\ UNCHANGED tries
       \/ /\ pipe.policy[s] = "retry" /\ tries[s] < MaxRetries
          /\ tries' = [tries EXCEPT ![s] = @ + 1]
          /\ UNCHANGED <<stage, outcome>>
       \/ /\ pipe.policy[s] = "retry" => tries[s] = MaxRetries
          /\ stage' = [stage EXCEPT ![s] = "ran"]
          /\ outcome' = [outcome EXCEPT ![s] = StageOutcome(s)]
          /\ UNCHANGED tries
    /\ UNCHANGED <<pipe, batch, toCome, exec, race>>

(* The goroutine stores its result under the mutex.                        *)
storeResult(s) ==
    /\ ~race
    /\ \/ /\ stage[s] = "ran" /\ \A t \in Stages : stage[t] # "writing"
          /\ stage' = [stage EXCEPT ![s] = "writing"]
       \/ stage[s] = "writing" /\ stage' = [stage EXCEPT ![s] = outcome[s]]
    /\ UNCHANGED <<pipe, batch, toCome, tries, outcome, exec, race>>

BatchOver == toCome = {} /\ \A s \in BatchOf(pipe, batch) : stage[s] \in Results

(* wg.Wait returns: an error of the batch ends the pipeline.               *)
endBatch ==
    /\ exec = "batch" /\ ~race /\ BatchOver
    /\ IF \E s \in Stages : stage[s] = "stopped" THEN exec' = "error" /\ UNCHANGED <<batch, toCome>>
       ELSE IF batch + 1 \in Batches(pipe)
       THEN batch' = batch + 1 /\ toCome' = BatchOf(pipe, batch + 1) /\ UNCHANGED exec
       ELSE exec' = "success" /\ UNCHANGED <<batch, toCome>>
    /\ UNCHANGED <<pipe, stage, tries, outcome, race>>

(* Execute has returned, or the concurrent write has ended the process.    *)
PipelineOver == (exec # "batch" \/ race) /\ UNCHANGED pipelineVars

PipelineNext ==
    \/ \E s \in Stages : skip(s) \/ launch(s) \/ acquireSem(s) \/ executeStage(s) \/ storeResult(s)
    \/ endBatch \/ PipelineOver

PipelineSpec == PipelineInit /\ [][PipelineNext]_pipelineVars
-----------------------------------------------------------------------------
(* A stage starts only when every stage it depends on has its result, and  *)
(* nothing starts once a stage has stopped the pipeline in an earlier      *)
(* batch (resolveDAG and Execute: DependsOn "lists stage names that must   *)
(* complete before this stage can start").                                 *)
StageAfterDeps ==
    \A s \in Stages : stage[s] \notin {"none", "skipped"} =>
        /\ \A d \in pipe.deps[s] : stage[d] \in Results
        /\ \A d \in Stages : stage[d] = "stopped" => Level(pipe, s) <= Level(pipe, d)
=============================================================================
