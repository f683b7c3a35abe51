-------------------------------- MODULE Saga --------------------------------
(***************************************************************************)
(* A saga step (executor_saga.go): forward steps in order and, when one of *)
(* them fails, the compensations of those that completed, in reverse       *)
(* order.  The executor may die at any point.  The log of the workflow     *)
(* records whole steps only, so the next process runs the saga from its    *)
(* first forward step again.                                               *)
(***************************************************************************)
EXTENDS Integers, Sequences

CONSTANTS SagaSteps,     \* 1..n, the forward steps
          MaxCrashes     \* bound on the crashes of the executor

ASSUME SagaAssumption == (\E n \in SagaSteps : SagaSteps = 1..n) /\ MaxCrashes \in Nat

VARIABLES compensable,   \* the steps that declare a compensation
          saga,          \* what the executor does: pc, step, and completed,
                         \* the steps to undo, oldest first
          applied,       \* how often the forward step has taken effect
          tried,         \* how often its compensation was run
          crashes

sagaVars == <<compensable, saga, applied, tried, crashes>>

FinalStep == CHOOSE n \in SagaSteps : \A m \in SagaSteps : m <= n

startSaga == [pc |-> "forward", step |-> 1, completed |-> <<>>]

SagaInit ==
    /\ compensable \in SUBSET SagaSteps
    /\ saga = startSaga
    /\ applied = [i \in SagaSteps |-> 0]
    /\ tried = [i \in SagaSteps |-> 0]
    /\ crashes = 0

(* The forward step succeeds, by itself or through its own recovery.  The  *)
(* last one commits the saga.                                              *)
forward ==
    /\ saga.pc = "forward"
    /\ saga' = [pc        |-> IF saga.step = FinalStep THEN "committed" ELSE "forward",
                step      |-> IF saga.step = FinalStep THEN FinalStep ELSE saga.step + 1,
                completed |-> Append(saga.completed, saga.step)]
    /\ applied' = [applied EXCEPT ![saga.step] = @ + 1]
    /\ UNCHANGED <<compensable, tried, crashes>>

(* The forward step fails, also because the context is done.  It is not    *)
(* compensated itself.                                                     *)
forwardFails ==
    /\ saga.pc = "forward"
    /\ saga' = [saga EXCEPT !.pc = "compensate"]
    /\ UNCHANGED <<compensable, applied, tried, crashes>>

Newest == saga.completed[Len(saga.completed)]

(* One round of compensateSaga, from the newest completed step back.  A    *)
(* compensation that fails is logged and the next one is tried; a step     *)
(* that declares none is passed over.                                      *)
compensateSaga ==
    /\ saga.pc = "compensate" /\ saga.completed # <<>>
    /\ saga' = [saga EXCEPT !.completed = SubSeq(@, 1, Len(@) - 1)]
    /\ tried' = [tried EXCEPT ![Newest] =
                    IF Newest \in compensable THEN @ + 1 ELSE @]
    /\ UNCHANGED <<compensable, applied, crashes>>

abortAtGap ==
    /\ saga.pc = "compensate"
    /\ saga.completed # <<>> => Newest \notin compensable
    /\ saga' = [saga EXCEPT !.pc = "aborted"]
    /\ UNCHANGED <<compensable, applied, tried, crashes>>

(* The saga returns the error of the forward step.                         *)
abort ==
    /\ saga.pc = "compensate" /\ saga.completed = <<>>
    /\ saga' = [saga EXCEPT !.pc = "aborted"]
    /\ UNCHANGED <<compensable, applied, tried, crashes>>

(* The process dies, or a node panics, which nothing in the saga recovers; *)
(* the resumed workflow starts the saga step from the beginning.           *)
SagaCrash ==
    /\ saga.pc \in {"forward", "compensate"} /\ crashes < MaxCrashes
    /\ crashes' = crashes + 1
    /\ saga' = startSaga
    /\ UNCHANGED <<compensable, applied, tried>>

SagaReturned == saga.pc \in {"committed", "aborted"} /\ UNCHANGED sagaVars

SagaNext == forward \/ forwardFails \/ compensateSaga \/ abort \/ SagaCrash \/ SagaReturned

SagaSpec == SagaInit /\ [][SagaNext]_sagaVars
-----------------------------------------------------------------------------
(* Properties                                                              *)

(* A saga that reports failure has tried the compensation of every forward *)
(* step that took effect, once for each time it did, however many of the   *)
(* compensations failed; only a crash leaves effects without one, at most  *)
(* one of each step for each crash.  A saga that commits after no crash    *)
(* has undone nothing.                                                     *)
RollbackComplete ==
    /\ saga.pc = "aborted" =>
        \A i \in compensable : tried[i] <= applied[i] /\ applied[i] <= tried[i] + crashes
    /\ saga.pc = "committed" /\ crashes = 0 => \A i \in SagaSteps : tried[i] = 0
=============================================================================
