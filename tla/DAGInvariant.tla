---------------------------- MODULE DAGInvariant ----------------------------
(***************************************************************************)
(* The inductive invariant of DAGScheduler, in four layers, each inductive *)
(* relative to the ones before it.                                         *)
(***************************************************************************)
EXTENDS DAGScheduler

\* The steps whose completion has been (or need not be) propagated.
Completed == resumed \cup finalized \cup Processed

QueuedSteps == Elements(readyQueue)

\* Steps are dispatched once, a position has a worker exactly when it was
\* prepared to run, and everything the scheduler knows of a step is about one
\* that it dispatched.
FlowInv ==
    /\ NoDuplicates(dispatchSeq)
    /\ finalized \subseteq Dispatched
    /\ completedOK \subseteq finalized \cup Processed
    /\ Dispatched \cap resumed = {}
    /\ \A s \in Steps : worker[s] # "idle" => prepared[s] = "run"
    /\ \A s \in Steps : worker[s] # "idle" => s \in Dispatched
    /\ \A s \in Dispatched : prepared[s] = "run" => worker[s] # "idle"
    /\ \A s \in Dispatched : prepared[s] # "none"
    /\ phase = "process" => NeedsNoResult

\* A result is in exactly one place: not sent yet, in the channel, in the
\* reorder buffer, or processed.
NotSent ==
    \A s \in Steps : worker[s] \in {"queued", "running"} =>
        s \notin Processed \cup finalized /\ results[s] = NoResult

InChannel ==
    \A i \in 1 .. Len(resultChan) :
        /\ worker[resultChan[i].idx] = "sent"
        /\ results[resultChan[i].idx] = NoResult
        /\ resultChan[i].idx \notin Processed \cup finalized

OncePerChannel ==
    \A i, j \in 1 .. Len(resultChan) :
        resultChan[i].idx = resultChan[j].idx => i = j

InBuffer ==
    \A s \in Steps : results[s] # NoResult =>
        /\ worker[s] = "sent"
        /\ s \notin Processed
        /\ results[s].err # "nil" => s \notin finalized

AwaitingTurn ==
    \A s \in finalized \ Processed :
        \/ prepared[s] = "skipped" /\ outputs[s] = "empty"
        \/ /\ prepared[s] = "run"
           /\ results[s] # NoResult
           /\ results[s].err = "nil"
           /\ outputs[s] = results[s].output

ResultInv == NotSent /\ InChannel /\ OncePerChannel /\ InBuffer /\ AwaitingTurn

\* Until the run aborts, pending counts the dependencies not completed, and
\* the steps that wait for nothing are the ones queued or dispatched.
OrderInv ==
    /\ NoDuplicates(readyQueue)
    /\ QueuedSteps \cap (Dispatched \cup resumed) = {}
    /\ \A s \in QueuedSteps \cup Dispatched : Deps[s] \subseteq Completed
    /\ \A s \in resumed : pending[s] <= 0
    /\ ~Aborted => \A s \in Steps \ resumed :
                       pending[s] = Cardinality(Deps[s] \ Completed)
    /\ ~Aborted /\ phase # "down" =>
           \A s \in Steps \ resumed :
               Deps[s] \subseteq Completed => s \in QueuedSteps \cup Dispatched

\* What is in the checkpoint, and what the run recorded, agree.
CheckpointInv ==
    /\ phase # "down" => Restored \subseteq resumed \cup completedOK
    /\ \A s \in completedOK \cup resumed : stepResults[s] # "error"
    /\ \A s \in Steps : stepResults[s] = "error" => s \in Processed

\* The state of the scheduler before a run.
Fresh ==
    /\ readyQueue = <<>> /\ dispatchSeq = <<>> /\ processPos = 0
    /\ finalized = {} /\ completedOK = {} /\ firstAbortErr = NoStep
    /\ prepared = [s \in Steps |-> "none"]
    /\ results = [s \in Steps |-> NoResult]
    /\ stepResults = [s \in Steps |-> "none"]
    /\ worker = [s \in Steps |-> "idle"]
    /\ resultChan = <<>>

\* Nothing is left over from an earlier process, and a run that has ended has
\* processed all it dispatched.
PhaseInv ==
    /\ phase = "down" => Fresh
    /\ phase = "done" => /\ processPos = Len(dispatchSeq)
                         /\ readyQueue = <<>> \/ Aborted \/ shuttingDown

IInv ==
    /\ TypeOK
    /\ FlowInv
    /\ ResultInv
    /\ OrderInv
    /\ CheckpointInv
    /\ InputsAreFinal
    /\ PhaseInv

\* Ended without consequence for the workflow.
Settled(s) ==
    \/ stepResults[s] = "ok"
    \/ s \in ContinueOnError /\ prepared[s] = "run"

\* Until a run aborts, every step it has processed is settled.
AbortInv ==
    /\ AbortIsFirstInOrder
    /\ ~Aborted => \A j \in 1 .. processPos : Settled(dispatchSeq[j])
=============================================================================
