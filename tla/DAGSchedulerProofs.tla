------------------------- MODULE DAGSchedulerProofs -------------------------
(***************************************************************************)
(* The inductive invariant of DAGInvariant, for every workflow graph,      *)
(* every choice of recoverable steps and every concurrency limit, and the  *)
(* properties of DAGScheduler that follow from it.                         *)
(***************************************************************************)
EXTENDS DAGStepProofs

-----------------------------------------------------------------------------
(* The remaining steps *)

\* Appending leaves the entries where they are, and the new one last.
LEMMA AppendKeeps ==
    ASSUME NEW q \in Seq(Steps), NEW e \in Steps
    PROVE  /\ \A j \in 1 .. Len(q) : Append(q, e)[j] = q[j]
           /\ Append(q, e)[Len(Append(q, e))] = e
<1>1. Len(q) \in Nat /\ Len(Append(q, e)) = Len(q) + 1
    BY Zenon, SeqType, SeqAppend
<1>2. Append(q, e)[Len(q) + 1] = e
    BY SeqAppend
<1>3. ASSUME NEW j \in 1 .. Len(q) PROVE Append(q, e)[j] = q[j]
    BY SeqAppend
<1> QED BY Zenon, <1>1, <1>2, <1>3

\* A process that has not started satisfies every layer.
LEMMA FreshInv ==
    ASSUME Fresh, resumed = {}, pending = NewPending({}), phase = "down"
    PROVE  FlowInv /\ ResultInv /\ OrderInv /\ CheckpointInv /\ InputsAreFinal
<1>1. /\ Dispatched = {} /\ Processed = {} /\ QueuedSteps = {} /\ Completed = {}
      /\ NoDuplicates(dispatchSeq) /\ NoDuplicates(readyQueue)
    BY DEF Fresh, Dispatched, Processed, QueuedSteps, Completed, Elements, NoDuplicates
<1>2. FlowInv
    BY Zenon, <1>1 DEF FlowInv, Fresh
<1>3. ResultInv
    BY <1>1 DEF ResultInv, NotSent, InChannel, OncePerChannel, InBuffer, AwaitingTurn, Fresh
<1>4. OrderInv
    BY Zenon, <1>1 DEF OrderInv, NewPending
<1>5. CheckpointInv /\ InputsAreFinal
    BY Zenon, <1>1 DEF CheckpointInv, InputsAreFinal, Fresh
<1> QED BY Zenon, <1>2, <1>3, <1>4, <1>5

\* The first process finds the invariant established.
LEMMA InvInit == Init => Good
<1> SUFFICES ASSUME Init PROVE IInv
    BY Zenon DEF Good
<1>1. Fresh /\ resumed = {} /\ pending = NewPending({}) /\ phase = "down"
    BY Zenon DEF Init, Fresh
<1>2. PhaseInv
    BY Zenon, <1>1 DEF PhaseInv
<1> QED BY Zenon, <1>1, <1>2, FreshInv, TypeInit DEF IInv, Typed

\* So does the process after a crash.
LEMMA InvCrash == Good /\ Crash => Good'
<1> SUFFICES ASSUME IInv, Crash PROVE IInv'
    BY Zenon DEF Good
<1>1. /\ Fresh' /\ (resumed = {})' /\ (pending = NewPending({}))'
      /\ (phase = "down")'
    BY Zenon DEF Crash, Fresh, NewPending
<1>2. PhaseInv'
    BY Zenon, <1>1 DEF PhaseInv
<1>3. (FlowInv /\ ResultInv /\ OrderInv /\ CheckpointInv /\ InputsAreFinal)'
    BY <1>1, FreshInv, PTL
<1>4. TypeOK'
    BY Zenon, TypeNext DEF IInv, Next, Typed
<1> QED BY Zenon, <1>2, <1>3, <1>4 DEF IInv

\* A process that starts: the steps of the checkpoint are completed, the
\* others wait for exactly their dependencies outside it.
LEMMA InvStart == Good /\ Start => Good'
<1> SUFFICES ASSUME IInv, Start PROVE IInv'
    BY Zenon DEF Good
<1>1. TypeOK /\ Fresh /\ Restored \in SUBSET Steps
    BY Zenon DEF IInv, PhaseInv, Start, Restored
<1>2. /\ phase' = "dispatch" /\ resumed' = Restored /\ Restored' = Restored
      /\ pending' = NewPending(Restored)
      /\ stepResults' = [s \in Steps |-> IF s \in Restored THEN "ok" ELSE "none"]
      /\ UNCHANGED <<dispatchSeq, processPos, prepared, input, results,
                     finalized, completedOK, firstAbortErr, worker, resultChan>>
    BY Zenon DEF Start, Restored, fileVars
<1>3. /\ Dispatched' = {} /\ Processed' = {} /\ Completed' = Restored
      /\ NoDuplicates(dispatchSeq')
    BY <1>1, <1>2 DEF Fresh, Dispatched, Processed, Completed, Elements, NoDuplicates
<1>4. /\ QueuedSteps' = InitiallyReady(Restored)
      /\ NoDuplicates(readyQueue')
    <2>1. readyQueue' \in Ascending(InitiallyReady(Restored))
        BY Zenon DEF Start
    <2>2. InitiallyReady(Restored) \in SUBSET Steps
        BY Zenon DEF InitiallyReady
    <2> QED BY Zenon, <2>1, <2>2, AscendingElements DEF QueuedSteps
<1>5. FlowInv'
    BY Zenon, <1>1, <1>2, <1>3 DEF FlowInv, Fresh
<1>6. ResultInv'
    BY <1>1, <1>2, <1>3
    DEF ResultInv, NotSent, InChannel, OncePerChannel, InBuffer, AwaitingTurn, Fresh
<1>7. OrderInv'
    BY <1>1, <1>2, <1>3, <1>4 DEF OrderInv, NewPending, InitiallyReady
<1>8. CheckpointInv' /\ InputsAreFinal' /\ PhaseInv'
    BY Zenon, <1>1, <1>2, <1>3 DEF CheckpointInv, InputsAreFinal, PhaseInv, Fresh
<1>9. TypeOK'
    BY Zenon, <1>1, TypeStart DEF Typed
<1> QED BY Zenon, <1>5, <1>6, <1>7, <1>8, <1>9 DEF IInv

\* Steps that leave the scheduler's data and the workers alone.
LEMMA InvControl ==
    ASSUME Good, Typed', UNCHANGED <<schedVars, worker, resultChan, fileVars>>,
           phase' # "down", phase # "down",
           phase' = "process" => NeedsNoResult,
           PhaseInv'
    PROVE  Good'
<1> TypeOK' /\ IInv
    BY Zenon DEF Typed, Good
<1> SUFFICES IInv'
    BY Zenon DEF Good
<1>1. /\ Dispatched' = Dispatched /\ Processed' = Processed
      /\ Completed' = Completed /\ QueuedSteps' = QueuedSteps
      /\ Restored' = Restored /\ NeedsNoResult' = NeedsNoResult
      /\ Aborted' = Aborted
    BY Zenon DEF schedVars, fileVars, Dispatched, Processed, Completed, QueuedSteps,
           Restored, NeedsNoResult, Want, Aborted
<1>2. FlowInv'
    BY Zenon, <1>1 DEF IInv, FlowInv, schedVars
<1>3. ResultInv'
    BY Zenon, <1>1 DEF IInv, ResultInv, NotSent, InChannel, OncePerChannel, InBuffer,
                AwaitingTurn, schedVars
<1>4. OrderInv'
    BY Zenon, <1>1 DEF IInv, OrderInv, schedVars
<1>5. CheckpointInv' /\ InputsAreFinal'
    BY Zenon, <1>1 DEF IInv, CheckpointInv, InputsAreFinal, ResolveInput, schedVars
<1> QED BY Zenon, <1>2, <1>3, <1>4, <1>5 DEF IInv

\* A worker takes a slot.
LEMMA InvAcquire == ASSUME NEW s \in Steps, Good, Acquire(s) PROVE Good'
<1> IInv
    BY Zenon DEF Good
<1> SUFFICES IInv'
    BY Zenon DEF Good
<1>1. /\ worker[s] = "queued" /\ worker' = [worker EXCEPT ![s] = "running"]
      /\ UNCHANGED <<phase, schedVars, resultChan, shuttingDown, fileVars>>
    BY Zenon DEF Acquire
<1>2. /\ worker'[s] = "running" /\ \A d \in Steps : d # s => worker'[d] = worker[d]
      /\ \A i \in 1 .. Len(resultChan) : resultChan[i].idx \in Steps
    <2>1. \A i \in 1 .. Len(resultChan) : resultChan[i] \in Result
        BY Zenon, SeqElement DEF IInv, TypeOK
    <2> QED BY Zenon, <1>1, <2>1 DEF IInv, TypeOK, Result
<1>3. /\ Dispatched' = Dispatched /\ Processed' = Processed
      /\ Completed' = Completed /\ QueuedSteps' = QueuedSteps
      /\ Restored' = Restored /\ NeedsNoResult' = NeedsNoResult
      /\ Aborted' = Aborted
    BY Zenon, <1>1 DEF schedVars, fileVars, Dispatched, Processed, Completed, QueuedSteps,
                Restored, NeedsNoResult, Want, Aborted
<1>4. FlowInv'
    BY <1>1, <1>2, <1>3 DEF IInv, FlowInv, schedVars
<1>5. ResultInv'
    <2>1. NotSent'
        BY Zenon, <1>1, <1>2, <1>3 DEF IInv, ResultInv, NotSent, schedVars
    <2>2. InChannel' /\ OncePerChannel'
        BY <1>1, <1>2, <1>3 DEF IInv, ResultInv, InChannel, OncePerChannel, schedVars
    <2>3. InBuffer' /\ AwaitingTurn'
        BY Zenon, <1>1, <1>2, <1>3 DEF IInv, ResultInv, InBuffer, AwaitingTurn, schedVars
    <2> QED BY Zenon, <2>1, <2>2, <2>3 DEF ResultInv
<1>6. OrderInv'
    BY Zenon, <1>1, <1>3 DEF IInv, OrderInv, schedVars
<1>7. CheckpointInv' /\ InputsAreFinal'
    BY Zenon, <1>1, <1>3 DEF IInv, CheckpointInv, InputsAreFinal, ResolveInput, schedVars
<1>8. PhaseInv'
    BY Zenon, <1>1, <1>3 DEF IInv, PhaseInv, Fresh, schedVars
<1>9. TypeOK'
    BY Zenon, TypeNext DEF IInv, Next, Worker, Typed
<1> QED BY Zenon, <1>4, <1>5, <1>6, <1>7, <1>8, <1>9 DEF IInv

\* A worker puts its result in the channel.
LEMMA InvSend ==
    ASSUME NEW s \in Steps, NEW output \in {"empty", "out"},
           NEW err \in {"nil", "error"}, Good,
           worker[s] \in {"queued", "running"}, Send(s, output, err)
    PROVE  Good'
<1> IInv
    BY Zenon DEF Good
<1> SUFFICES IInv'
    BY Zenon DEF Good
<1> DEFINE res == [idx |-> s, output |-> output, err |-> err]
           n == Len(resultChan)
<1>1. /\ worker' = [worker EXCEPT ![s] = "sent"] /\ resultChan' = Append(resultChan, res)
      /\ UNCHANGED <<phase, schedVars, shuttingDown, fileVars>>
    BY Zenon DEF Send
<1>2. /\ worker'[s] = "sent" /\ \A d \in Steps : d # s => worker'[d] = worker[d]
    BY Zenon, <1>1 DEF IInv, TypeOK
<1>3. /\ Len(resultChan') = n + 1 /\ n \in Nat
      /\ \A i \in 1 .. n : resultChan'[i] = resultChan[i]
      /\ \A i \in 1 .. n : resultChan[i].idx \in Steps
      /\ resultChan'[n + 1].idx = s
    <2>1. resultChan \in Seq(Result) /\ res \in Result
        BY Zenon DEF IInv, TypeOK, Result
    <2>2. ASSUME NEW i \in 1 .. n PROVE resultChan[i].idx \in Steps
        <3>1. resultChan[i] \in Result
            BY Zenon, <2>1, SeqElement
        <3> QED BY Zenon, <3>1 DEF Result
    <2>3. res.idx = s
        BY Zenon
    <2> HIDE DEF res
    <2>4. /\ Len(Append(resultChan, res)) = n + 1
          /\ \A i \in 1 .. n : Append(resultChan, res)[i] = resultChan[i]
          /\ Append(resultChan, res)[n + 1] = res
        BY <2>1, SeqAppend
    <2>5. n \in Nat
        BY Zenon, <2>1, SeqType
    <2> QED BY Zenon, <1>1, <2>2, <2>3, <2>4, <2>5
<1>4. \A i \in 1 .. n : resultChan[i].idx # s
    BY Zenon DEF IInv, ResultInv, InChannel
<1>5. results[s] = NoResult /\ s \notin Processed \cup finalized
    BY Zenon DEF IInv, ResultInv, NotSent
<1>6. /\ Dispatched' = Dispatched /\ Processed' = Processed
      /\ Completed' = Completed /\ QueuedSteps' = QueuedSteps
      /\ Restored' = Restored /\ NeedsNoResult' = NeedsNoResult
      /\ Aborted' = Aborted
    BY Zenon, <1>1 DEF schedVars, fileVars, Dispatched, Processed, Completed, QueuedSteps,
                Restored, NeedsNoResult, Want, Aborted
<1> HIDE DEF n, res
<1>7. FlowInv'
    BY <1>1, <1>2, <1>6 DEF IInv, FlowInv, schedVars
<1>8. ResultInv'
    <2>1. NotSent'
        BY Zenon, <1>1, <1>2, <1>6 DEF IInv, ResultInv, NotSent, schedVars
    <2>2. ASSUME NEW i \in 1 .. Len(resultChan')
          PROVE  /\ worker'[resultChan'[i].idx] = "sent"
                 /\ results'[resultChan'[i].idx] = NoResult
                 /\ resultChan'[i].idx \notin Processed' \cup finalized'
        <3>1. CASE i \in 1 .. n
            BY SMTT(60), <1>1, <1>2, <1>3, <1>4, <1>6, <3>1
            DEF IInv, ResultInv, InChannel, schedVars, n
        <3>2. CASE i = n + 1
            BY Zenon, <1>1, <1>2, <1>3, <1>5, <1>6, <3>2 DEF schedVars
        <3> QED BY <1>3, <3>1, <3>2
    <2>3. InChannel'
        BY Zenon, <2>2 DEF InChannel
    <2>4. OncePerChannel'
        <3> SUFFICES ASSUME NEW i \in 1 .. Len(resultChan'),
                            NEW j \in 1 .. Len(resultChan'),
                            resultChan'[i].idx = resultChan'[j].idx
                     PROVE  i = j
            BY Zenon DEF OncePerChannel
        <3>1. i \in 1 .. n \/ i = n + 1
            BY <1>3
        <3>2. j \in 1 .. n \/ j = n + 1
            BY <1>3
        <3>3. \A k, l \in 1 .. n : resultChan[k].idx = resultChan[l].idx => k = l
            BY Zenon DEF IInv, ResultInv, OncePerChannel, n
        <3> QED BY Zenon, <1>3, <1>4, <3>1, <3>2, <3>3
    <2>5. InBuffer' /\ AwaitingTurn'
        BY ZenonT(40), <1>1, <1>2, <1>6 DEF IInv, ResultInv, InBuffer, AwaitingTurn, schedVars
    <2> QED BY Zenon, <2>1, <2>3, <2>4, <2>5 DEF ResultInv
<1>9. OrderInv'
    BY Zenon, <1>1, <1>6 DEF IInv, OrderInv, schedVars
<1>10. CheckpointInv' /\ InputsAreFinal'
    BY Zenon, <1>1, <1>6 DEF IInv, CheckpointInv, InputsAreFinal, ResolveInput, schedVars
<1>11. PhaseInv'
    BY Zenon, <1>1, <1>6 DEF IInv, PhaseInv, Fresh, schedVars
<1>12. TypeOK'
    BY Zenon, TypeSend DEF IInv, Typed
<1> QED BY Zenon, <1>7, <1>8, <1>9, <1>10, <1>11, <1>12 DEF IInv

-----------------------------------------------------------------------------
(* Inputs and checkpoint *)

\* Outputs of completed steps do not change, so neither do inputs taken from
\* them.
LEMMA InputsKept ==
    ASSUME Good, NEW s \in Dispatched, input'[s] = input[s],
           \A d \in Completed : outputs'[d] = outputs[d]
    PROVE  input'[s] = ResolveInput(s)'
<1> IInv
    BY Zenon DEF Good
<1>1. Deps[s] \subseteq Completed
    BY Zenon DEF IInv, OrderInv
<1>2. [d \in Deps[s] |-> outputs'[d]] = [d \in Deps[s] |-> outputs[d]]
    BY Zenon, <1>1
<1> QED BY Zenon, <1>2 DEF IInv, InputsAreFinal, ResolveInput

\* Dispatching a step: its dependencies are completed, it is not itself.
LEMMA InvDispatchReady == Good /\ DispatchReady => Good'
<1> SUFFICES ASSUME IInv, DispatchReady PROVE IInv'
    BY Zenon DEF Good
<1>1. PICK s : s = Head(readyQueue)
    BY Zenon
<1>2. PICK kind \in PrepareDAGStep(s) : DispatchAs(s, kind, Tail(readyQueue))
    BY Zenon, <1>1 DEF DispatchReady
<1>3. /\ readyQueue # <<>> /\ phase' = "dispatch" /\ phase = "dispatch"
      /\ UNCHANGED <<processPos, resumed, stepResults, saved>>
    BY Zenon DEF DispatchReady, fileVars
<1>4. /\ s \in Steps /\ s \in QueuedSteps
      /\ s \notin Dispatched \cup Completed
      /\ Dispatched' = Dispatched \cup {s}
      /\ Processed' = Processed
    BY Zenon, <1>1, <1>2, <1>3, DispatchEffect DEF IInv, Typed
<1>5. /\ TypeOK /\ OrderInv /\ CheckpointInv
      /\ Dispatched \subseteq Steps /\ Completed \subseteq Steps
    BY Zenon, ProcessedDispatched DEF IInv, TypeOK, Completed, Typed
<1>6. /\ \A d \in Steps : d # s => outputs'[d] = outputs[d]
      /\ \A d \in Steps : d # s => input'[d] = input[d]
      /\ input'[s] = ResolveInput(s)
    BY Zenon, <1>2, <1>4, <1>5 DEF DispatchAs, Finalize, TypeOK
<1>7. InputsAreFinal'
    <2>1. \A d \in Completed : outputs'[d] = outputs[d]
        BY Zenon, <1>4, <1>5, <1>6
    <2>2. ASSUME NEW d \in Dispatched PROVE input'[d] = ResolveInput(d)'
        BY Zenon, <1>4, <1>5, <1>6, <2>1, InputsKept DEF Good
    <2>3. input'[s] = ResolveInput(s)'
        <3>1. Deps[s] \subseteq Completed
            BY Zenon, <1>4, <1>5 DEF OrderInv
        <3>2. [d \in Deps[s] |-> outputs'[d]] = [d \in Deps[s] |-> outputs[d]]
            BY ZenonT(60), <2>1, <3>1
        <3> QED BY Zenon, <1>6, <3>2 DEF ResolveInput
    <2> QED BY Zenon, <1>4, <2>2, <2>3 DEF InputsAreFinal
<1>8. CheckpointInv'
    <2>1. completedOK' = completedOK \/ completedOK' = completedOK \cup {s}
        BY Zenon, <1>2 DEF DispatchAs, Finalize
    <2>2. s \notin Processed /\ Restored' = Restored
        BY Zenon, <1>3, <1>4 DEF Completed, Restored
    <2> QED BY Zenon, <1>3, <1>4, <1>5, <2>1, <2>2 DEF CheckpointInv
<1>9. PhaseInv'
    BY Zenon, <1>3 DEF PhaseInv
<1> QED BY Zenon, <1>5, <1>7, <1>8, <1>9, DispatchOrder, DispatchFlow, TypeDispatchReady DEF IInv, Typed, Good

\* A result arrives: what it changes belongs to a step not completed yet.
LEMMA InvAwaitReceive == Good /\ AwaitReceive => Good'
<1> SUFFICES ASSUME IInv, AwaitReceive PROVE IInv'
    BY Zenon DEF Good
<1>1. PICK res : res = Head(resultChan)
    BY Zenon
<1>2. PICK s : s = res.idx
    BY Zenon
<1>3. /\ s \in Steps /\ s \notin Completed
      /\ \/ Finalize(s, res.output, readyQueue)
         \/ UNCHANGED <<outputs, completedOK>>
      /\ Dispatched' = Dispatched /\ Processed' = Processed
    BY Zenon, <1>1, <1>2, ReceiveEffect DEF IInv, Typed
<1>4. /\ phase' = "dispatch" /\ phase = "await"
      /\ UNCHANGED <<processPos, input, resumed, stepResults, saved>>
    BY Zenon DEF AwaitReceive, fileVars
<1>5. /\ TypeOK /\ CheckpointInv
      /\ Dispatched \subseteq Steps /\ Completed \subseteq Steps
    BY Zenon, ProcessedDispatched DEF IInv, TypeOK, Completed, Typed
<1>6. \A d \in Steps : d # s => outputs'[d] = outputs[d]
    BY Zenon, <1>3, <1>5 DEF Finalize, TypeOK
<1>7. InputsAreFinal'
    <2>1. \A d \in Completed : outputs'[d] = outputs[d]
        BY Zenon, <1>3, <1>5, <1>6
    <2> QED BY Zenon, <1>3, <1>4, <2>1, InputsKept DEF InputsAreFinal, Good
<1>8. CheckpointInv'
    <2>1. completedOK' = completedOK \/ completedOK' = completedOK \cup {s}
        BY Zenon, <1>3 DEF Finalize
    <2>2. s \notin Processed /\ Restored' = Restored
        BY Zenon, <1>3, <1>4 DEF Completed, Restored
    <2> QED BY Zenon, <1>3, <1>4, <1>5, <2>1, <2>2 DEF CheckpointInv
<1>9. PhaseInv'
    BY Zenon, <1>4 DEF PhaseInv
<1> QED BY Zenon, <1>5, <1>7, <1>8, <1>9, ReceiveInv, TypeAwaitReceive DEF IInv, Typed, Good

\* A step finalized on arrival has the outcome that was written then.
LEMMA FinalizedOutcome ==
    ASSUME Good, phase = "process", NEW s \in finalized \ Processed,
           NEW o \in ProcessDAGStepResult(s)
    PROVE  o.status = "ok" /\ o.output = outputs[s]
<1> IInv
    BY Zenon DEF Good
<1>1. CASE prepared[s] = "skipped" /\ outputs[s] = "empty"
    BY <1>1 DEF ProcessDAGStepResult, Outcome
<1>2. CASE /\ prepared[s] = "run" /\ results[s].err = "nil"
           /\ outputs[s] = results[s].output
    BY <1>2 DEF ProcessDAGStepResult, Outcome
<1> QED BY Zenon, <1>1, <1>2 DEF IInv, ResultInv, AwaitingTurn

\* A step is processed: only its own output may change, and only if it was
\* not completed before.
LEMMA InvProcessNextResult == Good /\ ProcessNextResult => Good'
<1> SUFFICES ASSUME IInv, ProcessNextResult PROVE IInv'
    BY Zenon DEF Good
<1>1. PICK s : s = Want
    BY Zenon
<1>2. PICK o \in ProcessDAGStepResult(s) : ApplyOutcome(s, o)
    BY Zenon, <1>1 DEF ProcessNextResult
<1>3. /\ s \in Steps /\ s \in Dispatched /\ s \notin Processed
      /\ s \notin resumed
      /\ Processed' = Processed \cup {s}
      /\ Dispatched' = Dispatched
      /\ s \in Completed <=> s \in finalized
    BY Zenon, <1>1, ProcessEffect DEF IInv, Typed
<1>4. /\ phase' = "dispatch" /\ phase = "process"
      /\ UNCHANGED <<input, resumed, finalized>>
    BY Zenon DEF ProcessNextResult
<1>5. /\ TypeOK /\ CheckpointInv /\ FlowInv
      /\ Dispatched \subseteq Steps /\ Completed \subseteq Steps
    BY Zenon, ProcessedDispatched DEF IInv, TypeOK, Completed, Typed
<1>6. s \in finalized => o.status = "ok" /\ o.output = outputs[s]
    BY Zenon, <1>3, <1>4, FinalizedOutcome DEF Good
<1>7. InputsAreFinal'
    <2>1. /\ \A d \in Steps : d # s => outputs'[d] = outputs[d]
          /\ outputs'[s] = o.output
        BY Zenon, <1>2, <1>3, <1>5 DEF ApplyOutcome, TypeOK
    <2>2. \A d \in Completed : outputs'[d] = outputs[d]
        BY Zenon, <1>3, <1>5, <1>6, <2>1
    <2> QED BY Zenon, <1>3, <1>4, <2>2, InputsKept DEF InputsAreFinal, Good
<1>8. CheckpointInv'
    <2>1. /\ \A d \in Steps : d # s => stepResults'[d] = stepResults[d]
          /\ stepResults'[s] = IF o.status = "ok" THEN "ok" ELSE "error"
        BY Zenon, <1>2, <1>3, <1>5 DEF ApplyOutcome, TypeOK
    <2>2. \/ completedOK' = completedOK /\ saved' = saved
          \/ /\ o.status = "ok"
             /\ completedOK' = completedOK \cup {s}
             /\ \/ saved' = saved
                \/ saved' = [d \in Steps |-> IF d \in completedOK' THEN outputs'[d]
                                                                   ELSE Absent]
        BY Zenon, <1>2 DEF ApplyOutcome, SaveCheckpointState, fileVars
    <2>3. Restored' \subseteq Restored \cup completedOK' /\ completedOK \subseteq completedOK'
        BY Zenon, <2>2 DEF Restored
    <2>4. s \in completedOK' => o.status = "ok"
        BY Zenon, <1>3, <1>5, <1>6, <2>2 DEF FlowInv
    <2>5. completedOK' \cup resumed' \subseteq Steps /\ completedOK' \subseteq completedOK \cup {s}
        BY Zenon, <1>3, <1>4, <1>5, <2>2 DEF TypeOK
    <2>6. ASSUME NEW d \in completedOK' \cup resumed' PROVE stepResults'[d] # "error"
        BY Zenon, <1>3, <1>4, <1>5, <2>1, <2>4, <2>5, <2>6 DEF CheckpointInv
    <2> QED BY Zenon, <1>3, <1>4, <1>5, <2>1, <2>3, <2>6 DEF CheckpointInv
<1>9. PhaseInv'
    BY Zenon, <1>4 DEF PhaseInv
<1> QED BY Zenon, <1>5, <1>7, <1>8, <1>9, ProcessInv, TypeProcessNextResult DEF IInv, Typed, Good

\* The invariant is inductive.
LEMMA InvNext == Good /\ [Next]_vars => Good'
<1> SUFFICES ASSUME IInv, [Next]_vars PROVE IInv'
    BY Zenon DEF Good
<1>1. TypeOK'
    BY Zenon, TypeNext DEF IInv, Typed
<1>2. CASE EndDispatch
    <2>1. /\ UNCHANGED <<schedVars, worker, resultChan, fileVars, shuttingDown>>
          /\ phase = "dispatch" /\ phase' \in {"done", "await"}
          /\ phase' = "done" => processPos >= Len(dispatchSeq)
          /\ readyQueue = <<>> \/ Aborted \/ shuttingDown
        BY Zenon, <1>2 DEF EndDispatch
    <2>2. processPos \in 0 .. Len(dispatchSeq) /\ Len(dispatchSeq) \in Nat
        BY Zenon, SeqType DEF IInv, TypeOK
    <2>3. PhaseInv'
        BY <2>1, <2>2 DEF PhaseInv, Aborted, schedVars
    <2> QED BY Zenon, <1>1, <2>1, <2>3, InvControl DEF Typed, Good
<1>3. CASE AwaitSatisfied
    <2>1. /\ UNCHANGED <<schedVars, worker, resultChan, fileVars>>
          /\ phase = "await" /\ phase' = "process" /\ NeedsNoResult
        BY Zenon, <1>3 DEF AwaitSatisfied
    <2>2. PhaseInv'
        BY Zenon, <2>1 DEF PhaseInv
    <2> QED BY Zenon, <1>1, <2>1, <2>2, InvControl DEF Typed, Good
<1>4. CASE RequestShutdown
    <2>1. /\ UNCHANGED <<phase, schedVars, worker, resultChan, fileVars>>
          /\ phase \notin {"down", "done"}
        BY Zenon, <1>4 DEF RequestShutdown
    <2>2. PhaseInv' /\ phase' # "down" /\ (phase' = "process" => NeedsNoResult)
        BY Zenon, <2>1 DEF PhaseInv, IInv, FlowInv
    <2> QED BY Zenon, <1>1, <2>1, <2>2, InvControl DEF Typed, Good
<1>5. ASSUME NEW s \in Steps, Worker(s) PROVE IInv'
    <2>1. CASE AcquireTimeout(s)
        BY Zenon, <2>1, InvSend DEF AcquireTimeout, Good
    <2>2. CASE ExecuteDAGStep(s)
        BY Zenon, <2>2, InvSend DEF ExecuteDAGStep, Good
    <2> QED BY Zenon, <1>5, <2>1, <2>2, InvAcquire DEF Worker, Good
<1>6. CASE UNCHANGED vars
    <2>1. UNCHANGED <<phase, schedVars, worker, resultChan, shuttingDown, fileVars>>
        BY Zenon, <1>6 DEF vars
    <2>2. /\ Dispatched' = Dispatched /\ Processed' = Processed
          /\ Completed' = Completed /\ QueuedSteps' = QueuedSteps
          /\ Restored' = Restored /\ NeedsNoResult' = NeedsNoResult
          /\ Aborted' = Aborted
        BY Zenon, <2>1 DEF schedVars, fileVars, Dispatched, Processed, Completed, QueuedSteps,
                    Restored, NeedsNoResult, Want, Aborted
    <2>3. FlowInv' /\ PhaseInv'
        BY ZenonT(60), <2>1, <2>2 DEF IInv, FlowInv, PhaseInv, Fresh, schedVars
    <2>5. OrderInv'
        BY Zenon, <2>1, <2>2 DEF IInv, OrderInv, schedVars
    <2>6. CheckpointInv'
        BY ZenonT(60), <2>1, <2>2 DEF IInv, CheckpointInv, schedVars, fileVars
    <2>7. InputsAreFinal'
        BY ZenonT(60), <2>1, <2>2 DEF IInv, InputsAreFinal, ResolveInput, schedVars
    <2>4. ResultInv'
        BY ZenonT(60), <2>1, <2>2 DEF IInv, ResultInv, NotSent, InChannel, OncePerChannel,
                          InBuffer, AwaitingTurn, schedVars
    <2> QED BY Zenon, <1>1, <2>3, <2>4, <2>5, <2>6, <2>7 DEF IInv
<1> QED BY Zenon, <1>2, <1>3, <1>4, <1>5, <1>6, InvStart, InvCrash, InvDispatchReady,
           InvAwaitReceive, InvProcessNextResult DEF Next, Scheduler, Finished, Good

-----------------------------------------------------------------------------
(* The theorems *)

\* Every reachable state of every workflow satisfies the invariant.
THEOREM Invariance == Spec => []IInv
<1> QED BY InvInit, InvNext, PTL DEF Spec, Good

\* Dependencies are complete before a step is dispatched, for every acyclic
\* workflow: whatever order results arrive in, after any resume.
THEOREM DepsFirst == Spec => []DepsBeforeDispatch
<1>1. IInv => DepsBeforeDispatch
    BY Zenon DEF IInv, OrderInv, DepsBeforeDispatch, Completed
<1> QED BY <1>1, Invariance, PTL

\* A run dispatches no step twice and no restored step.
THEOREM OnceOnly == Spec => []DispatchedOnce
<1>1. IInv => DispatchedOnce
    BY Zenon DEF IInv, FlowInv, DispatchedOnce
<1> QED BY <1>1, Invariance, PTL

\* What a step was given as input stays what its dependencies produced.
THEOREM FinalInputs == Spec => []InputsAreFinal
<1>1. IInv => InputsAreFinal
    BY Zenon DEF IInv
<1> QED BY <1>1, Invariance, PTL

\* Failed steps are never in the checkpoint, so a resume runs them again.
THEOREM FailuresRetried == Spec => []FailuresNotCheckpointed
<1>1. IInv => FailuresNotCheckpointed
    <2> SUFFICES ASSUME IInv, NEW s \in Steps, stepResults[s] = "error"
                 PROVE  saved[s] = Absent
        BY Zenon DEF FailuresNotCheckpointed
    <2>1. phase # "down"
        BY Zenon DEF IInv, PhaseInv, Fresh
    <2> QED BY Zenon, <2>1 DEF IInv, CheckpointInv, Restored
<1> QED BY <1>1, Invariance, PTL

\* A run that reaches its end has collected all its workers and, unless
\* aborted or shut down, has covered every step of the graph.
THEOREM CompleteAtEnd == Spec => []EndIsComplete
<1>1. ASSUME IInv PROVE EndIsComplete
    <2> SUFFICES ASSUME phase = "done"
                 PROVE  /\ Processed = Dispatched
                        /\ resultChan = <<>>
                        /\ \A s \in Steps : worker[s] \in {"idle", "sent"}
                        /\ ~Aborted /\ ~shuttingDown => Dispatched \cup resumed = Steps
        BY Zenon DEF EndIsComplete
    <2>1. TypeOK /\ FlowInv /\ ResultInv /\ OrderInv /\ PhaseInv
        BY Zenon, <1>1 DEF IInv
    <2>2. Processed = Dispatched
        BY Zenon, <2>1 DEF PhaseInv, Processed, Dispatched, Elements
    <2>3. resultChan = <<>>
        <3> SUFFICES ASSUME resultChan # <<>> PROVE FALSE
            BY Zenon
        <3>1. resultChan \in Seq(Result) /\ 1 \in 1 .. Len(resultChan) /\ resultChan[1] \in Result
            BY <2>1, TailElements, SeqElement DEF TypeOK
        <3>2. resultChan[1].idx \in Steps
            BY Zenon, <3>1 DEF Result
        <3>3. worker[resultChan[1].idx] = "sent" /\ resultChan[1].idx \notin Processed
            BY Zenon, <2>1, <3>1 DEF ResultInv, InChannel
        <3> QED BY Zenon, <2>1, <2>2, <3>2, <3>3 DEF FlowInv
    <2>4. ASSUME NEW s \in Steps PROVE worker[s] \in {"idle", "sent"}
        BY Zenon, <2>1, <2>2 DEF TypeOK, FlowInv, ResultInv, NotSent
    <2>5. ASSUME ~Aborted, ~shuttingDown PROVE Dispatched \cup resumed = Steps
        <3> DEFINE left == Steps \ (Dispatched \cup resumed)
        <3>1. Dispatched \subseteq Steps /\ resumed \subseteq Steps
            BY Zenon, <2>1, ProcessedDispatched DEF TypeOK, Typed
        <3>2. SUFFICES ASSUME left # {} PROVE FALSE
            BY Zenon, <3>1
        <3>3. PICK s \in left : Deps[s] \cap left = {}
            BY Zenon, <3>2, DAGAcyclic
        <3>4. Deps[s] \subseteq Steps
            BY Zenon, <3>3, DAGAssumption
        <3>5. Deps[s] \subseteq Completed
            BY Zenon, <2>2, <3>3, <3>4 DEF Completed
        <3>6. QueuedSteps = {}
            BY <2>1, <2>5 DEF PhaseInv, QueuedSteps, Elements
        <3> QED BY Zenon, <2>1, <2>5, <3>3, <3>5, <3>6 DEF OrderInv
    <2> QED BY Zenon, <2>2, <2>3, <2>4, <2>5
<1> QED BY <1>1, Invariance, PTL

\* A step the checkpoint records is dispatched by no run.
THEOREM CheckpointedNotRerun == Spec => NoRerun
<1>1. ASSUME IInv, [Next]_vars
      PROVE  [Len(dispatchSeq') > Len(dispatchSeq) =>
                  saved[dispatchSeq'[Len(dispatchSeq')]] = Absent]_vars
    <2> SUFFICES ASSUME Next, Len(dispatchSeq') > Len(dispatchSeq)
                 PROVE  saved[dispatchSeq'[Len(dispatchSeq')]] = Absent
        BY Zenon, <1>1
    <2>1. dispatchSeq \in Seq(Steps) /\ Len(dispatchSeq) \in Nat
        BY Zenon, <1>1, SeqType DEF IInv, TypeOK
    <2>2. dispatchSeq' # dispatchSeq /\ dispatchSeq' # <<>>
        BY SMTT(60), <2>1
    <2>3. DispatchReady
        BY ZenonT(60), <2>2 DEF Next, Start, Scheduler, EndDispatch, AwaitSatisfied, AwaitReceive,
                    ProcessNextResult, Worker, Acquire, AcquireTimeout, ExecuteDAGStep,
                    Send, RequestShutdown, Crash, Finished, vars, schedVars
    <2>4. PICK s : s = Head(readyQueue)
        BY Zenon
    <2>5. PICK kind \in PrepareDAGStep(s) : DispatchAs(s, kind, Tail(readyQueue))
        BY Zenon, <2>3, <2>4 DEF DispatchReady
    <2>6. /\ readyQueue # <<>> /\ phase = "dispatch"
          /\ UNCHANGED <<processPos, resumed>>
        BY Zenon, <2>3 DEF DispatchReady
    <2>7. s \in Steps /\ s \notin Completed
        BY Zenon, <1>1, <2>4, <2>5, <2>6, DispatchEffect DEF IInv, Typed
    <2>a. dispatchSeq' = Append(dispatchSeq, s)
        BY Zenon, <2>5 DEF DispatchAs
    <2>8. dispatchSeq'[Len(dispatchSeq')] = s
        BY Zenon, <2>1, <2>7, <2>a, AppendKeeps
    <2>9. Restored \subseteq Completed
        BY Zenon, <1>1, <2>6 DEF IInv, CheckpointInv, FlowInv, Completed
    <2> QED BY Zenon, <2>7, <2>8, <2>9 DEF Restored
<1> QED BY <1>1, Invariance, PTL DEF Spec, NoRerun

-----------------------------------------------------------------------------
(* The error of an aborted run *)

\* Steps that add nothing to what has been processed.
LEMMA AbortKept ==
    ASSUME Good, AbortInv, UNCHANGED <<processPos, firstAbortErr>>,
           \A j \in 1 .. processPos :
               /\ dispatchSeq'[j] = dispatchSeq[j]
               /\ stepResults'[dispatchSeq[j]] = stepResults[dispatchSeq[j]]
               /\ prepared'[dispatchSeq[j]] = prepared[dispatchSeq[j]]
    PROVE  AbortInv'
<1> IInv
    BY Zenon DEF Good
<1>1. ~Aborted' => \A j \in 1 .. processPos' : Settled(dispatchSeq[j])'
    BY Zenon DEF AbortInv, Aborted, Settled
<1>2. ASSUME Aborted' PROVE AbortIsFirstInOrder'
    <2>1. Aborted
        BY Zenon, <1>2 DEF Aborted
    <2>2. PICK i \in 1 .. processPos :
            /\ dispatchSeq[i] = firstAbortErr
            /\ \A j \in 1 .. i - 1 :
                 \/ stepResults[dispatchSeq[j]] = "ok"
                 \/ /\ dispatchSeq[j] \in ContinueOnError
                    /\ prepared[dispatchSeq[j]] = "run"
        BY Zenon, <2>1 DEF AbortInv, AbortIsFirstInOrder
    <2>3. processPos \in Nat
        BY SeqType DEF IInv, TypeOK
    <2>i. i \in Nat /\ i <= processPos
        BY <2>3
    <2>4. ASSUME NEW j \in 1 .. i - 1 PROVE j \in 1 .. processPos
        BY <2>3, <2>i
    <2> QED BY <2>2, <2>4 DEF AbortIsFirstInOrder
<1> QED BY Zenon, <1>1, <1>2 DEF AbortInv, AbortIsFirstInOrder, Settled

\* Processing the next step: it settles, or it is the first not to.
LEMMA AbortProcess == Good /\ AbortInv /\ ProcessNextResult => AbortInv'
<1> SUFFICES ASSUME IInv, AbortInv, ProcessNextResult PROVE AbortInv'
    BY Zenon DEF Good
<1>1. PICK s : s = Want
    BY Zenon
<1>2. PICK o \in ProcessDAGStepResult(s) : ApplyOutcome(s, o)
    BY Zenon, <1>1 DEF ProcessNextResult
<1>3. s \in Steps /\ s \notin Processed
    BY Zenon, <1>1, ProcessEffect DEF IInv, Typed
<1>k. PICK k : k = processPos + 1
    BY Zenon
<1>4. /\ processPos \in Nat /\ processPos' = k /\ s = dispatchSeq[k]
      /\ UNCHANGED <<dispatchSeq, prepared>> /\ TypeOK
    <2>1. processPos \in 0 .. Len(dispatchSeq) /\ TypeOK
        BY Zenon DEF IInv, TypeOK
    <2> QED BY SMTT(60), <1>1, <1>k, <2>1 DEF ProcessNextResult, Want
<1>5. ASSUME NEW j \in 1 .. processPos
      PROVE  /\ dispatchSeq'[j] = dispatchSeq[j]
             /\ stepResults'[dispatchSeq[j]] = stepResults[dispatchSeq[j]]
             /\ prepared'[dispatchSeq[j]] = prepared[dispatchSeq[j]]
    <2>1. dispatchSeq[j] \in Steps /\ dispatchSeq[j] # s
        BY ZenonT(60), <1>3, ProcessedDispatched DEF IInv, Processed, Typed
    <2> QED BY ZenonT(60), <1>2, <1>4, <2>1 DEF ApplyOutcome, TypeOK
<1>6. stepResults'[s] = IF o.status = "ok" THEN "ok" ELSE "error"
    BY Zenon, <1>2, <1>3, <1>4 DEF ApplyOutcome, TypeOK
<1>7. o.status = "continue" => s \in ContinueOnError /\ prepared[s] = "run"
    <2>1. CASE prepared[s] = "run" /\ results[s].err # "nil"
        <3>1. prepared[s] # "evalErr" /\ prepared[s] # "skipped"
            BY Zenon, <2>1
        <3>2. o \in ApplyErrorRecovery(s)
            BY Zenon, <1>2, <2>1, <3>1 DEF ProcessDAGStepResult
        <3> QED BY <2>1, <3>2 DEF ApplyErrorRecovery, Outcome
    <2>2. CASE ~(prepared[s] = "run" /\ results[s].err # "nil")
        <3>1. CASE prepared[s] = "evalErr"
            BY <1>2, <3>1 DEF ProcessDAGStepResult, Outcome
        <3>2. CASE prepared[s] = "skipped"
            <4>1. prepared[s] # "evalErr" /\ prepared[s] # "run"
                BY Zenon, <3>2
            <4> QED BY <1>2, <3>2, <4>1 DEF ProcessDAGStepResult, Outcome
        <3>3. CASE prepared[s] # "evalErr" /\ prepared[s] # "skipped"
            BY SMTT(60), <1>2, <2>2, <3>3 DEF ProcessDAGStepResult, Outcome
        <3> QED BY Zenon, <3>1, <3>2, <3>3
    <2> QED BY Zenon, <2>1, <2>2
<1>8. o.status \in {"ok", "continue", "abort"}
    BY Zenon, <1>3, <1>4, OutcomeType DEF Typed
<1>9. k \in Nat /\ k > processPos /\ 1 .. k = (1 .. processPos) \cup {k}
      /\ 1 .. k - 1 = 1 .. processPos /\ k \in 1 .. k
    BY <1>4, <1>k
<1>10. CASE Aborted
    <2>1. firstAbortErr' = firstAbortErr
        BY Zenon, <1>2, <1>10 DEF ApplyOutcome, FirstAbort
    <2>2. Aborted'
        BY Zenon, <1>10, <2>1 DEF Aborted
    <2>3. PICK i \in 1 .. processPos :
            /\ dispatchSeq[i] = firstAbortErr
            /\ \A j \in 1 .. i - 1 :
                 \/ stepResults[dispatchSeq[j]] = "ok"
                 \/ /\ dispatchSeq[j] \in ContinueOnError
                    /\ prepared[dispatchSeq[j]] = "run"
        BY Zenon, <1>10 DEF AbortInv, AbortIsFirstInOrder
    <2>4. i \in 1 .. k /\ \A j \in 1 .. i - 1 : j \in 1 .. processPos
        BY <1>4, <1>9
    <2>5. i \in 1 .. processPos' /\ dispatchSeq'[i] = firstAbortErr'
        BY Zenon, <1>4, <2>1, <2>3, <2>4
    <2>6. \A j \in 1 .. i - 1 :
                 \/ stepResults'[dispatchSeq'[j]] = "ok"
                 \/ /\ dispatchSeq'[j] \in ContinueOnError
                    /\ prepared'[dispatchSeq'[j]] = "run"
        BY Zenon, <1>5, <2>3, <2>4
    <2>7. AbortIsFirstInOrder'
        BY Zenon, <2>5, <2>6 DEF AbortIsFirstInOrder
    <2> QED BY Zenon, <2>2, <2>7 DEF AbortInv
<1>11. CASE FirstAbort(o)
    <2>1. firstAbortErr' = s /\ ~Aborted
        BY Zenon, <1>2, <1>11 DEF ApplyOutcome, FirstAbort
    <2>2. Aborted'
        BY <1>3, <2>1, DAGAssumption DEF Aborted, NoStep, Steps
    <2>3. \A j \in 1 .. k - 1 : Settled(dispatchSeq[j])'
        BY Zenon, <1>5, <1>9, <2>1 DEF AbortInv, Settled
    <2>4. k \in 1 .. processPos' /\ dispatchSeq'[k] = firstAbortErr'
        BY Zenon, <1>4, <1>9, <2>1
    <2>5. AbortIsFirstInOrder'
        BY Zenon, <2>3, <2>4 DEF AbortIsFirstInOrder, Settled
    <2> QED BY Zenon, <2>2, <2>5 DEF AbortInv
<1>12. CASE ~Aborted /\ ~FirstAbort(o)
    <2>1. firstAbortErr' = firstAbortErr
        BY Zenon, <1>2, <1>12 DEF ApplyOutcome
    <2>2. ~Aborted' /\ o.status \in {"ok", "continue"}
        BY Zenon, <1>8, <1>12, <2>1 DEF Aborted, FirstAbort
    <2>3. Settled(dispatchSeq[k])'
        BY Zenon, <1>4, <1>6, <1>7, <2>2 DEF Settled
    <2>4. \A j \in 1 .. processPos : Settled(dispatchSeq[j])'
        BY Zenon, <1>5, <1>12 DEF AbortInv, Settled
    <2>5. \A j \in 1 .. processPos' : Settled(dispatchSeq[j])'
        BY Zenon, <1>4, <1>9, <2>3, <2>4
    <2> QED BY Zenon, <2>2, <2>5 DEF AbortInv, AbortIsFirstInOrder
<1> QED BY Zenon, <1>10, <1>11, <1>12

\* The error an aborted run returns is that of the first step in dispatch
\* order that failed without recovery, whatever order results arrived in.
THEOREM FirstErrorWins == Spec => []AbortIsFirstInOrder
<1>1. Init => AbortInv
    BY DEF Init, AbortInv, AbortIsFirstInOrder, Aborted
<1>2. ASSUME IInv, AbortInv, [Next]_vars PROVE AbortInv'
    <2>1. CASE Start
        <3>1. UNCHANGED <<processPos, firstAbortErr>> /\ processPos = 0
            BY Zenon, <1>2, <2>1 DEF Start, IInv, PhaseInv, Fresh
        <3> QED BY SMTT(60), <1>2, <3>1, AbortKept DEF Good
    <2>2. CASE DispatchReady
        <3>1. PICK s : s = Head(readyQueue)
            BY Zenon
        <3>2. PICK kind \in PrepareDAGStep(s) : DispatchAs(s, kind, Tail(readyQueue))
            BY Zenon, <2>2, <3>1 DEF DispatchReady
        <3>3. /\ readyQueue # <<>>
              /\ UNCHANGED <<processPos, resumed, firstAbortErr, stepResults>>
            BY Zenon, <2>2 DEF DispatchReady
        <3>4. s \in Steps /\ s \notin Dispatched
            BY Zenon, <1>2, <3>1, <3>2, <3>3, DispatchEffect DEF IInv, Typed
        <3>5. ASSUME NEW j \in 1 .. processPos
              PROVE  dispatchSeq'[j] = dispatchSeq[j]
                     /\ prepared'[dispatchSeq[j]] = prepared[dispatchSeq[j]]
            <4>a. dispatchSeq' = Append(dispatchSeq, s)
                BY Zenon, <3>2 DEF DispatchAs
            <4>b. dispatchSeq \in Seq(Steps) /\ processPos \in 0 .. Len(dispatchSeq)
                BY Zenon, <1>2 DEF IInv, TypeOK
            <4>1. dispatchSeq \in Seq(Steps) /\ j \in 1 .. Len(dispatchSeq)
                BY <4>b, SeqType
            <4>2. dispatchSeq[j] \in Dispatched /\ dispatchSeq[j] \in Steps
                BY Zenon, <4>1, SeqElement DEF Dispatched, Elements
            <4>3. dispatchSeq'[j] = dispatchSeq[j]
                BY Zenon, <3>4, <4>1, <4>a, AppendKeeps
            <4> QED BY ZenonT(60), <1>2, <3>2, <3>4, <4>2, <4>3 DEF DispatchAs, IInv, TypeOK
        <3> QED BY Zenon, <1>2, <3>3, <3>5, AbortKept DEF Good
    <2>3. CASE EndDispatch \/ AwaitSatisfied \/ AwaitReceive \/ RequestShutdown
        <3>1. UNCHANGED <<processPos, firstAbortErr, dispatchSeq, stepResults, prepared>>
            BY Zenon, <2>3 DEF EndDispatch, AwaitSatisfied, AwaitReceive, RequestShutdown, schedVars
        <3> QED BY Zenon, <1>2, <3>1, AbortKept DEF Good
    <2>4. ASSUME NEW s \in Steps, Worker(s) PROVE AbortInv'
        <3>1. UNCHANGED <<processPos, firstAbortErr, dispatchSeq, stepResults, prepared>>
            BY Zenon, <2>4 DEF Worker, Acquire, AcquireTimeout, ExecuteDAGStep, Send, schedVars
        <3> QED BY Zenon, <1>2, <3>1, AbortKept DEF Good
    <2>5. CASE Crash
        BY <2>5 DEF Crash, AbortInv, AbortIsFirstInOrder, Aborted
    <2>6. CASE UNCHANGED vars
        <3>1. UNCHANGED <<processPos, firstAbortErr, dispatchSeq, stepResults, prepared>>
            BY Zenon, <2>6 DEF vars, schedVars
        <3> QED BY Zenon, <1>2, <3>1, AbortKept DEF Good
    <2> QED BY Zenon, <1>2, <2>1, <2>2, <2>3, <2>4, <2>5, <2>6, AbortProcess
            DEF Next, Scheduler, Finished, Good
<1>3. AbortInv => AbortIsFirstInOrder
    BY Zenon DEF AbortInv
<1> QED BY <1>1, <1>2, <1>3, Invariance, PTL DEF Spec

-----------------------------------------------------------------------------
(* The concurrency limiter *)

\* Never more than max_concurrency nodes execute.
THEOREM LimitHolds == Spec => []WithinLimit
<1> DEFINE Fewer == Running' \subseteq Running
<1>1. Init => WithinLimit
    <2> SUFFICES ASSUME Init PROVE WithinLimit
        BY Zenon
    <2>1. Running = {}
        BY Zenon DEF Init, Running
    <2> QED BY <2>1, FS_EmptySet, DAGAssumption DEF WithinLimit
<1>2. ASSUME TypeOK, WithinLimit, Fewer PROVE WithinLimit'
    <2>1. Running \in SUBSET Steps /\ Running' \in SUBSET Steps
        BY Zenon DEF Running
    <2>2. IsFiniteSet(Running) /\ Cardinality(Running) \in Nat /\ Cardinality(Running') \in Nat
        BY Zenon, <2>1, StepsFinite
    <2>3. Cardinality(Running') <= Cardinality(Running)
        BY Zenon, <1>2, <2>2, FS_Subset
    <2> QED BY <1>2, <2>2, <2>3, DAGAssumption DEF WithinLimit
<1>3. ASSUME TypeOK, WithinLimit, NEW s \in Steps, Acquire(s) PROVE WithinLimit'
    <2>1. Running' = Running \cup {s} /\ s \notin Running
        BY Zenon, <1>3 DEF TypeOK, Acquire, Running
    <2>2. Running \in SUBSET Steps
        BY Zenon DEF Running
    <2>3. IsFiniteSet(Running) /\ Cardinality(Running) \in Nat
        BY Zenon, <2>2, StepsFinite
    <2>4. Cardinality(Running') = Cardinality(Running) + 1
        BY Zenon, <2>1, <2>3, FS_AddElement
    <2> QED BY SMTT(60), <1>3, <2>3, <2>4, DAGAssumption DEF WithinLimit, Acquire
<1>4. ASSUME TypeOK, WithinLimit, [Next]_vars PROVE WithinLimit'
    <2>1. CASE UNCHANGED worker
        BY Zenon, <1>2, <1>4, <2>1 DEF Running
    <2>2. CASE DispatchReady
        <3>1. PICK kind \in PrepareDAGStep(Head(readyQueue)) :
                  DispatchAs(Head(readyQueue), kind, Tail(readyQueue))
            BY Zenon, <2>2 DEF DispatchReady
        <3>2. Fewer
            BY Zenon, <1>4, <3>1 DEF TypeOK, DispatchAs, Running
        <3> QED BY Zenon, <1>2, <1>4, <3>2
    <2>3. ASSUME NEW s \in Steps, Worker(s) PROVE WithinLimit'
        <3>1. CASE AcquireTimeout(s) \/ ExecuteDAGStep(s)
            <4>1. Fewer
                BY Zenon, <1>4, <3>1 DEF TypeOK, AcquireTimeout, ExecuteDAGStep, Send, Running
            <4> QED BY Zenon, <1>2, <1>4, <4>1
        <3> QED BY Zenon, <1>3, <1>4, <2>3, <3>1 DEF Worker
    <2>4. CASE Crash
        <3>1. Fewer
            BY Zenon, <2>4 DEF Crash, Running
        <3> QED BY Zenon, <1>2, <1>4, <3>1
    <2> QED BY Zenon, <1>4, <2>1, <2>2, <2>3, <2>4
            DEF Next, Start, Scheduler, EndDispatch, AwaitSatisfied, AwaitReceive,
                ProcessNextResult, RequestShutdown, Finished, vars
<1> QED BY <1>1, <1>4, TypeCorrect, PTL DEF Spec
=============================================================================
