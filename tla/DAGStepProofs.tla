--------------------------- MODULE DAGStepProofs ---------------------------
(***************************************************************************)
(* Proofs about DAGScheduler, for every workflow graph, every choice of    *)
(* recoverable steps and every concurrency limit: the effect of every      *)
(* step, the inductive invariant of DAGInvariant, and the properties that  *)
(* follow from it.                                                         *)
(***************************************************************************)
EXTENDS DAGInvariant, FiniteSetTheorems, TLAPS

\* TypeOK and IInv under the names the lemmas are stated with: a leaf that
\* expands TypeOK or IInv then expands it in its own hypotheses only, and not
\* in the statement of every lemma before it.
Typed == TypeOK
Good == IInv

-----------------------------------------------------------------------------
(* What the sequence operators return *)

\* A sequence is a function on its positions.
LEMMA SeqType ==
    ASSUME NEW S, NEW q \in Seq(S)
    PROVE  /\ q \in [1 .. Len(q) -> S] /\ DOMAIN q = 1 .. Len(q)
           /\ Len(q) \in Nat /\ (Len(q) = 0 <=> q = <<>>)
OBVIOUS

\* What stands at a position.
LEMMA SeqElement ==
    ASSUME NEW S, NEW q \in Seq(S), NEW i \in 1 .. Len(q)
    PROVE  q[i] \in S
OBVIOUS

\* A step joins the end of a queue.
LEMMA SeqAppend ==
    ASSUME NEW S, NEW q \in Seq(S), NEW e \in S
    PROVE  /\ Append(q, e) \in Seq(S) /\ Len(Append(q, e)) = Len(q) + 1
           /\ Append(q, e)[Len(q) + 1] = e
           /\ \A i \in 1 .. Len(q) : Append(q, e)[i] = q[i]
OBVIOUS

\* A batch of steps joins the end of a queue.
LEMMA SeqConcat ==
    ASSUME NEW S, NEW p \in Seq(S), NEW q \in Seq(S)
    PROVE  /\ p \o q \in Seq(S) /\ Len(p \o q) = Len(p) + Len(q)
           /\ \A i \in 1 .. Len(p) + Len(q) :
                  (p \o q)[i] = IF i > Len(p) THEN q[i - Len(p)] ELSE p[i]
OBVIOUS

\* The first entry leaves a queue.
LEMMA SeqTail ==
    ASSUME NEW S, NEW q \in Seq(S), q # <<>>
    PROVE  /\ Head(q) \in S /\ Head(q) = q[1]
           /\ Tail(q) \in Seq(S) /\ Len(Tail(q)) = Len(q) - 1
           /\ \A i \in 1 .. Len(Tail(q)) : Tail(q)[i] = q[i + 1]
OBVIOUS

-----------------------------------------------------------------------------
(* Sequences without duplicates, and the index-ordered enumeration *)

\* Any set of steps is finite.
LEMMA StepsFinite ==
    \A S \in SUBSET Steps : IsFiniteSet(S) /\ Cardinality(S) \in Nat
<1> IsFiniteSet(Steps)
    BY DAGAssumption, FS_Interval DEF Steps
<1> QED BY Zenon, FS_Subset, FS_CardinalityType

\* Appending an element (dispatch of a step).
LEMMA AppendElements ==
    ASSUME NEW S, NEW q \in Seq(S), NEW e \in S
    PROVE  /\ Elements(Append(q, e)) = Elements(q) \cup {e}
           /\ NoDuplicates(q) /\ e \notin Elements(q) => NoDuplicates(Append(q, e))
<1> DEFINE r == Append(q, e)
<1>1. /\ r \in Seq(S) /\ Len(r) = Len(q) + 1 /\ Len(q) \in Nat
      /\ \A i \in 1 .. Len(q) : r[i] = q[i]
      /\ r[Len(q) + 1] = e
    BY SeqAppend, SeqType
<1> HIDE DEF r
<1>2. Elements(r) = Elements(q) \cup {e}
    BY <1>1 DEF Elements
<1>3. NoDuplicates(q) /\ e \notin Elements(q) => NoDuplicates(r)
    BY <1>1 DEF Elements, NoDuplicates
<1> QED BY Zenon, <1>2, <1>3 DEF r

\* Removing the head (of the ready queue, of the result channel).
LEMMA TailElements ==
    ASSUME NEW S, NEW q \in Seq(S), q # <<>>
    PROVE  /\ Head(q) \in S
           /\ Tail(q) \in Seq(S)
           /\ Head(q) = q[1]
           /\ Len(q) \in Nat \ {0}
           /\ Elements(q) = Elements(Tail(q)) \cup {Head(q)}
           /\ NoDuplicates(q) => /\ NoDuplicates(Tail(q))
                                 /\ Head(q) \notin Elements(Tail(q))
<1> DEFINE r == Tail(q)
<1>1. /\ Head(q) \in S /\ r \in Seq(S) /\ Len(r) = Len(q) - 1
      /\ Len(q) \in Nat \ {0} /\ Len(r) \in Nat /\ Head(q) = q[1]
      /\ \A i \in 1 .. Len(r) : r[i] = q[i + 1]
    BY SeqTail, SeqType
<1> HIDE DEF r
<1>2. Elements(q) = Elements(r) \cup {q[1]}
    <2>1. ASSUME NEW x \in Elements(q) PROVE x \in Elements(r) \cup {q[1]}
        <3>1. PICK i \in 1 .. Len(q) : x = q[i]
            BY Zenon, <2>1 DEF Elements
        <3>2. CASE i = 1
            BY Zenon, <3>1, <3>2
        <3>3. CASE i # 1
            <4>1. i - 1 \in 1 .. Len(r) /\ r[i - 1] = q[(i - 1) + 1]
                BY <1>1, <3>3
            <4> QED BY <4>1, <3>1 DEF Elements
        <3> QED BY Zenon, <3>2, <3>3
    <2>2. ASSUME NEW x \in Elements(r) PROVE x \in Elements(q)
        <3>1. PICK i \in 1 .. Len(r) : x = r[i]
            BY Zenon, <2>2 DEF Elements
        <3>2. i + 1 \in 1 .. Len(q) /\ x = q[i + 1]
            BY <1>1, <3>1
        <3> QED BY Zenon, <3>2 DEF Elements
    <2>3. q[1] \in Elements(q)
        BY <1>1 DEF Elements
    <2> QED BY Zenon, <2>1, <2>2, <2>3
<1>3. NoDuplicates(q) => NoDuplicates(r) /\ q[1] \notin Elements(r)
    BY <1>1 DEF NoDuplicates, Elements
<1> QED BY Zenon, <1>1, <1>2, <1>3 DEF r

\* Concatenation (newly ready steps join the queue).
LEMMA ConcatElements ==
    ASSUME NEW S, NEW p \in Seq(S), NEW q \in Seq(S)
    PROVE  /\ p \o q \in Seq(S)
           /\ Elements(p \o q) = Elements(p) \cup Elements(q)
           /\ /\ NoDuplicates(p) /\ NoDuplicates(q)
              /\ Elements(p) \cap Elements(q) = {}
              => NoDuplicates(p \o q)
<1> DEFINE r == p \o q
<1>1. /\ r \in Seq(S) /\ Len(r) = Len(p) + Len(q)
      /\ Len(p) \in Nat /\ Len(q) \in Nat
      /\ \A i \in 1 .. Len(p) + Len(q) :
             r[i] = IF i <= Len(p) THEN p[i] ELSE q[i - Len(p)]
    BY SeqConcat, SeqType
<1> HIDE DEF r
<1>2. Elements(r) = Elements(p) \cup Elements(q)
    <2>1. ASSUME NEW x \in Elements(r) PROVE x \in Elements(p) \cup Elements(q)
        BY <1>1, <2>1 DEF Elements
    <2>2. ASSUME NEW x \in Elements(p) PROVE x \in Elements(r)
        BY <1>1, <2>2 DEF Elements
    <2>3. ASSUME NEW x \in Elements(q) PROVE x \in Elements(r)
        <3>1. PICK i \in 1 .. Len(q) : x = q[i]
            BY Zenon, <2>3 DEF Elements
        <3>2. PICK k \in Int : k = i + Len(p)
            BY <1>1
        <3>3. k \in 1 .. Len(r) /\ ~(k <= Len(p)) /\ k - Len(p) = i
            BY <1>1, <3>2
        <3>4. r[k] = q[k - Len(p)]
            BY Zenon, <1>1, <3>3
        <3> QED BY Zenon, <3>1, <3>3, <3>4 DEF Elements
    <2> QED BY Zenon, <2>1, <2>2, <2>3
<1>3. ASSUME NoDuplicates(p), NoDuplicates(q), Elements(p) \cap Elements(q) = {}
      PROVE  NoDuplicates(r)
    <2> SUFFICES ASSUME NEW i \in 1 .. Len(r), NEW j \in 1 .. Len(r), r[i] = r[j]
                 PROVE  i = j
        BY Zenon DEF NoDuplicates
    <2>1. CASE i <= Len(p) /\ j <= Len(p)
        <3>1. r[i] = p[i] /\ r[j] = p[j] /\ i \in 1 .. Len(p) /\ j \in 1 .. Len(p)
            BY <1>1, <2>1
        <3> QED BY Zenon, <3>1, <1>3 DEF NoDuplicates
    <2>2. CASE i > Len(p) /\ j > Len(p)
        <3> DEFINE k == i - Len(p)
                   l == j - Len(p)
        <3>1. r[i] = q[k] /\ r[j] = q[l] /\ k \in 1 .. Len(q) /\ l \in 1 .. Len(q)
            BY <1>1, <2>2
        <3>2. k = l
            BY Zenon, <3>1, <1>3 DEF NoDuplicates
        <3> QED BY <3>2, <1>1
    <2>3. CASE i <= Len(p) /\ j > Len(p)
        <3>1. r[i] = p[i] /\ i \in 1 .. Len(p)
            BY <1>1, <2>3
        <3>2. r[j] = q[j - Len(p)] /\ j - Len(p) \in 1 .. Len(q)
            BY <1>1, <2>3
        <3> QED BY Zenon, <3>1, <3>2, <1>3 DEF Elements
    <2>4. CASE i > Len(p) /\ j <= Len(p)
        <3>1. r[j] = p[j] /\ j \in 1 .. Len(p)
            BY <1>1, <2>4
        <3>2. r[i] = q[i - Len(p)] /\ i - Len(p) \in 1 .. Len(q)
            BY <1>1, <2>4
        <3> QED BY ZenonT(60), <3>1, <3>2, <1>3 DEF Elements
    <2> QED BY <2>1, <2>2, <2>3, <2>4, <1>1
<1> QED BY Zenon, <1>1, <1>2, <1>3 DEF r

\* The ascending enumeration of a set lists each of its elements once.
LEMMA AscendingElements ==
    ASSUME NEW S \in SUBSET Steps, NEW q \in Ascending(S)
    PROVE  /\ q \in Seq(Steps)
           /\ Elements(q) = S
           /\ NoDuplicates(q)
<1> DEFINE n == Cardinality(S)
<1>1. n \in Nat /\ IsFiniteSet(S)
    BY Zenon, StepsFinite
<1>2. q \in [1 .. n -> S] /\ \A i, j \in 1 .. n : i < j => q[i] < q[j]
    BY Zenon DEF Ascending
<1>3. S \subseteq Int
    BY DAGAssumption DEF Steps
<1> HIDE DEF n
<1>4. \A i, j \in 1 .. n : q[i] = q[j] => i = j
    <2> SUFFICES ASSUME NEW i \in 1 .. n, NEW j \in 1 .. n, i # j
                 PROVE  q[i] # q[j]
        BY Zenon
    <2>1. q[i] \in Int /\ q[j] \in Int
        BY Zenon, <1>2, <1>3
    <2>2. i < j \/ j < i
        BY <1>1
    <2> QED BY <2>1, <2>2, <1>2
<1>5. q \in Seq(S) /\ Len(q) = n /\ q \in Seq(Steps)
    BY <1>1, <1>2
<1>6. q \in Injection(1 .. n, S)
    BY Zenon, <1>2, <1>4 DEF Injection, IsInjective
<1>7. Cardinality(1 .. n) = Cardinality(S)
    BY <1>1, FS_Interval DEF n
<1>8. q \in Surjection(1 .. n, S)
    BY Zenon, <1>1, <1>6, <1>7, FS_Injection
<1>9. Elements(q) = S
    BY Zenon, <1>2, <1>5, <1>8 DEF Surjection, Elements
<1> QED BY Zenon, <1>4, <1>5, <1>9 DEF NoDuplicates

-----------------------------------------------------------------------------
(* Type correctness *)

\* What propagateDeps does to the queue.
LEMMA PropagateEffect ==
    ASSUME Typed, NEW s \in Steps, NEW queue \in Seq(Steps),
           PropagateDeps(s, queue)
    PROVE  LET new == {d \in Steps : s \in Deps[d] /\ pending[d] = 1} IN
           /\ pending' \in [Steps -> Int]
           /\ \A d \in Steps : pending'[d] = IF s \in Deps[d] THEN pending[d] - 1
                                                              ELSE pending[d]
           /\ readyQueue' \in Seq(Steps)
           /\ Elements(readyQueue') = Elements(queue) \cup new
           /\ NoDuplicates(queue) /\ Elements(queue) \cap new = {}
                => NoDuplicates(readyQueue')
<1> TypeOK
    BY Zenon DEF Typed
<1> DEFINE new == {d \in Steps : s \in Deps[d] /\ pending[d] = 1}
<1>1. {d \in Dependents(s) : pending[d] = 1} = new
    BY Zenon DEF Dependents
<1>2. PICK q \in Ascending(new) : readyQueue' = queue \o q
    BY Zenon, <1>1 DEF PropagateDeps
<1>3. q \in Seq(Steps) /\ Elements(q) = new /\ NoDuplicates(q)
    BY Zenon, AscendingElements
<1>4. pending \in [Steps -> Int]
    BY Zenon DEF TypeOK
<1> HIDE DEF new
<1>5. /\ readyQueue' \in Seq(Steps)
      /\ Elements(readyQueue') = Elements(queue) \cup new
      /\ NoDuplicates(queue) /\ Elements(queue) \cap new = {}
           => NoDuplicates(readyQueue')
    BY <1>2, <1>3, ConcatElements
<1>6. /\ pending' \in [Steps -> Int]
      /\ \A d \in Steps : pending'[d] = IF s \in Deps[d] THEN pending[d] - 1
                                                         ELSE pending[d]
    BY <1>4 DEF PropagateDeps
<1> QED BY Zenon, <1>5, <1>6 DEF new

\* The next step to process is a dispatched one.
LEMMA WantIsStep ==
    ASSUME Typed, phase \in {"await", "process"}
    PROVE  /\ Want \in Steps
           /\ processPos + 1 \in 1 .. Len(dispatchSeq)
<1> TypeOK
    BY Zenon DEF Typed
<1>1. processPos + 1 \in 1 .. Len(dispatchSeq) /\ dispatchSeq \in Seq(Steps)
    BY SeqType DEF TypeOK
<1> QED BY Zenon, <1>1, SeqElement DEF Want

\* What a step's turn may yield.
LEMMA OutcomeType ==
    ASSUME Typed, NEW s \in Steps, NEW o \in ProcessDAGStepResult(s)
    PROVE  /\ o.output \in {"empty", "out", "recovered"}
           /\ o.status \in {"ok", "continue", "abort"}
           /\ \/ prepared[s] = "run" /\ results[s].err # "nil"
              \/ o.status = "abort" /\ prepared[s] = "evalErr"
              \/ o.status = "ok" /\ o.output = "empty" /\ prepared[s] = "skipped"
              \/ /\ o.status = "ok" /\ o.output = results[s].output
                 /\ prepared[s] \notin {"evalErr", "skipped"}
<1> TypeOK
    BY Zenon DEF Typed
<1>1. results[s].output \in {"empty", "out"}
    <2>1. results[s] \in Result \cup {NoResult}
        BY Zenon DEF TypeOK
    <2>2. CASE results[s] \in Result
        BY Zenon, <2>2 DEF Result
    <2>3. CASE results[s] = NoResult
        BY <2>3 DEF NoResult
    <2> QED BY Zenon, <2>1, <2>2, <2>3
<1>2. CASE prepared[s] = "evalErr"
    <2>1. ProcessDAGStepResult(s) = {Outcome("empty", "abort")}
        BY Zenon, <1>2 DEF ProcessDAGStepResult
    <2>2. o = [output |-> "empty", status |-> "abort"]
        BY Zenon, <2>1 DEF Outcome
    <2> QED BY Zenon, <1>2, <2>2
<1>3. CASE prepared[s] = "skipped"
    <2>1. ProcessDAGStepResult(s) = {Outcome("empty", "ok")}
        BY Zenon, <1>3 DEF ProcessDAGStepResult
    <2>2. o = [output |-> "empty", status |-> "ok"]
        BY Zenon, <2>1 DEF Outcome
    <2> QED BY Zenon, <1>3, <2>2
<1>4. CASE prepared[s] = "run" /\ results[s].err # "nil"
    <2>1. o \in ApplyErrorRecovery(s)
        BY Zenon, <1>4 DEF ProcessDAGStepResult
    <2> QED BY <1>1, <1>4, <2>1 DEF ApplyErrorRecovery, Outcome
<1>5. CASE /\ prepared[s] \notin {"evalErr", "skipped"}
           /\ ~(prepared[s] = "run" /\ results[s].err # "nil")
    <2>1. o = Outcome(results[s].output, "ok")
        BY Zenon, <1>5 DEF ProcessDAGStepResult
    <2> QED BY Zenon, <1>1, <1>5, <2>1 DEF Outcome
<1> QED BY Zenon, <1>2, <1>3, <1>4, <1>5

\* The state before the first process is well typed.
LEMMA TypeInit == Init => Typed
<1> SUFFICES ASSUME Init PROVE TypeOK
    BY Zenon DEF Typed
<1>1. pending \in [Steps -> Int]
    BY StepsFinite, DAGAssumption DEF Init, NewPending
<1>2. readyQueue \in Seq(Steps) /\ dispatchSeq \in Seq(Steps) /\ resultChan \in Seq(Result)
    BY DEF Init
<1>3. processPos \in 0 .. Len(dispatchSeq) /\ runs \in 0 .. MaxRuns
    BY DAGAssumption DEF Init
<1> QED BY Zenon, <1>1, <1>2, <1>3 DEF Init, TypeOK, Value, Absent, NoResult

\* Loading the checkpoint and building the queue keeps the types.
LEMMA TypeStart == Typed /\ Start => Typed'
<1> SUFFICES ASSUME TypeOK, Start PROVE TypeOK'
    BY Zenon DEF Typed
<1>1. Restored \in SUBSET Steps
    BY Zenon DEF Restored
<1>2. pending' \in [Steps -> Int]
    BY <1>1, StepsFinite, DAGAssumption DEF Start, NewPending
<1>3. readyQueue' \in Seq(Steps)
    BY Zenon, <1>1, AscendingElements DEF Start, InitiallyReady
<1>4. runs' \in 0 .. MaxRuns
    BY DAGAssumption DEF Start, TypeOK
<1>5. stepResults' \in [Steps -> {"none", "ok", "error"}]
    BY Zenon DEF Start
<1> QED BY Zenon, <1>1, <1>2, <1>3, <1>4, <1>5 DEF Start, TypeOK, fileVars

\* So does dispatching the head of the queue.
LEMMA TypeDispatchReady == Typed /\ DispatchReady => Typed'
<1> SUFFICES ASSUME TypeOK, DispatchReady PROVE TypeOK'
    BY Zenon DEF Typed
<1> DEFINE s == Head(readyQueue)
<1>1. PICK kind \in PrepareDAGStep(s) : DispatchAs(s, kind, Tail(readyQueue))
    BY Zenon DEF DispatchReady
<1>2. s \in Steps /\ Tail(readyQueue) \in Seq(Steps)
    BY Zenon, TailElements DEF TypeOK, DispatchReady
<1>3. kind \in {"run", "skipped", "evalErr"}
    BY Zenon DEF PrepareDAGStep
<1>4. dispatchSeq' \in Seq(Steps) /\ Len(dispatchSeq') = Len(dispatchSeq) + 1
      /\ Len(dispatchSeq) \in Nat
    BY <1>1, <1>2, SeqAppend, SeqType DEF TypeOK, DispatchAs
<1> HIDE DEF s
<1>5. /\ pending' \in [Steps -> Int]
      /\ readyQueue' \in Seq(Steps)
      /\ outputs' \in [Steps -> Value]
      /\ finalized' \in SUBSET Steps
      /\ completedOK' \in SUBSET Steps
      /\ worker' \in [Steps -> {"idle", "queued", "running", "sent"}]
    <2>1. CASE kind = "skipped"
        <3>1. Finalize(s, "empty", Tail(readyQueue)) /\ worker' = worker
            BY Zenon, <1>1, <2>1 DEF DispatchAs
        <3>2. pending' \in [Steps -> Int] /\ readyQueue' \in Seq(Steps)
            BY Zenon, <3>1, <1>2, PropagateEffect DEF Finalize, Typed
        <3> QED BY Zenon, <3>1, <3>2, <1>2 DEF Finalize, TypeOK, Value
    <2>2. CASE kind # "skipped"
        BY Zenon, <1>1, <1>2, <2>2 DEF TypeOK, DispatchAs
    <2> QED BY Zenon, <2>1, <2>2
<1>6. prepared' \in [Steps -> {"none", "run", "skipped", "evalErr"}]
    BY Zenon, <1>1, <1>2, <1>3 DEF TypeOK, DispatchAs
<1>7. processPos' \in 0 .. Len(dispatchSeq')
    <2>1. processPos' = processPos /\ processPos \in 0 .. Len(dispatchSeq)
        BY Zenon DEF TypeOK, DispatchReady
    <2> QED BY <1>4, <2>1
<1>8. DOMAIN input' = Steps
    BY Zenon, <1>1 DEF TypeOK, DispatchAs
<1> QED BY Zenon, <1>4, <1>5, <1>6, <1>7, <1>8 DEF TypeOK, DispatchReady, fileVars

\* So does receiving a result.
LEMMA TypeAwaitReceive == Typed /\ AwaitReceive => Typed'
<1> SUFFICES ASSUME TypeOK, AwaitReceive PROVE TypeOK'
    BY Zenon DEF Typed
<1> DEFINE res == Head(resultChan)
<1>1. res \in Result /\ resultChan' \in Seq(Result)
    BY Zenon, TailElements DEF TypeOK, AwaitReceive
<1>2. res.idx \in Steps /\ res.output \in {"empty", "out"}
    BY Zenon, <1>1 DEF Result
<1>3. results' = [results EXCEPT ![res.idx] = res]
    BY Zenon DEF AwaitReceive
<1>4. \/ Finalize(res.idx, res.output, readyQueue)
      \/ UNCHANGED <<pending, readyQueue, outputs, finalized, completedOK>>
    BY Zenon DEF AwaitReceive
<1> HIDE DEF res
<1>5. results' \in [Steps -> Result \cup {NoResult}]
    BY Zenon, <1>1, <1>2, <1>3 DEF TypeOK
<1>6. /\ pending' \in [Steps -> Int]
      /\ readyQueue' \in Seq(Steps)
      /\ outputs' \in [Steps -> Value]
      /\ finalized' \in SUBSET Steps
      /\ completedOK' \in SUBSET Steps
    <2>1. CASE Finalize(res.idx, res.output, readyQueue)
        <3>1. pending' \in [Steps -> Int] /\ readyQueue' \in Seq(Steps)
            BY Zenon, <2>1, <1>2, PropagateEffect DEF Finalize, TypeOK, Typed
        <3> QED BY Zenon, <2>1, <3>1, <1>2 DEF Finalize, TypeOK, Value
    <2>2. CASE UNCHANGED <<pending, readyQueue, outputs, finalized, completedOK>>
        BY Zenon, <2>2 DEF TypeOK
    <2> QED BY Zenon, <1>4, <2>1, <2>2
<1> QED BY Zenon, <1>1, <1>5, <1>6 DEF TypeOK, AwaitReceive, fileVars

\* So does processing the next step in order.
LEMMA TypeProcessNextResult == Typed /\ ProcessNextResult => Typed'
<1> SUFFICES ASSUME TypeOK, ProcessNextResult PROVE TypeOK'
    BY Zenon DEF Typed
<1> DEFINE s == Want
<1>1. s \in Steps /\ processPos + 1 \in 1 .. Len(dispatchSeq)
    BY Zenon, WantIsStep DEF ProcessNextResult, Typed
<1>2. PICK o \in ProcessDAGStepResult(s) : ApplyOutcome(s, o)
    BY Zenon DEF ProcessNextResult
<1>3. results' = [results EXCEPT ![s] = NoResult]
    BY Zenon DEF ProcessNextResult
<1>4. /\ o.output \in {"empty", "out", "recovered"}
      /\ o.status \in {"ok", "continue", "abort"}
    BY Zenon, <1>1, OutcomeType DEF Typed
<1> HIDE DEF s
<1>5. outputs' \in [Steps -> Value]
    BY Zenon, <1>1, <1>2, <1>4 DEF TypeOK, ApplyOutcome, Value
<1>6. lastOutput' \in Steps \cup {NoStep}
    BY Zenon, <1>1, <1>2 DEF TypeOK, ApplyOutcome
<1>7. stepResults' \in [Steps -> {"none", "ok", "error"}]
    BY Zenon, <1>1, <1>2 DEF TypeOK, ApplyOutcome
<1>8. results' \in [Steps -> Result \cup {NoResult}]
    BY Zenon, <1>1, <1>3 DEF TypeOK
<1>9. /\ pending' \in [Steps -> Int]
      /\ readyQueue' \in Seq(Steps)
      /\ completedOK' \in SUBSET Steps
      /\ firstAbortErr' \in Steps \cup {NoStep}
      /\ saved' \in [Steps -> Value]
      /\ savedData' \in Steps \cup {NoStep}
    <2>1. CASE o.status # "abort" /\ ~Aborted
        <3>1. pending' \in [Steps -> Int] /\ readyQueue' \in Seq(Steps)
            BY Zenon, <1>1, <1>2, <2>1, PropagateEffect
            DEF ApplyOutcome, TypeOK, FirstAbort, Typed
        <3>2. firstAbortErr' \in Steps \cup {NoStep} /\ completedOK' \in SUBSET Steps
            BY <1>1, <1>2, <2>1 DEF ApplyOutcome, TypeOK, FirstAbort
        <3>3. \/ UNCHANGED fileVars
              \/ SaveCheckpointState(completedOK', outputs', lastOutput')
            BY Zenon, <1>2, <2>1 DEF ApplyOutcome, FirstAbort, fileVars
        <3>4. saved' \in [Steps -> Value] /\ savedData' \in Steps \cup {NoStep}
            BY <3>3, <1>5, <1>6 DEF SaveCheckpointState, fileVars, TypeOK, Value
        <3> QED BY Zenon, <3>1, <3>2, <3>4
    <2>2. CASE Aborted
        <3>1. UNCHANGED <<firstAbortErr, readyQueue, pending, completedOK, fileVars>>
            BY Zenon, <1>2, <2>2 DEF ApplyOutcome, FirstAbort
        <3> QED BY Zenon, <3>1 DEF fileVars, TypeOK
    <2>3. CASE FirstAbort(o)
        <3>1. /\ firstAbortErr' = s /\ readyQueue' = <<>>
              /\ UNCHANGED <<pending, completedOK, fileVars>>
            BY Zenon, <1>2, <2>3 DEF ApplyOutcome, FirstAbort
        <3> QED BY <1>1, <3>1 DEF fileVars, TypeOK
    <2> QED BY Zenon, <2>1, <2>2, <2>3 DEF FirstAbort
<1>10. processPos' \in 0 .. Len(dispatchSeq')
    <2>1. processPos' = processPos + 1 /\ dispatchSeq' = dispatchSeq
        BY Zenon DEF ProcessNextResult
    <2> QED BY <1>1, <2>1
<1> QED BY Zenon, <1>5, <1>6, <1>7, <1>8, <1>9, <1>10 DEF TypeOK, ProcessNextResult

\* So does a worker that sends its result.
LEMMA TypeSend ==
    ASSUME Typed, NEW s \in Steps, NEW output \in {"empty", "out"},
           NEW err \in {"nil", "error"}, Send(s, output, err)
    PROVE  Typed'
<1> TypeOK
    BY Zenon DEF Typed
<1> SUFFICES TypeOK'
    BY Zenon DEF Typed
<1>1. [idx |-> s, output |-> output, err |-> err] \in Result
    BY Zenon DEF Result
<1>2. resultChan' \in Seq(Result)
    BY <1>1 DEF Send, TypeOK
<1> QED BY Zenon, <1>2 DEF TypeOK, Send, schedVars, fileVars

\* Every step keeps the types.
LEMMA TypeNext == Typed /\ [Next]_vars => Typed'
<1> SUFFICES ASSUME TypeOK, [Next]_vars PROVE TypeOK'
    BY Zenon DEF Typed
<1>1. CASE Start
    BY Zenon, <1>1, TypeStart DEF Typed
<1>2. CASE DispatchReady
    BY Zenon, <1>2, TypeDispatchReady DEF Typed
<1>3. CASE EndDispatch
    <2>1. Len(dispatchSeq) \in Nat /\ processPos \in 0 .. Len(dispatchSeq)
        BY Zenon, SeqType DEF TypeOK
    <2>2. phase' \in {"done", "await"}
          /\ (phase' = "await" => processPos < Len(dispatchSeq))
        BY <1>3, <2>1 DEF EndDispatch
    <2> QED BY Zenon, <1>3, <2>2 DEF EndDispatch, TypeOK, schedVars, fileVars
<1>4. CASE AwaitSatisfied
    BY Zenon, <1>4 DEF AwaitSatisfied, TypeOK, schedVars, fileVars
<1>5. CASE AwaitReceive
    BY Zenon, <1>5, TypeAwaitReceive DEF Typed
<1>6. CASE ProcessNextResult
    BY Zenon, <1>6, TypeProcessNextResult DEF Typed
<1>7. ASSUME NEW s \in Steps, Worker(s) PROVE TypeOK'
    <2>1. CASE Acquire(s)
        BY Zenon, <2>1 DEF Acquire, TypeOK, schedVars, fileVars
    <2>2. CASE AcquireTimeout(s)
        BY Zenon, <2>2, TypeSend DEF AcquireTimeout, Typed
    <2>3. CASE ExecuteDAGStep(s)
        BY Zenon, <2>3, TypeSend DEF ExecuteDAGStep, Typed
    <2> QED BY Zenon, <1>7, <2>1, <2>2, <2>3 DEF Worker
<1>8. CASE RequestShutdown
    BY Zenon, <1>8 DEF RequestShutdown, TypeOK, schedVars, fileVars
<1>9. CASE Crash
    <2>1. pending' \in [Steps -> Int]
        BY <1>9, StepsFinite, DAGAssumption DEF Crash, NewPending
    <2>2. /\ readyQueue' \in Seq(Steps) /\ dispatchSeq' \in Seq(Steps)
          /\ resultChan' \in Seq(Result) /\ processPos' \in 0 .. Len(dispatchSeq')
        BY <1>9 DEF Crash
    <2> QED BY Zenon, <1>9, <2>1, <2>2
            DEF Crash, TypeOK, fileVars, Value, Absent, NoResult
<1>10. CASE UNCHANGED vars
    BY Zenon, <1>10 DEF vars, TypeOK, schedVars, fileVars
<1> QED BY Zenon, <1>1, <1>2, <1>3, <1>4, <1>5, <1>6, <1>7, <1>8, <1>9, <1>10
        DEF Next, Scheduler, Finished

\* Every variable of the scheduler keeps its type.
THEOREM TypeCorrect == Spec => []TypeOK
<1> QED BY TypeInit, TypeNext, PTL DEF Spec, Typed

-----------------------------------------------------------------------------
(* What each step does to the sets the invariant is about *)

\* A result is about a step.
LEMMA ResultIsStep == \A r \in Result : r # NoResult /\ r.idx \in Steps
BY DAGAssumption DEF Result, NoResult, NoStep, Steps

\* The tables have an entry for every step.
LEMMA Tables ==
    ASSUME Typed
    PROVE  /\ DOMAIN results = Steps /\ DOMAIN outputs = Steps
           /\ finalized \subseteq Steps /\ resumed \subseteq Steps /\ resultChan \in Seq(Result)
BY Zenon DEF Typed, TypeOK

\* What a step that is finalized leaves behind.
LEMMA FinalizeEffect ==
    ASSUME Typed, NEW s \in Steps, NEW output, Finalize(s, output, readyQueue)
    PROVE  /\ finalized' = finalized \cup {s} /\ completedOK' = completedOK \cup {s}
           /\ outputs'[s] = output /\ \A d \in Steps : d # s => outputs'[d] = outputs[d]
           /\ PropagateDeps(s, readyQueue)
BY Zenon, Tables DEF Finalize

\* Processed steps are dispatched ones.
LEMMA ProcessedDispatched ==
    Typed => Processed \subseteq Dispatched /\ Dispatched \subseteq Steps
<1> SUFFICES ASSUME TypeOK
             PROVE  Processed \subseteq Dispatched /\ Dispatched \subseteq Steps
    BY Zenon DEF Typed
<1>1. /\ Len(dispatchSeq) \in Nat /\ processPos \in 0 .. Len(dispatchSeq)
      /\ \A i \in 1 .. Len(dispatchSeq) : dispatchSeq[i] \in Steps
    BY Zenon, SeqType, SeqElement DEF TypeOK
<1>2. \A i \in 1 .. processPos : i \in 1 .. Len(dispatchSeq)
    BY <1>1
<1> QED BY Zenon, <1>1, <1>2 DEF Processed, Dispatched, Elements

\* The sets the invariant is about depend on four variables only.
LEMMA SameSets ==
    UNCHANGED <<dispatchSeq, processPos, resumed, finalized>>
      => /\ Dispatched' = Dispatched
         /\ Processed' = Processed
         /\ Completed' = Completed
BY Zenon DEF Dispatched, Processed, Completed

\* A step that completes is taken off the count of its dependents; the ones
\* that were waiting for it alone, and only they, join the queue.
LEMMA CompleteStep ==
    ASSUME Typed, OrderInv, ~Aborted,
           NEW s \in Steps, s \notin Completed,
           NEW queue \in Seq(Steps), NoDuplicates(queue),
           Elements(queue) \subseteq QueuedSteps,
           PropagateDeps(s, queue),
           Completed' = Completed \cup {s}, resumed' = resumed
    PROVE  /\ \A d \in Steps \ resumed :
                  pending'[d] = Cardinality(Deps[d] \ Completed')
           /\ \A d \in resumed : pending'[d] <= 0
           /\ NoDuplicates(readyQueue')
           /\ QueuedSteps' =
                  Elements(queue) \cup
                  {d \in Steps \ resumed : /\ Deps[d] \subseteq Completed'
                                           /\ s \in Deps[d]}
<1> TypeOK
    BY Zenon DEF Typed
<1> DEFINE new == {d \in Steps : s \in Deps[d] /\ pending[d] = 1}
<1>1. /\ \A d \in Steps : pending'[d] = IF s \in Deps[d] THEN pending[d] - 1
                                                         ELSE pending[d]
      /\ QueuedSteps' = Elements(queue) \cup new
      /\ Elements(queue) \cap new = {} => NoDuplicates(readyQueue')
    BY Zenon, PropagateEffect DEF QueuedSteps, Typed
<1>2. \A d \in Steps : Deps[d] \in SUBSET Steps /\ pending[d] \in Int
    BY Zenon, DAGAssumption DEF TypeOK
<1>3. resumed \in SUBSET Steps
    BY Zenon DEF TypeOK
<1>4. ASSUME NEW d \in Steps \ resumed
      PROVE  /\ pending'[d] = Cardinality(Deps[d] \ Completed')
             /\ d \in new <=> Deps[d] \subseteq Completed' /\ s \in Deps[d]
    <2>1. pending[d] = Cardinality(Deps[d] \ Completed)
        BY Zenon, <1>4 DEF OrderInv
    <2>2. CASE s \notin Deps[d]
        <3>1. Deps[d] \ Completed' = Deps[d] \ Completed
            BY Zenon, <2>2
        <3> QED BY Zenon, <1>1, <2>1, <2>2, <3>1
    <2>3. CASE s \in Deps[d]
        <3> DEFINE W == Deps[d] \ Completed
        <3>1. Deps[d] \ Completed' = W \ {s} /\ s \in W
            BY Zenon, <2>3
        <3>2. IsFiniteSet(W) /\ IsFiniteSet(W \ {s})
            BY Zenon, <1>2, StepsFinite
        <3>3. Cardinality(W \ {s}) = Cardinality(W) - 1
            BY Zenon, <3>1, <3>2, FS_RemoveElement
        <3>4. Cardinality(W) \in Nat /\ Cardinality(W \ {s}) \in Nat
            BY Zenon, <1>2, StepsFinite
        <3>5. Cardinality(W \ {s}) = 0 <=> W \ {s} = {}
            BY Zenon, <3>2, FS_EmptySet
        <3>6. Deps[d] \subseteq Completed' <=> W \ {s} = {}
            BY Zenon, <3>1
        <3> HIDE DEF W
        <3>7. pending[d] = 1 <=> W \ {s} = {}
            BY <2>1, <3>3, <3>4, <3>5 DEF W
        <3>8. pending'[d] = Cardinality(W \ {s})
            BY Zenon, <1>1, <2>1, <2>3, <3>3 DEF W
        <3> QED BY Zenon, <2>3, <3>1, <3>6, <3>7, <3>8
    <2> QED BY Zenon, <2>2, <2>3
<1>5. ASSUME NEW d \in resumed PROVE pending'[d] <= 0 /\ d \notin new
    <2>1. pending[d] <= 0 /\ pending[d] \in Int /\ d \in Steps
        BY Zenon, <1>2, <1>3 DEF OrderInv
    <2> QED BY <1>1, <2>1
<1>6. Elements(queue) \cap new = {}
    <2> SUFFICES ASSUME NEW d \in Elements(queue) PROVE s \notin Deps[d]
        BY Zenon
    <2>1. Deps[d] \subseteq Completed
        BY Zenon DEF OrderInv
    <2> QED BY Zenon, <2>1
<1>7. new = {d \in Steps \ resumed : Deps[d] \subseteq Completed' /\ s \in Deps[d]}
    BY Zenon, <1>3, <1>4, <1>5
<1> QED BY Zenon, <1>1, <1>4, <1>5, <1>6, <1>7

\* The head of the queue is dispatched.
LEMMA DispatchEffect ==
    ASSUME Typed, FlowInv, OrderInv, readyQueue # <<>>,
           NEW s, s = Head(readyQueue), NEW kind \in PrepareDAGStep(s),
           DispatchAs(s, kind, Tail(readyQueue)),
           processPos' = processPos, resumed' = resumed
    PROVE  /\ s \in Steps /\ s \in QueuedSteps
           /\ kind \in {"run", "skipped", "evalErr"}
           /\ s \notin Dispatched \cup Completed
           /\ Dispatched' = Dispatched \cup {s}
           /\ Processed' = Processed
           /\ NoDuplicates(dispatchSeq')
           /\ QueuedSteps = Elements(Tail(readyQueue)) \cup {s}
           /\ s \notin Elements(Tail(readyQueue))
           /\ NoDuplicates(Tail(readyQueue))
           /\ Tail(readyQueue) \in Seq(Steps)
           /\ kind = "skipped" => Completed' = Completed \cup {s}
           /\ kind # "skipped" => Completed' = Completed
<1> TypeOK
    BY Zenon DEF Typed
<1>1. /\ s \in Steps
      /\ Tail(readyQueue) \in Seq(Steps)
      /\ QueuedSteps = Elements(Tail(readyQueue)) \cup {s}
      /\ NoDuplicates(Tail(readyQueue))
      /\ s \notin Elements(Tail(readyQueue))
    BY Zenon, TailElements DEF TypeOK, OrderInv, QueuedSteps
<1>2. s \notin Dispatched /\ s \notin resumed
    BY Zenon, <1>1 DEF OrderInv
<1>3. s \notin Completed
    BY Zenon, <1>2, ProcessedDispatched DEF Completed, FlowInv, Typed
<1>4. dispatchSeq' = Append(dispatchSeq, s) /\ dispatchSeq \in Seq(Steps)
    BY Zenon DEF DispatchAs, TypeOK
<1>5. Dispatched' = Dispatched \cup {s} /\ NoDuplicates(dispatchSeq')
    BY <1>1, <1>2, <1>4, AppendElements DEF FlowInv, Dispatched
<1>6. Processed' = Processed
    <2>1. /\ processPos \in 0 .. Len(dispatchSeq) /\ Len(dispatchSeq) \in Nat
          /\ \A i \in 1 .. Len(dispatchSeq) : dispatchSeq'[i] = dispatchSeq[i]
        BY <1>1, <1>4, SeqAppend, SeqType DEF TypeOK
    <2>2. \A i \in 1 .. processPos : dispatchSeq'[i] = dispatchSeq[i]
        BY <2>1
    <2> QED BY Zenon, <2>2 DEF Processed
<1>7. kind = "skipped" => finalized' = finalized \cup {s}
    BY Zenon DEF DispatchAs, Finalize
<1>8. kind # "skipped" => finalized' = finalized
    BY Zenon DEF DispatchAs
<1>9. kind \in {"run", "skipped", "evalErr"}
    BY Zenon DEF PrepareDAGStep
<1> QED BY Zenon, <1>1, <1>2, <1>3, <1>5, <1>6, <1>7, <1>8, <1>9 DEF Completed

\* Dispatch keeps the ready queue exact, skipped steps included.
LEMMA DispatchOrder == Good /\ DispatchReady => OrderInv'
<1> SUFFICES ASSUME IInv, DispatchReady PROVE OrderInv'
    BY Zenon DEF Good
<1>1. PICK s : s = Head(readyQueue)
    BY Zenon
<1>2. PICK kind \in PrepareDAGStep(s) : DispatchAs(s, kind, Tail(readyQueue))
    BY Zenon, <1>1 DEF DispatchReady
<1>3. /\ readyQueue # <<>> /\ processPos' = processPos /\ resumed' = resumed
      /\ ~Aborted /\ firstAbortErr' = firstAbortErr /\ phase' # "down" /\ phase # "down"
    BY Zenon DEF DispatchReady
<1> DEFINE rest == Tail(readyQueue)
<1>4. /\ s \in Steps /\ s \in QueuedSteps
      /\ s \notin Dispatched \cup Completed
      /\ Dispatched' = Dispatched \cup {s}
      /\ QueuedSteps = Elements(rest) \cup {s}
      /\ s \notin Elements(rest)
      /\ NoDuplicates(rest) /\ rest \in Seq(Steps)
      /\ kind = "skipped" => Completed' = Completed \cup {s}
      /\ kind # "skipped" => Completed' = Completed
    BY Zenon, <1>1, <1>2, <1>3, DispatchEffect DEF IInv, Typed
<1>5. /\ TypeOK /\ OrderInv /\ resumed \subseteq Steps /\ Dispatched \subseteq Steps
      /\ resumed \subseteq Completed
    BY Zenon, ProcessedDispatched, Tables DEF IInv, Typed, Completed
<1> HIDE DEF rest
<1>6. CASE kind = "skipped"
    <2>1. PropagateDeps(s, rest)
        BY Zenon, <1>2, <1>6 DEF DispatchAs, Finalize, rest
    <2> DEFINE new == {d \in Steps \ resumed : Deps[d] \subseteq Completed'
                                               /\ s \in Deps[d]}
    <2>2. /\ \A d \in Steps \ resumed :
                  pending'[d] = Cardinality(Deps[d] \ Completed')
          /\ \A d \in resumed : pending'[d] <= 0
          /\ NoDuplicates(readyQueue')
          /\ QueuedSteps' = Elements(rest) \cup new
        BY Zenon, <1>3, <1>4, <1>5, <1>6, <2>1, CompleteStep DEF Typed
    <2>3. \A d \in new : d \notin QueuedSteps \cup Dispatched
        BY Zenon, <1>4, <1>5 DEF OrderInv
    <2>4. QueuedSteps' \cap (Dispatched' \cup resumed') = {}
        BY <1>3, <1>4, <1>5, <2>2, <2>3 DEF OrderInv
    <2>5. \A d \in QueuedSteps' \cup Dispatched' : Deps[d] \subseteq Completed'
        BY Zenon, <1>4, <1>5, <1>6, <2>2 DEF OrderInv
    <2>6. ASSUME NEW d \in Steps \ resumed, Deps[d] \subseteq Completed'
          PROVE  d \in QueuedSteps' \cup Dispatched'
        <3>1. CASE s \in Deps[d]
            BY Zenon, <2>2, <2>6, <3>1
        <3>2. CASE s \notin Deps[d]
            <4>1. Deps[d] \subseteq Completed
                BY Zenon, <1>4, <1>6, <2>6, <3>2
            <4>2. d \in QueuedSteps \cup Dispatched
                BY Zenon, <1>3, <1>5, <2>6, <4>1 DEF OrderInv
            <4> QED BY Zenon, <1>4, <2>2, <4>2
        <3> QED BY Zenon, <3>1, <3>2
    <2> QED BY Zenon, <1>3, <2>2, <2>4, <2>5, <2>6 DEF OrderInv, Aborted
<1>7. CASE kind # "skipped"
    <2>1. readyQueue' = rest /\ pending' = pending
        BY Zenon, <1>2, <1>7 DEF DispatchAs, rest
    <2>2. QueuedSteps' = Elements(rest)
        BY Zenon, <2>1 DEF QueuedSteps
    <2> QED BY Zenon, <1>3, <1>4, <1>5, <1>7, <2>1, <2>2 DEF OrderInv, Aborted
<1> QED BY Zenon, <1>6, <1>7

\* Dispatch keeps the record of steps and results consistent.
LEMMA DispatchFlow == Good /\ DispatchReady => FlowInv' /\ ResultInv'
<1> SUFFICES ASSUME IInv, DispatchReady PROVE FlowInv' /\ ResultInv'
    BY Zenon DEF Good
<1>1. PICK s : s = Head(readyQueue)
    BY Zenon
<1>2. PICK kind \in PrepareDAGStep(s) : DispatchAs(s, kind, Tail(readyQueue))
    BY Zenon, <1>1 DEF DispatchReady
<1>3. /\ readyQueue # <<>> /\ phase' = "dispatch"
      /\ UNCHANGED <<processPos, results, resumed, resultChan>>
    BY Zenon DEF DispatchReady
<1>4. /\ s \in Steps
      /\ kind \in {"run", "skipped", "evalErr"}
      /\ s \notin Dispatched \cup Completed
      /\ Dispatched' = Dispatched \cup {s}
      /\ Processed' = Processed
      /\ NoDuplicates(dispatchSeq')
    BY Zenon, <1>1, <1>2, <1>3, DispatchEffect DEF IInv, Typed
<1>5. /\ TypeOK /\ FlowInv /\ ResultInv
      /\ Processed \subseteq Dispatched /\ Dispatched \subseteq Steps
    BY Zenon, ProcessedDispatched DEF IInv, Typed
<1>6. s \notin resumed /\ s \notin finalized /\ s \notin Processed
    BY Zenon, <1>4 DEF Completed
<1>7. /\ \A d \in Steps : d # s => prepared'[d] = prepared[d]
      /\ prepared'[s] = kind
    BY Zenon, <1>2, <1>4, <1>5 DEF DispatchAs, TypeOK
<1>8. worker[s] = "idle" /\ results[s] = NoResult
    BY Zenon, <1>4, <1>5 DEF FlowInv, ResultInv, InBuffer, TypeOK
<1>9. /\ \A d \in Steps : d # s => worker'[d] = worker[d]
      /\ kind = "run" => worker'[s] = "queued"
      /\ kind # "run" => worker'[s] = "idle"
    BY Zenon, <1>2, <1>4, <1>5, <1>8 DEF DispatchAs, TypeOK
<1>10. /\ kind = "skipped" => finalized' = finalized \cup {s}
       /\ kind # "skipped" => finalized' = finalized
       /\ completedOK' \subseteq completedOK \cup (finalized' \ finalized)
       /\ \A d \in Steps : d # s => outputs'[d] = outputs[d]
       /\ kind = "skipped" => outputs'[s] = "empty"
    BY Zenon, <1>2, <1>4, <1>5, <1>6 DEF DispatchAs, Finalize, TypeOK
<1>11. \A i \in 1 .. Len(resultChan) :
           resultChan[i].idx \in Steps /\ resultChan[i].idx # s
    <2> SUFFICES ASSUME NEW i \in 1 .. Len(resultChan)
                 PROVE  resultChan[i].idx \in Steps /\ resultChan[i].idx # s
        BY Zenon
    <2>1. resultChan[i] \in Result
        BY Zenon, <1>5, SeqElement DEF TypeOK
    <2> QED BY Zenon, <1>5, <1>8, <2>1 DEF ResultInv, InChannel, Result
<1>12. FlowInv'
    BY <1>3, <1>4, <1>5, <1>6, <1>7, <1>9, <1>10 DEF FlowInv
<1>13. ResultInv'
    <2>1. NotSent'
        BY <1>3, <1>4, <1>5, <1>6, <1>8, <1>9, <1>10 DEF ResultInv, NotSent
    <2>2. InChannel' /\ OncePerChannel'
        BY <1>3, <1>4, <1>5, <1>9, <1>10, <1>11
        DEF ResultInv, InChannel, OncePerChannel
    <2>3. InBuffer'
        BY Zenon, <1>3, <1>4, <1>5, <1>8, <1>9, <1>10 DEF ResultInv, InBuffer
    <2>4. AwaitingTurn'
        <3> SUFFICES ASSUME NEW d \in finalized' \ Processed'
                     PROVE  \/ prepared'[d] = "skipped" /\ outputs'[d] = "empty"
                            \/ /\ prepared'[d] = "run"
                               /\ results'[d] # NoResult
                               /\ results'[d].err = "nil"
                               /\ outputs'[d] = results'[d].output
            BY Zenon DEF AwaitingTurn
        <3>1. CASE d = s
            BY Zenon, <1>6, <1>7, <1>10, <3>1
        <3>2. CASE d # s
            <4>1. d \in finalized \ Processed /\ d \in Steps
                BY Zenon, <1>4, <1>5, <1>10, <3>2, Tables DEF Typed
            <4> QED BY Zenon, <1>3, <1>5, <1>7, <1>10, <3>2, <4>1 DEF ResultInv, AwaitingTurn
        <3> QED BY Zenon, <3>1, <3>2
    <2> QED BY Zenon, <2>1, <2>2, <2>3, <2>4 DEF ResultInv
<1> QED BY Zenon, <1>12, <1>13

\* The result at the head of the channel is that of a step that is neither
\* completed nor buffered.
LEMMA ReceiveEffect ==
    ASSUME Typed, FlowInv, ResultInv, AwaitReceive,
           NEW res, res = Head(resultChan)
    PROVE  /\ res \in Result /\ res # NoResult
           /\ res.idx \in Steps /\ res.idx \in Dispatched
           /\ prepared[res.idx] = "run" /\ worker[res.idx] = "sent"
           /\ results[res.idx] = NoResult
           /\ res.idx \notin Completed
           /\ resultChan' \in Seq(Result)
           /\ \A i \in 1 .. Len(resultChan') :
                  /\ i + 1 \in 1 .. Len(resultChan)
                  /\ resultChan'[i] = resultChan[i + 1]
                  /\ resultChan'[i].idx \in Steps
                  /\ resultChan'[i].idx # res.idx
           /\ \/ /\ res.err = "nil" /\ ~Aborted
                 /\ Finalize(res.idx, res.output, readyQueue)
                 /\ Completed' = Completed \cup {res.idx}
              \/ /\ ~(res.err = "nil" /\ ~Aborted)
                 /\ UNCHANGED <<pending, readyQueue, outputs, finalized, completedOK>>
                 /\ Completed' = Completed
           /\ Dispatched' = Dispatched /\ Processed' = Processed
<1> TypeOK
    BY Zenon DEF Typed
<1>1. /\ resultChan \in Seq(Result) /\ resultChan # <<>>
      /\ resultChan' = Tail(resultChan)
    BY Zenon, Tables DEF AwaitReceive
<1>2. /\ res \in Result /\ res = resultChan[1]
      /\ Len(resultChan) \in Nat \ {0}
      /\ resultChan' \in Seq(Result)
      /\ Len(resultChan') = Len(resultChan) - 1
      /\ \A i \in 1 .. Len(resultChan') : resultChan'[i] = resultChan[i + 1]
    BY <1>1, SeqTail, TailElements
<1>3. res # NoResult /\ res.idx \in Steps
    BY Zenon, <1>2, ResultIsStep
<1>4. 1 \in 1 .. Len(resultChan)
    BY <1>2
<1>5. /\ worker[res.idx] = "sent"
      /\ results[res.idx] = NoResult
      /\ res.idx \notin Processed \cup finalized
    BY Zenon, <1>2, <1>4 DEF ResultInv, InChannel
<1>6. prepared[res.idx] = "run" /\ res.idx \in Dispatched
    BY Zenon, <1>3, <1>5 DEF FlowInv
<1>7. res.idx \notin Completed
    BY Zenon, <1>5, <1>6 DEF FlowInv, Completed
<1>8. ASSUME NEW i \in 1 .. Len(resultChan')
      PROVE  /\ i + 1 \in 1 .. Len(resultChan)
             /\ resultChan'[i] = resultChan[i + 1]
             /\ resultChan'[i].idx \in Steps
             /\ resultChan'[i].idx # res.idx
    <2>1. i + 1 \in 1 .. Len(resultChan) /\ i + 1 # 1
        BY <1>2
    <2>2. resultChan'[i] = resultChan[i + 1] /\ resultChan'[i] \in Result
        BY Zenon, <1>2, SeqElement
    <2>3. resultChan[i + 1].idx # resultChan[1].idx
        BY Zenon, <1>4, <2>1 DEF ResultInv, OncePerChannel
    <2> QED BY Zenon, <1>2, <2>1, <2>2, <2>3 DEF Result
<1>9. /\ UNCHANGED <<dispatchSeq, processPos, resumed>>
      /\ \/ /\ res.err = "nil" /\ ~Aborted
            /\ Finalize(res.idx, res.output, readyQueue)
         \/ /\ ~(res.err = "nil" /\ ~Aborted)
            /\ UNCHANGED <<pending, readyQueue, outputs, finalized, completedOK>>
    BY Zenon DEF AwaitReceive
<1>10. Dispatched' = Dispatched /\ Processed' = Processed
    BY Zenon, <1>9 DEF Dispatched, Processed
<1>11. /\ Finalize(res.idx, res.output, readyQueue) => finalized' = finalized \cup {res.idx}
       /\ finalized' = finalized \cup {res.idx} => Completed' = Completed \cup {res.idx}
       /\ finalized' = finalized => Completed' = Completed
    BY Zenon, <1>9, <1>10 DEF Finalize, Completed
<1> QED BY Zenon, <1>2, <1>3, <1>5, <1>6, <1>7, <1>8, <1>9, <1>10, <1>11

\* When a step completes, OrderInv carries over: used on arrival and in turn.
LEMMA CompletionOrder ==
    ASSUME Typed, OrderInv, ~Aborted, ~Aborted', NEW s \in Steps,
           s \notin Completed, Completed' = Completed \cup {s},
           PropagateDeps(s, readyQueue),
           Dispatched' = Dispatched, resumed' = resumed,
           phase # "down"
    PROVE  OrderInv'
<1> TypeOK
    BY Zenon DEF Typed
<1> DEFINE new == {d \in Steps \ resumed : Deps[d] \subseteq Completed'
                                           /\ s \in Deps[d]}
<1>1. readyQueue \in Seq(Steps) /\ NoDuplicates(readyQueue)
    BY Zenon DEF TypeOK, OrderInv
<1>2. /\ \A d \in Steps \ resumed :
              pending'[d] = Cardinality(Deps[d] \ Completed')
      /\ \A d \in resumed : pending'[d] <= 0
      /\ NoDuplicates(readyQueue')
      /\ QueuedSteps' = QueuedSteps \cup new
    BY ZenonT(60), <1>1, CompleteStep DEF QueuedSteps, Typed
<1>3. \A d \in new : d \notin QueuedSteps \cup Dispatched
    BY Zenon DEF OrderInv
<1>4. QueuedSteps' \cap (Dispatched' \cup resumed') = {}
    BY Zenon, <1>2, <1>3 DEF OrderInv
<1>5. \A d \in QueuedSteps' \cup Dispatched' : Deps[d] \subseteq Completed'
    BY Zenon, <1>2 DEF OrderInv
<1>6. ASSUME NEW d \in Steps \ resumed, Deps[d] \subseteq Completed'
      PROVE  d \in QueuedSteps' \cup Dispatched'
    <2>1. CASE s \in Deps[d]
        BY Zenon, <1>2, <1>6, <2>1
    <2>2. CASE s \notin Deps[d]
        <3>1. Deps[d] \subseteq Completed
            BY Zenon, <1>6, <2>2
        <3>2. d \in QueuedSteps \cup Dispatched
            BY Zenon, <1>6, <3>1 DEF OrderInv
        <3> QED BY Zenon, <1>2, <3>2
    <2> QED BY Zenon, <2>1, <2>2
<1> QED BY Zenon, <1>2, <1>4, <1>5, <1>6 DEF OrderInv

\* A result that arrives keeps the first three layers.
LEMMA ReceiveInv == Good /\ AwaitReceive => FlowInv' /\ ResultInv' /\ OrderInv'
<1> SUFFICES ASSUME IInv, AwaitReceive PROVE FlowInv' /\ ResultInv' /\ OrderInv'
    BY Zenon DEF Good
<1>1. PICK res : res = Head(resultChan)
    BY Zenon
<1>2. PICK s : s = res.idx
    BY Zenon
<1>3. /\ Typed /\ FlowInv /\ ResultInv /\ OrderInv
      /\ Processed \subseteq Dispatched /\ Dispatched \subseteq Steps
    BY Zenon, ProcessedDispatched DEF IInv, Typed
<1>4. /\ res # NoResult
      /\ s \in Steps /\ s \in Dispatched
      /\ prepared[s] = "run" /\ worker[s] = "sent"
      /\ results[s] = NoResult
      /\ s \notin Completed
      /\ Dispatched' = Dispatched /\ Processed' = Processed
    BY Zenon, <1>1, <1>2, <1>3, ReceiveEffect
<1>5. \A i \in 1 .. Len(resultChan') :
          /\ i + 1 \in 1 .. Len(resultChan)
          /\ resultChan'[i] = resultChan[i + 1]
          /\ resultChan'[i].idx \in Steps
          /\ resultChan'[i].idx # s
    BY Zenon, <1>1, <1>2, <1>3, ReceiveEffect
<1>6. \/ /\ res.err = "nil" /\ ~Aborted
         /\ Finalize(s, res.output, readyQueue)
         /\ Completed' = Completed \cup {s}
      \/ /\ UNCHANGED <<pending, readyQueue, outputs, finalized, completedOK>>
         /\ Completed' = Completed
    BY Zenon, <1>1, <1>2, <1>3, ReceiveEffect
<1>7. /\ phase' = "dispatch" /\ phase = "await"
      /\ results' = [results EXCEPT ![s] = res]
      /\ UNCHANGED <<dispatchSeq, processPos, prepared, resumed, worker, firstAbortErr>>
    BY Zenon, <1>1, <1>2 DEF AwaitReceive
<1>8. results'[s] = res /\ \A d \in Steps : d # s => results'[d] = results[d]
    BY Zenon, <1>3, <1>4, <1>7, Tables
<1>9. s \notin finalized /\ s \notin Processed
    BY Zenon, <1>4 DEF Completed
<1>10. \/ /\ res.err = "nil"
          /\ finalized' = finalized \cup {s}
          /\ completedOK' = completedOK \cup {s}
          /\ outputs'[s] = res.output
          /\ \A d \in Steps : d # s => outputs'[d] = outputs[d]
       \/ /\ finalized' = finalized /\ completedOK' = completedOK
          /\ outputs' = outputs
    BY Zenon, <1>3, <1>4, <1>6, FinalizeEffect
<1>11. /\ finalized' \subseteq finalized \cup {s}
       /\ finalized \subseteq finalized' /\ completedOK' \subseteq completedOK \cup finalized'
    BY Zenon, <1>10
<1>12. FlowInv'
    BY Zenon, <1>3, <1>4, <1>7, <1>11 DEF FlowInv
<1>13. NotSent'
    BY Zenon, <1>3, <1>4, <1>7, <1>8, <1>11 DEF ResultInv, NotSent
<1>14. InChannel'
    <2> SUFFICES ASSUME NEW i \in 1 .. Len(resultChan')
                 PROVE  /\ worker'[resultChan'[i].idx] = "sent"
                        /\ results'[resultChan'[i].idx] = NoResult
                        /\ resultChan'[i].idx \notin Processed' \cup finalized'
        BY Zenon DEF InChannel
    <2>1. i + 1 \in 1 .. Len(resultChan) /\ resultChan'[i] = resultChan[i + 1]
        BY Zenon, <1>5
    <2>2. /\ worker[resultChan'[i].idx] = "sent" /\ results[resultChan'[i].idx] = NoResult
          /\ resultChan'[i].idx \notin Processed \cup finalized
        BY Zenon, <1>3, <2>1 DEF ResultInv, InChannel
    <2> QED BY Zenon, <1>4, <1>5, <1>7, <1>8, <1>11, <2>2
<1>15. OncePerChannel'
    <2> SUFFICES ASSUME NEW i \in 1 .. Len(resultChan'), NEW j \in 1 .. Len(resultChan'),
                        resultChan'[i].idx = resultChan'[j].idx
                 PROVE  i = j
        BY Zenon DEF OncePerChannel
    <2>1. i + 1 = j + 1
        BY Zenon, <1>3, <1>5 DEF ResultInv, OncePerChannel
    <2> QED BY <2>1
<1>16. InBuffer'
    <2> SUFFICES ASSUME NEW d \in Steps, results'[d] # NoResult
                 PROVE  worker'[d] = "sent" /\ d \notin Processed' /\ (results'[d].err # "nil" => d \notin finalized')
        BY Zenon DEF InBuffer
    <2>1. CASE d = s
        BY Zenon, <1>4, <1>7, <1>8, <1>9, <1>10, <2>1
    <2>2. CASE d # s
        BY Zenon, <1>3, <1>4, <1>7, <1>8, <1>11, <2>2 DEF ResultInv, InBuffer
    <2> QED BY Zenon, <2>1, <2>2
<1>17. AwaitingTurn'
    <2> SUFFICES ASSUME NEW d \in finalized' \ Processed'
                 PROVE  \/ prepared'[d] = "skipped" /\ outputs'[d] = "empty"
                        \/ /\ prepared'[d] = "run"
                           /\ results'[d] # NoResult
                           /\ results'[d].err = "nil"
                           /\ outputs'[d] = results'[d].output
        BY Zenon DEF AwaitingTurn
    <2>1. CASE d = s
        <3>1. res.err = "nil" /\ outputs'[s] = res.output
            BY Zenon, <1>9, <1>10, <2>1
        <3> QED BY Zenon, <1>4, <1>7, <1>8, <2>1, <3>1
    <2>2. CASE d # s
        <3>1. d \in finalized \ Processed /\ d \in Steps
            BY Zenon, <1>3, <1>4, <1>11, <2>2, Tables
        <3>2. outputs'[d] = outputs[d] /\ results'[d] = results[d] /\ prepared'[d] = prepared[d]
            BY Zenon, <1>7, <1>8, <1>10, <2>2, <3>1
        <3> QED BY Zenon, <1>3, <3>1, <3>2 DEF ResultInv, AwaitingTurn
    <2> QED BY Zenon, <2>1, <2>2
<1>18. OrderInv'
    <2>1. CASE /\ ~Aborted /\ Finalize(s, res.output, readyQueue)
               /\ Completed' = Completed \cup {s}
        <3>1. PropagateDeps(s, readyQueue)
            BY Zenon, <1>3, <1>4, <2>1, FinalizeEffect
        <3>2. ~Aborted' /\ phase # "down"
            BY Zenon, <1>7, <2>1 DEF Aborted
        <3> QED BY Zenon, <1>3, <1>4, <1>7, <2>1, <3>1, <3>2, CompletionOrder
    <2>2. CASE /\ UNCHANGED <<pending, readyQueue>>
               /\ Completed' = Completed
        <3>1. QueuedSteps' = QueuedSteps /\ Aborted' = Aborted /\ (phase # "down" /\ phase' # "down")
            BY Zenon, <1>7, <2>2 DEF QueuedSteps, Aborted
        <3> QED BY Zenon, <1>3, <1>4, <1>7, <2>2, <3>1 DEF OrderInv
    <2> QED BY Zenon, <1>6, <2>1, <2>2
<1> QED BY Zenon, <1>12, <1>13, <1>14, <1>15, <1>16, <1>17, <1>18 DEF ResultInv

\* The step whose turn it is moves to the processed ones.
LEMMA ProcessEffect ==
    ASSUME Typed, FlowInv, ProcessNextResult, NEW s, s = Want
    PROVE  /\ s \in Steps /\ s \in Dispatched /\ s \notin Processed
           /\ s \notin resumed
           /\ Processed' = Processed \cup {s}
           /\ Dispatched' = Dispatched
           /\ Completed' = Completed \cup {s}
           /\ s \in Completed <=> s \in finalized
<1> TypeOK
    BY Zenon DEF Typed
<1> DEFINE k == processPos + 1
<1>1. s \in Steps /\ k \in 1 .. Len(dispatchSeq) /\ s = dispatchSeq[k]
    BY Zenon, WantIsStep DEF ProcessNextResult, Want, Typed
<1>2. /\ processPos \in Nat /\ processPos' = k
      /\ UNCHANGED <<dispatchSeq, finalized, resumed>>
    <2>1. processPos \in 0 .. Len(dispatchSeq)
        BY Zenon DEF TypeOK
    <2> QED BY <2>1 DEF ProcessNextResult
<1>3. \A i \in 1 .. processPos : i \in 1 .. Len(dispatchSeq) /\ i # k
    BY <1>1, <1>2
<1>4. s \notin Processed
    BY Zenon, <1>1, <1>3 DEF Processed, FlowInv, NoDuplicates
<1>5. 1 .. k = (1 .. processPos) \cup {k}
    BY <1>2
<1> HIDE DEF k
<1>6. Processed' = Processed \cup {s}
    BY Zenon, <1>1, <1>2, <1>5 DEF Processed
<1>7. s \in Dispatched /\ Dispatched' = Dispatched
    BY Zenon, <1>1, <1>2 DEF Dispatched, Elements
<1> QED BY Zenon, <1>1, <1>2, <1>4, <1>6, <1>7 DEF Completed, FlowInv

\* So does a step that is processed in its turn.
LEMMA ProcessInv ==
    Good /\ ProcessNextResult => FlowInv' /\ ResultInv' /\ OrderInv'
<1> SUFFICES ASSUME IInv, ProcessNextResult
             PROVE  FlowInv' /\ ResultInv' /\ OrderInv'
    BY Zenon DEF Good
<1>1. PICK s : s = Want
    BY Zenon
<1>2. PICK o \in ProcessDAGStepResult(s) : ApplyOutcome(s, o)
    BY Zenon, <1>1 DEF ProcessNextResult
<1>3. /\ TypeOK /\ FlowInv /\ ResultInv /\ OrderInv
      /\ Processed \subseteq Dispatched /\ Dispatched \subseteq Steps
    BY Zenon, ProcessedDispatched DEF IInv, Typed
<1>4. /\ s \in Steps /\ s \in Dispatched /\ s \notin Processed
      /\ s \notin resumed
      /\ Processed' = Processed \cup {s}
      /\ Dispatched' = Dispatched
      /\ Completed' = Completed \cup {s}
      /\ s \in Completed <=> s \in finalized
    BY Zenon, <1>1, <1>3, ProcessEffect DEF Typed
<1>5. /\ phase = "process" /\ phase' = "dispatch"
      /\ results' = [results EXCEPT ![s] = NoResult]
      /\ UNCHANGED <<dispatchSeq, prepared, finalized, resumed, worker, resultChan>>
    BY Zenon, <1>1 DEF ProcessNextResult
<1>6. prepared[s] # "run" \/ results[s] # NoResult
    BY Zenon, <1>1, <1>3, <1>5 DEF FlowInv, NeedsNoResult
<1>7. results'[s] = NoResult /\ \A d \in Steps : d # s => results'[d] = results[d]
    BY Zenon, <1>3, <1>4, <1>5, Tables DEF Typed
<1>8. \A d \in Steps : d # s => outputs'[d] = outputs[d]
    BY Zenon, <1>2, <1>3, <1>4 DEF ApplyOutcome, TypeOK
<1>9. completedOK' \subseteq completedOK \cup {s}
    BY Zenon, <1>2 DEF ApplyOutcome
<1>10. FlowInv'
    BY Zenon, <1>3, <1>4, <1>5, <1>9 DEF FlowInv
<1>11. NotSent'
    BY Zenon, <1>3, <1>4, <1>5, <1>6, <1>7 DEF ResultInv, NotSent, FlowInv
<1>12. InChannel' /\ OncePerChannel'
    <2>1. ASSUME NEW i \in 1 .. Len(resultChan)
          PROVE  resultChan[i].idx \in Steps /\ resultChan[i].idx # s
        <3>1. resultChan[i] \in Result
            BY Zenon, <1>3, SeqElement, Tables DEF Typed
        <3>2. resultChan[i].idx \in Steps
            BY Zenon, <3>1 DEF Result
        <3> QED BY Zenon, <1>3, <1>6, <3>2 DEF ResultInv, InChannel, FlowInv
    <2> QED BY Zenon, <1>3, <1>4, <1>5, <1>7, <2>1 DEF ResultInv, InChannel, OncePerChannel
<1>13. InBuffer'
    BY Zenon, <1>3, <1>4, <1>5, <1>7 DEF ResultInv, InBuffer
<1>14. AwaitingTurn'
    <2> SUFFICES ASSUME NEW d \in finalized' \ Processed'
                 PROVE  \/ prepared'[d] = "skipped" /\ outputs'[d] = "empty"
                        \/ /\ prepared'[d] = "run"
                           /\ results'[d] # NoResult
                           /\ results'[d].err = "nil"
                           /\ outputs'[d] = results'[d].output
        BY Zenon DEF AwaitingTurn
    <2>1. d \in finalized \ Processed /\ d \in Steps /\ d # s
        BY Zenon, <1>3, <1>4, <1>5, Tables DEF Typed
    <2>2. outputs'[d] = outputs[d] /\ results'[d] = results[d] /\ prepared'[d] = prepared[d]
        BY Zenon, <1>5, <1>7, <1>8, <2>1
    <2> QED BY Zenon, <1>3, <2>1, <2>2 DEF ResultInv, AwaitingTurn
<1>15. OrderInv'
    <2>1. CASE FirstAbort(o)
        <3>1. firstAbortErr' = s /\ readyQueue' = <<>> /\ pending' = pending
            BY Zenon, <1>2, <2>1 DEF ApplyOutcome, FirstAbort
        <3>2. Aborted'
            BY <1>4, <3>1, DAGAssumption DEF Aborted, NoStep, Steps
        <3>3. QueuedSteps' = {} /\ NoDuplicates(readyQueue')
            BY SMTT(60), <3>1 DEF QueuedSteps, Elements, NoDuplicates
        <3> QED BY Zenon, <1>3, <1>4, <1>5, <3>1, <3>2, <3>3 DEF OrderInv
    <2>2. CASE Aborted
        <3>1. UNCHANGED <<firstAbortErr, readyQueue, pending>>
            BY Zenon, <1>2, <2>2 DEF ApplyOutcome, FirstAbort
        <3>2. Aborted' /\ QueuedSteps' = QueuedSteps
            BY Zenon, <2>2, <3>1 DEF Aborted, QueuedSteps
        <3> QED BY Zenon, <1>3, <1>4, <1>5, <3>1, <3>2 DEF OrderInv
    <2>3. CASE ~FirstAbort(o) /\ ~Aborted
        <3>1. /\ firstAbortErr' = firstAbortErr
              /\ s \in finalized => UNCHANGED <<pending, readyQueue>>
              /\ s \notin finalized => PropagateDeps(s, readyQueue)
            BY Zenon, <1>2, <2>3 DEF ApplyOutcome
        <3>2. ~Aborted'
            BY Zenon, <2>3, <3>1 DEF Aborted
        <3>3. CASE s \in finalized
            <4>1. Completed' = Completed /\ QueuedSteps' = QueuedSteps
                BY Zenon, <1>4, <3>1, <3>3 DEF QueuedSteps
            <4> QED BY Zenon, <1>3, <1>4, <1>5, <2>3, <3>1, <3>2, <3>3, <4>1 DEF OrderInv
        <3>4. CASE s \notin finalized
            BY Zenon, <1>3, <1>4, <1>5, <2>3, <3>1, <3>2, <3>4, CompletionOrder DEF Typed
        <3> QED BY Zenon, <3>3, <3>4
    <2> QED BY Zenon, <2>1, <2>2, <2>3
<1> QED BY Zenon, <1>10, <1>11, <1>12, <1>13, <1>14, <1>15 DEF ResultInv
=============================================================================
