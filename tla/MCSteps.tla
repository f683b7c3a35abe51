------------------------------ MODULE MCSteps ------------------------------
(***************************************************************************)
(* The structure of a workflow for TLC: the dependency graph of its steps, *)
(* the stages of a pipeline, a step that fans out and a saga.  They share  *)
(* no state: a behaviour exercises one of them while the others rest, the  *)
(* fan-out in a state in which its fair action is not enabled.             *)
(***************************************************************************)
EXTENDS DepGraph, Pipeline, FanOut, Saga

CONSTANTS s1, s2, s3

VARIABLE part

-----------------------------------------------------------------------------
(* Every graph on four unnamed steps, and workflows with named steps. *)

MCText == {-1, 1, 2, 3, 4, 9}

Unnamed == [s \in Steps |-> NoName]

\* References by number, to any other step.
Numbered ==
    {[name |-> Unnamed, dependsOn |-> d] :
        d \in {f \in [Steps -> SUBSET (1 .. N)] : \A s \in Steps : s + 1 \notin f[s]}}

\* Names that repeat, that read as numbers, and references that resolve to
\* nothing or to the step itself.
Named ==
    {[name |-> [s \in Steps |-> IF s = 0 THEN a ELSE IF s = 2 THEN b ELSE NoName],
      dependsOn |-> [s \in Steps |-> IF s = 1 THEN {x} ELSE IF s = 3 THEN {x, y} ELSE {}]] :
        a \in {-1, 2, NoName}, b \in {-1, 1, 4}, x \in MCText, y \in MCText}

MCWorkflows == Numbered \cup Named

-----------------------------------------------------------------------------
\* Acyclic pipelines of three stages, and one with a cycle.
Graphs == {d \in [Stages -> SUBSET Stages] :
              d[s1] = {} /\ d[s2] \subseteq {s1} /\ d[s3] \subseteq {s1, s2}}
FirstStage(q) == [s \in Stages |-> IF s = s1 THEN q ELSE "stop"]
MCPipelines ==
    [deps : Graphs, cond : {{}, {s2}}, concurrency : {0, 2}, exhausted : {FirstStage("stop")},
     policy : {FirstStage(q) : q \in {"stop", "continue", "retry"}}]
    \cup [deps : Graphs, cond : {{}}, concurrency : {2}, exhausted : {FirstStage("continue")},
          policy : {FirstStage("retry")}]
    \cup [deps : {[s \in Stages |-> IF s = s1 THEN {s2} ELSE IF s = s2 THEN {s1} ELSE {}]},
          cond : {{}}, concurrency : {1}, exhausted : {FirstStage("stop")}, policy : {FirstStage("stop")}]
-----------------------------------------------------------------------------
(* Fan-outs, alone and nested. *)

Fan(k, c, q, d, s, m) == [kind |-> k, conc |-> c, cap |-> q, drop |-> d, stop |-> s, maxFail |-> m]

Nodes == Fan("node", 1, 1, FALSE, TRUE, 0)
Outers == {Fan("parallel", 1, 1, FALSE, TRUE, m) : m \in 0..1}
     \cup {Fan("loop", 2, 1, FALSE, s, 0) : s \in BOOLEAN}
     \cup {Fan("loop", 1, 1, FALSE, TRUE, 0), Fan("reduce", 1, 1, FALSE, FALSE, 0)}
     \cup {Fan("map", c, 1, d, TRUE, 0) : c \in 1..2, d \in BOOLEAN}
Inners == {Fan("parallel", 1, 1, FALSE, TRUE, 0), Fan("loop", 2, 1, FALSE, TRUE, 0),
           Fan("map", 2, 1, TRUE, TRUE, 0), Fan("reduce", 1, 1, FALSE, FALSE, 0)}

MCShapes == [outer : Outers, inner : {Nodes}, limit : 1..2]
       \cup [outer : {o \in Outers : o.kind \in {"map", "reduce"}}, inner : Inners, limit : 1..3]

\* The step has returned.
FanIdle ==
    /\ shape = CHOOSE s \in MCShapes : TRUE
    /\ unit = [f \in Fans |-> [i \in ItemsOf(f) |-> "ok"]]
    /\ next = [f \in Fans |-> Cardinality(ItemsOf(f)) + 1]
    /\ queue = [f \in Fans |-> <<>>]
    /\ result = [f \in Fans |-> "ok"]
    /\ slots = 0
    /\ cancelled = FALSE

SagaIdle == compensable = {} /\ SagaInit

GraphIdle == wf = (CHOOSE w \in Workflows : TRUE) /\ Init
PipelineIdle == pipe = (CHOOSE p \in Pipelines : TRUE) /\ PipelineInit

MCInit ==
    \/ part = "graph" /\ Init /\ PipelineIdle /\ FanIdle /\ SagaIdle
    \/ part = "pipeline" /\ GraphIdle /\ PipelineInit /\ FanIdle /\ SagaIdle
    \/ part = "fan" /\ GraphIdle /\ PipelineIdle /\ FanInit /\ SagaIdle
    \/ part = "saga" /\ GraphIdle /\ PipelineIdle /\ FanIdle /\ SagaInit

MCNext ==
    \/ part = "graph" /\ Next /\ UNCHANGED <<part, pipelineVars, fanVars, sagaVars>>
    \/ part = "pipeline" /\ PipelineNext /\ UNCHANGED <<part, vars, fanVars, sagaVars>>
    \/ part = "fan" /\ FanNext /\ UNCHANGED <<part, vars, pipelineVars, sagaVars>>
    \/ part = "saga" /\ SagaNext /\ UNCHANGED <<part, vars, pipelineVars, fanVars>>

MCSpec == MCInit /\ [][MCNext]_<<part, vars, pipelineVars, fanVars, sagaVars>> /\ FanFairness
=============================================================================
