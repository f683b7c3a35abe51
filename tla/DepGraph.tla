------------------------------ MODULE DepGraph ------------------------------
(***************************************************************************)
(* The dependency graph of internal/workflow/dag.go: references resolved   *)
(* to step indices, the three-colour depth-first search for cycles, and    *)
(* Kahn's layering into batches.  The searches range over Go maps, whose   *)
(* order is arbitrary: the next dependency is any of those left.           *)
(*                                                                         *)
(* A text is an integer.  A positive one reads as a number (a 1-based step *)
(* reference, but also a legal step name); a negative one does not.        *)
(***************************************************************************)
EXTENDS Integers, Sequences, FiniteSets

CONSTANTS
    N,          \* number of steps
    Text,       \* texts that occur as names and references
    Workflows   \* the workflows given to buildDepGraph

Steps == 0 .. N - 1
NoName == 0     \* the empty string
NotFound == -1

ASSUME GraphAssumption ==
    /\ N \in Nat \ {0}
    /\ Text \subseteq Int \ {0}
    /\ Workflows \subseteq [name : [Steps -> Text \cup {NoName}],
                            dependsOn : [Steps -> SUBSET Text]]

VARIABLES
    wf,         \* the workflow
    phase,      \* "build", "dfs", "topo", or how buildDepGraph/topoBatches ended
    deps,       \* graph.deps
    color,      \* white, gray (on the stack) or black, per step
    path,       \* the recursion stack of dfs
    left,       \* per step on the stack, dependencies not examined yet
    cycle,      \* the cycle reported
    inDegree,   \* dependencies not in a batch; negative once in one
    batches,    \* the batches, in order
    processed   \* how many steps the batches hold

topoVars == <<inDegree, batches, processed>>
vars == <<wf, phase, deps, color, path, left, cycle, topoVars>>

Top == path[Len(path)]
White == {s \in Steps : color[s] = "white"}
Black == {s \in Steps : color[s] = "black"}
Scheduled == UNION {batches[b] : b \in 1 .. Len(batches)}

\* The later of two steps with the same name hides the earlier one.
NameToIdx(w, ref) ==
    {s \in Steps : /\ w.name[s] = ref
                   /\ \A t \in Steps : t > s => w.name[t] # ref}

\* A name wins over a number.
ResolveStepRef(w, ref) ==
    IF NameToIdx(w, ref) # {} THEN CHOOSE s \in NameToIdx(w, ref) : TRUE
    ELSE IF ref - 1 \in Steps THEN ref - 1
    ELSE NotFound

Resolved(w, s) == {ResolveStepRef(w, ref) : ref \in w.dependsOn[s]}

Init ==
    /\ wf \in Workflows
    /\ phase = "build"
    /\ deps = [s \in Steps |-> {}]
    /\ color = [s \in Steps |-> "white"]
    /\ path = <<>>
    /\ left = [s \in Steps |-> {}]
    /\ cycle = <<>>
    /\ inDegree = [s \in Steps |-> 0]
    /\ batches = <<>>
    /\ processed = 0

-----------------------------------------------------------------------------
(* buildDepGraph *)

\* References that resolve to no step, or to the step itself, are rejected.
BuildDepGraph ==
    /\ phase = "build"
    /\ \/ /\ \E s \in Steps : Resolved(wf, s) \cap {NotFound, s} # {}
          /\ phase' = "rejected"
          /\ UNCHANGED deps
       \/ /\ \A s \in Steps : Resolved(wf, s) \cap {NotFound, s} = {}
          /\ phase' = "dfs"
          /\ deps' = [s \in Steps |-> Resolved(wf, s)]
    /\ UNCHANGED <<wf, color, path, left, cycle, topoVars>>

Visit(s) ==
    /\ color' = [color EXCEPT ![s] = "gray"]
    /\ path' = Append(path, s)
    /\ left' = [left EXCEPT ![s] = deps[s]]

\* The outer loop of detectCycle: the first white step is a new root.
VisitRoot ==
    /\ phase = "dfs"
    /\ path = <<>>
    /\ \E s \in White : /\ \A t \in White : s <= t
                        /\ Visit(s)
    /\ UNCHANGED <<wf, phase, deps, cycle, topoVars>>

\* Mutant: the reported cycle starts at the root of the search.
ExamineWholePath(d) ==
    /\ color[d] = "gray"
    /\ phase' = "cyclic"
    /\ cycle' = Append(path, d)
    /\ UNCHANGED <<wf, deps, color, path, left, topoVars>>

\* A gray dependency closes a cycle, reported from its first occurrence.
ExamineGray(d) ==
    /\ color[d] = "gray"
    /\ phase' = "cyclic"
    /\ \E start \in 1 .. Len(path) :
           /\ path[start] = d
           /\ cycle' = Append(SubSeq(path, start, Len(path)), d)
    /\ UNCHANGED <<wf, deps, color, path, left, topoVars>>

ExamineWhite(d) ==
    /\ color[d] = "white"
    /\ color' = [color EXCEPT ![d] = "gray"]
    /\ path' = Append(path, d)
    /\ left' = [left EXCEPT ![Top] = @ \ {d}, ![d] = deps[d]]
    /\ UNCHANGED <<wf, phase, deps, cycle, topoVars>>

ExamineBlack(d) ==
    /\ color[d] = "black"
    /\ left' = [left EXCEPT ![Top] = @ \ {d}]
    /\ UNCHANGED <<wf, phase, deps, color, path, cycle, topoVars>>

\* One dependency of the step on top of the stack, in any order.
Examine ==
    /\ phase = "dfs"
    /\ path # <<>>
    /\ \E d \in left[Top] : ExamineGray(d) \/ ExamineWhite(d) \/ ExamineBlack(d)

\* dfs returns.
Finish ==
    /\ phase = "dfs"
    /\ path # <<>>
    /\ left[Top] = {}
    /\ color' = [color EXCEPT ![Top] = "black"]
    /\ path' = SubSeq(path, 1, Len(path) - 1)
    /\ UNCHANGED <<wf, phase, deps, left, cycle, topoVars>>

\* No white step is left: the graph is accepted and topoBatches starts.
Accept ==
    /\ phase = "dfs"
    /\ path = <<>>
    /\ White = {}
    /\ phase' = "topo"
    /\ inDegree' = [s \in Steps |-> Cardinality(deps[s])]
    /\ UNCHANGED <<wf, deps, color, path, left, cycle, batches, processed>>

-----------------------------------------------------------------------------
(* topoBatches *)

Ready == {s \in Steps : inDegree[s] = 0}

\* Steps in the batch are marked with -1, then their dependents have one
\* dependency less.
NewDegrees(batch) ==
    [s \in Steps |-> (IF s \in batch THEN -1 ELSE inDegree[s])
                     - Cardinality(deps[s] \cap batch)]

\* Mutant: only the first ready step is put into a batch.
FirstReady ==
    {s \in Ready : \A t \in Ready : s <= t}

Batch == Ready

\* One round of the loop; an empty batch ends it with an error.
NextBatch ==
    /\ phase = "topo"
    /\ processed < N
    /\ \/ /\ Batch = {}
          /\ phase' = "stalled"
          /\ UNCHANGED topoVars
       \/ /\ Batch # {}
          /\ batches' = Append(batches, Batch)
          /\ processed' = processed + Cardinality(Batch)
          /\ inDegree' = NewDegrees(Batch)
          /\ UNCHANGED phase
    /\ UNCHANGED <<wf, deps, color, path, left, cycle>>

TopoDone ==
    /\ phase = "topo"
    /\ processed >= N
    /\ phase' = "done"
    /\ UNCHANGED <<wf, deps, color, path, left, cycle, topoVars>>

Finished ==
    /\ phase \in {"rejected", "cyclic", "stalled", "done"}
    /\ UNCHANGED vars

Next ==
    \/ BuildDepGraph
    \/ VisitRoot
    \/ Examine
    \/ Finish
    \/ Accept
    \/ NextBatch
    \/ TopoDone
    \/ Finished

Spec == Init /\ [][Next]_vars

-----------------------------------------------------------------------------
(* Properties *)

\* The types of the search and of the layering; degrees may go below zero.
TypeOK ==
    /\ wf \in Workflows
    /\ phase \in {"build", "dfs", "topo", "rejected", "cyclic", "stalled", "done"}
    /\ deps \in [Steps -> SUBSET Steps]
    /\ color \in [Steps -> {"white", "gray", "black"}]
    /\ path \in Seq(Steps)
    /\ left \in [Steps -> SUBSET Steps]
    /\ cycle \in Seq(Steps)
    /\ inDegree \in [Steps -> Int]
    /\ batches \in Seq(SUBSET Steps)
    /\ processed \in 0 .. N

\* Every nonempty set of steps has one that waits for none of the set.
Acyclic == \A S \in (SUBSET Steps) \ {{}} : \E s \in S : deps[s] \cap S = {}

\* detectCycle lets no cyclic graph through, whatever order it visits the
\* dependencies in; the DAG executor relies on it.
AcceptedIsAcyclic == phase \in {"topo", "stalled", "done"} => Acyclic

\* The cycle detectCycle reports is one: a closed walk along dependencies
\* that meets no step twice.
CycleIsReal ==
    phase = "cyclic" =>
        LET n == Len(cycle) IN
        /\ n >= 2
        /\ cycle[1] = cycle[n]
        /\ \A i \in 1 .. n - 1 : cycle[i + 1] \in deps[cycle[i]]
        /\ \A i, j \in 1 .. n - 1 : cycle[i] = cycle[j] => i = j

\* The defensive error of topoBatches cannot occur: as its comment says,
\* detectCycle has excluded it.
NeverStalls == phase # "stalled"

\* The batches are the levels of the graph: every step is in exactly one,
\* after all its dependencies, and not later than it must be.
BatchesAreLevels ==
    phase = "done" =>
        /\ Scheduled = Steps
        /\ \A b, c \in 1 .. Len(batches) : b # c => batches[b] \cap batches[c] = {}
        /\ \A b \in 1 .. Len(batches) : \A s \in batches[b] :
               /\ deps[s] \subseteq UNION {batches[c] : c \in 1 .. b - 1}
               /\ b > 1 => deps[s] \cap batches[b - 1] # {}
=============================================================================
