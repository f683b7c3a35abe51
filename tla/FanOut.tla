------------------------------- MODULE FanOut -------------------------------
(***************************************************************************)
(* Parallel, loop, map and reduce steps: one step over several items       *)
(* (executor_parallel.go, executor_loop.go, executor_map.go with its       *)
(* back-pressure pool, executor_reduce.go) under the limiter all steps of  *)
(* a workflow share (ConcurrencyLimiter of executor_state.go).             *)
(*                                                                         *)
(* A fan-out has an identifier: 0 is the step of the workflow, and i > 0   *)
(* the fan-out that iteration i of a map or reduce runs as its sub-step:   *)
(* parallel and loop call their node directly.  What a node computes, with *)
(* all its attempts, is an outcome chosen freely; an if branch is a node   *)
(* here too, since it is a workflow of its own without a limiter.          *)
(***************************************************************************)
EXTENDS Integers, Sequences, FiniteSets

CONSTANTS Items,       \* 1..n, the items of the step
          SubItems,    \* 1..k, the items of a nested fan-out
          Shapes       \* the configurations to start from, see ShapeType

(* One fan-out: kind, workers (concurrency), cap of its queue, whether a   *)
(* full queue drops, stop_on_error, and max_failures of a parallel step.   *)
FanType == [kind : {"parallel", "loop", "map", "reduce", "node"}, conc : Nat \ {0},
            cap : Nat \ {0}, drop : BOOLEAN, stop : BOOLEAN, maxFail : Nat]
ShapeType == [outer : FanType, inner : FanType, limit : Nat \ {0}]

ASSUME ItemsAssumption == /\ IsFiniteSet(Items) /\ Items = 1..Cardinality(Items)
                          /\ IsFiniteSet(SubItems) /\ SubItems = 1..Cardinality(SubItems)
                          /\ Shapes \subseteq ShapeType

VARIABLES shape,       \* configuration of the step, never changes
          unit,        \* unit[f][i]: where item i of fan-out f stands
          next,        \* next[f]: the item the producer of f submits next
          queue,       \* queue[f]: the bounded queue of a map's pool
          result,      \* result[f]: "none", "ok", "failed" or "panic"
          slots,       \* slots of the shared limiter in use
          cancelled    \* the workflow's context is done

fanVars == <<shape, unit, next, queue, result, slots, cancelled>>

Fans == {0} \cup Items
ItemsOf(f) == IF f = 0 THEN Items ELSE SubItems

Config(f) == IF f = 0 THEN shape.outer ELSE shape.inner

InState(f, S) == {i \in ItemsOf(f) : unit[f][i] \in S}
Busy(f) == InState(f, {"waiting", "running"})

(* An iteration of the step runs a nested fan-out instead of a node.       *)
Nests(f) == f = 0 /\ shape.outer.kind \in {"map", "reduce"} /\ shape.inner.kind # "node"

(* The fan-out is executing: its caller is inside the executor of the step.*)
Active(f) == /\ result[f] = "none"
             /\ f # 0 => unit[0][f] = "running" /\ Nests(0)

(* A reduce, and a map or loop with concurrency 1, runs its items in the   *)
(* calling goroutine and takes no slot of the limiter.                     *)
Sequential(f) ==
    \/ Config(f).kind = "reduce"
    \/ Config(f).kind \in {"map", "loop"} /\ Config(f).conc = 1

(* A reduce has nothing to go on with behind a failed item, and nothing in *)
(* line goes on behind a panic.                                            *)
Stops(f) == Config(f).kind = "reduce" \/ Config(f).stop
StoppedEarly(f) ==
    /\ Sequential(f)
    /\ (Stops(f) /\ InState(f, {"failed"}) # {}) \/ InState(f, {"panicked"}) # {}

FanInit ==
    /\ shape \in Shapes
    /\ unit = [f \in Fans |-> [i \in ItemsOf(f) |-> "new"]]
    /\ next = [f \in Fans |-> 1]
    /\ queue = [f \in Fans |-> <<>>]
    /\ result = [f \in Fans |-> "none"]
    /\ slots = 0
    /\ cancelled = FALSE

-----------------------------------------------------------------------------
(* Producers                                                               *)

(* executeParallelStep starts one goroutine for every sub-step at once.    *)
spawnAll(f) ==
    /\ Active(f) /\ Config(f).kind = "parallel" /\ next[f] = 1
    /\ unit' = [unit EXCEPT ![f] = [i \in ItemsOf(f) |-> "waiting"]]
    /\ next' = [next EXCEPT ![f] = Cardinality(ItemsOf(f)) + 1]
    /\ UNCHANGED <<shape, queue, result, slots, cancelled>>

(* A concurrent loop takes its own semaphore before it starts the next     *)
(* goroutine, which gives it back when it ends.                            *)
spawnNext(f) ==
    /\ Active(f) /\ Config(f).kind = "loop" /\ ~Sequential(f)
    /\ next[f] \in ItemsOf(f)
    /\ Cardinality(Busy(f)) < Config(f).conc
    /\ unit' = [unit EXCEPT ![f][next[f]] = "waiting"]
    /\ next' = [next EXCEPT ![f] = @ + 1]
    /\ UNCHANGED <<shape, queue, result, slots, cancelled>>

Full(f) == Len(queue[f]) >= Config(f).cap

(* backpressurePool.submit: a full queue makes the producer of a map wait, *)
(* or drops the item when the pool is in drop mode.                        *)
submit(f) ==
    /\ Active(f) /\ Config(f).kind = "map" /\ ~Sequential(f)
    /\ next[f] \in ItemsOf(f)
    /\ next' = [next EXCEPT ![f] = @ + 1]
    /\ \/ /\ ~Full(f)
          /\ queue' = [queue EXCEPT ![f] = Append(@, next[f])]
          /\ unit' = [unit EXCEPT ![f][next[f]] = "queued"]
       \/ /\ Full(f) /\ Config(f).drop
          /\ unit' = [unit EXCEPT ![f][next[f]] = "dropped"]
          /\ UNCHANGED queue
    /\ UNCHANGED <<shape, result, slots, cancelled>>

(* One of the map's fixed number of workers takes the head of the queue.   *)
take(f) ==
    /\ Active(f) /\ queue[f] # <<>>
    /\ Cardinality(Busy(f)) < Config(f).conc
    /\ unit' = [unit EXCEPT ![f][Head(queue[f])] = "waiting"]
    /\ queue' = [queue EXCEPT ![f] = Tail(@)]
    /\ UNCHANGED <<shape, next, result, slots, cancelled>>

(* A sequential step starts the next item when the one before has ended,   *)
(* unless that one failed and the step stops on errors.                    *)
runInLine(f) ==
    /\ Active(f) /\ Sequential(f)
    /\ next[f] \in ItemsOf(f) /\ Busy(f) = {}
    /\ ~StoppedEarly(f)
    /\ unit' = [unit EXCEPT ![f][next[f]] = "running"]
    /\ next' = [next EXCEPT ![f] = @ + 1]
    /\ UNCHANGED <<shape, queue, result, slots, cancelled>>
-----------------------------------------------------------------------------
(* Workers                                                                 *)

(* ConcurrencyLimiter.Acquire takes a slot, or fails when the context is   *)
(* done; a select takes either when both are possible.                     *)
Acquire(f, i) ==
    /\ unit[f][i] = "waiting" /\ slots < shape.limit
    /\ unit' = [unit EXCEPT ![f][i] = "running"]
    /\ slots' = slots + 1
    /\ UNCHANGED <<shape, next, queue, result, cancelled>>

AcquireBlocks(f, i) ==
    /\ unit[f][i] = "waiting" /\ cancelled /\ f = 0
    /\ unit' = [unit EXCEPT ![f][i] = "failed"]
    /\ UNCHANGED <<shape, next, queue, result, slots, cancelled>>

AcquireCancelled(f, i) ==
    /\ unit[f][i] = "waiting" /\ cancelled
    /\ unit' = [unit EXCEPT ![f][i] = "failed"]
    /\ UNCHANGED <<shape, next, queue, result, slots, cancelled>>

(* ConcurrencyLimiter.Release, deferred or called behind the work: every   *)
(* end of a unit that took a slot, a panic included, gives it back.        *)
ReleaseAfterNode(f) == IF Sequential(f) \/ Nests(f) THEN slots ELSE slots - 1

Release(f) == IF Sequential(f) THEN slots ELSE slots - 1

(* A sequential loop or reduce runs its items without a recover.           *)
Unwinds(f) == Sequential(f) /\ Config(f).kind # "map"

(* What the item's end counts as.  A panic is a failure of a parallel or   *)
(* loop item; runOne of a map recovers from it and leaves the zero result, *)
(* a success with an empty output.                                         *)
Outcome(f, o) ==
    IF o # "panic" THEN o
    ELSE IF Unwinds(f) THEN "panicked" ELSE IF Config(f).kind = "map" THEN "ok" ELSE "failed"

(* A panic that unwinds a nested step reaches runOne of the map around it; *)
(* where there is none, it ends the process.                               *)
Panics(f) == IF Unwinds(f) /\ (f = 0 \/ shape.outer.kind # "map") THEN {} ELSE {"panic"}

(* The result is sent and the slot given back in one step: the goroutine   *)
(* waits for nothing in between.                                           *)
endUnit(f, i, o) ==
    /\ unit' = [unit EXCEPT ![f][i] = Outcome(f, o)]
    /\ slots' = Release(f)
    /\ UNCHANGED <<shape, next, queue, result, cancelled>>

(* All attempts of the node together; one that the context cuts short has  *)
(* failed.                                                                 *)
executeWithRetry(f) == {"ok", "failed"} \cup Panics(f)

(* The item's node ends, or the item's condition skips it (a success).     *)
execute(f, i) ==
    /\ unit[f][i] = "running" /\ ~Nests(f)
    /\ f # 0 => Active(f)
    /\ \E o \in executeWithRetry(f) : endUnit(f, i, o)

(* executeSubStep of a map iteration returns what its nested step returned.*)
subStepReturns(i) ==
    /\ Nests(0) /\ unit[0][i] = "running" /\ result[i] # "none"
    /\ endUnit(0, i, result[i])
-----------------------------------------------------------------------------
(* Results                                                                 *)

(* Everything submitted has ended: a parallel or loop step has received as *)
(* many results as it has items, a map's queue is closed and its workers   *)
(* have left; a sequential step may stop early.                            *)
CollectedNoWait(f) == queue[f] = <<>> /\ next[f] > Cardinality(ItemsOf(f))

Collected(f) ==
    /\ queue[f] = <<>> /\ Busy(f) = {}
    /\ \/ next[f] > Cardinality(ItemsOf(f))
       \/ StoppedEarly(f)

(* finalizeParallelOutput compares the failures with max_failures; loop    *)
(* and map fail on any failure when they stop on errors, reduce always.    *)
Failed(f) ==
    LET bad == InState(f, {"failed"})
    IN  IF Config(f).kind = "parallel" THEN Cardinality(bad) > Config(f).maxFail
                                       ELSE Stops(f) /\ bad # {}

return(f) ==
    /\ Active(f) /\ Collected(f)
    /\ result' = [result EXCEPT ![f] = IF InState(f, {"panicked"}) # {} THEN "panic"
                                       ELSE IF Failed(f) THEN "failed" ELSE "ok"]
    /\ UNCHANGED <<shape, unit, next, queue, slots, cancelled>>

(* The workflow times out or its caller cancels it.                        *)
Cancel ==
    /\ ~cancelled /\ result[0] = "none"
    /\ cancelled' = TRUE
    /\ UNCHANGED <<shape, unit, next, queue, result, slots>>

FanStep(f) ==
    \/ spawnAll(f) \/ spawnNext(f) \/ submit(f) \/ take(f) \/ runInLine(f)
    \/ return(f)
    \/ \E i \in ItemsOf(f) : Acquire(f, i) \/ AcquireCancelled(f, i) \/ execute(f, i)

FanReturned == result[0] # "none" /\ UNCHANGED fanVars

(* Goroutines that can run do run, and a node that was started ends: nodes *)
(* carry a time limit.  Every step uses up work, so it is enough that some *)
(* step happens as long as one can.  Nobody has to cancel.                 *)
FanProgress == (\E f \in Fans : FanStep(f)) \/ (\E i \in Items : subStepReturns(i))
FanNext == FanProgress \/ Cancel \/ FanReturned
FanSpec == FanInit /\ [][FanNext]_fanVars
FanFairness == WF_fanVars(FanProgress)
-----------------------------------------------------------------------------
(* Properties                                                              *)

(* The running items whose workers took a slot.                            *)
SlotHolders ==
    {u \in Fans \X (Items \cup SubItems) :
        u[2] \in ItemsOf(u[1]) /\ ~Sequential(u[1]) /\ unit[u[1]][u[2]] = "running"}

(* The shared limiter is never overdrawn and never leaks: its slots in use *)
(* are those of the items that are running now, whatever failed, panicked, *)
(* was dropped or was cancelled while it waited (Acquire and Release of    *)
(* parallel, loop and map workers).                                        *)
SlotsAccounted ==
    /\ slots <= shape.limit
    /\ slots = Cardinality(SlotHolders)

(* A step that has returned left nothing behind: no item waits, runs or    *)
(* lies in a queue, every item ended or was dropped unless a sequential    *)
(* step stopped at a failure or panic, and no nested step of it is still   *)
(* executing.                                                              *)
NothingLeftBehind ==
    \A f \in Fans : result[f] # "none" =>
        /\ InState(f, {"queued", "waiting", "running"}) = {}
        /\ InState(f, {"new"}) # {} => StoppedEarly(f)
        /\ f = 0 => \A g \in Items : ~Active(g)

(* Slots are left for the nested fan-outs whatever the iterations hold.    *)
Roomy ==
    \/ ~Nests(0) \/ Sequential(0) \/ Sequential(1)
    \/ shape.limit > Cardinality(Items) \/ shape.limit > shape.outer.conc

(* Every step returns, with nested fan-outs too, as long as the limiter    *)
(* has more slots than the step has workers; and any step returns once the *)
(* workflow's context is done, since Acquire watches it.                   *)
FanOutReturns == (Roomy \/ cancelled) ~> (result[0] # "none")

(* Every step returns, nested or not, without the help of a time-out: "Sub-*)
(* steps may themselves be compound (if/loop/parallel/map)", says the map  *)
(* executor where it hands its limiter on to the nested step.              *)
NestedReturns == <>(result[0] # "none")
=============================================================================
