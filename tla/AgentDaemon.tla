---------------------------- MODULE AgentDaemon ----------------------------
(***************************************************************************)
(* The agent daemon (HandleAgent of cli/agent.go): scheduled tasks go      *)
(* through the task queue (taskqueue/queue.go), a goroutine per task hands *)
(* its message to the one agent loop (agent/loop.go) and waits for the     *)
(* reply, and the terminal's lines reach the same loop.                    *)
(*                                                                         *)
(* A task is its identifier: the schedule entry with the second it fired,  *)
(* or a file with the second of its event.  What the agent answers is a    *)
(* success or a failure; the time limit of handleInput makes it end.       *)
(***************************************************************************)
EXTENDS Integers, Sequences, FiniteSetsExt

CONSTANTS Tasks,         \* task identifiers
          Stdin,         \* the terminal as a source of inputs
          MaxSize,       \* size of the task queue
          InputCap,      \* buffer of the agent's input channel
          MaxStatus,     \* entries kept in the status map
          MaxFires,      \* bound on the number of enqueued tasks
          MaxLines       \* bound on the lines typed

(* HandleAgent makes a queue of limited size.                              *)
ASSUME DaemonAssumption == MaxSize \in Nat \ {0}

Sources == Tasks \cup {Stdin}

VARIABLES taskQueue, active, status, notEmpty,   \* the task queue; status "" is no entry
          worker,        \* the queue's worker: "check", "wait", "stopped"
          handler,       \* handler[t]: the task's goroutine: "none", "send", "wait"
          inputs, closed, reply,             \* channels: inputs, and one reply each
          agentLoop,     \* the agent loop: "select", "returned", or its input
          main,          \* HandleAgent's own goroutine
          ctxDone, lines, stdin, signal,
          crashed,       \* a goroutine panicked and took the process with it
          fires, typed   \* counters of the bounds

queueVars == <<taskQueue, active, status, notEmpty>>
channelVars == <<inputs, closed, reply>>
mainVars == <<main, ctxDone, lines, stdin, signal, typed>>
agentVars == <<queueVars, worker, handler, channelVars, agentLoop, mainVars, crashed, fires>>

(* The process exits when HandleAgent returns or a goroutine panics.       *)
Up == main # "returned" /\ ~crashed

DaemonInit ==
    /\ taskQueue = <<>> /\ active = {} /\ status = [t \in Tasks |-> ""] /\ notEmpty = FALSE
    /\ worker = "check" /\ handler = [t \in Tasks |-> "none"]
    /\ inputs = <<>> /\ closed = FALSE /\ reply = [s \in Sources |-> FALSE]
    /\ agentLoop = "select"
    /\ main = "prompt" /\ ctxDone = FALSE /\ lines = 0 /\ stdin = "open" /\ signal = FALSE
    /\ crashed = FALSE /\ fires = 0 /\ typed = 0
-----------------------------------------------------------------------------
(* Queue                                                                   *)

DuplicateQueued(t) == t \in Range(taskQueue)

Duplicate(t) == t \in active \/ t \in Range(taskQueue)

(* A full queue drops its oldest task, with the task's status.             *)
QueueFull == Len(taskQueue) >= MaxSize
room == IF QueueFull THEN Tail(taskQueue) ELSE taskQueue
roomStatus == IF QueueFull THEN [status EXCEPT ![Head(taskQueue)] = ""] ELSE status

(* Enqueue by a schedule's callback or by the file-watch forwarder.  A     *)
(* used identifier comes back only when nothing of it is left in the       *)
(* channels.                                                               *)
Enqueue(t) ==
    /\ Up /\ fires < MaxFires /\ fires' = fires + 1
    /\ handler[t] = "none" => t # agentLoop /\ t \notin Range(inputs)
    /\ IF Duplicate(t) THEN UNCHANGED queueVars
       ELSE /\ taskQueue' = Append(room, t)
            /\ status' = [roomStatus EXCEPT ![t] = "pending"]
            /\ notEmpty' = TRUE
            /\ UNCHANGED active
    /\ UNCHANGED <<worker, handler, channelVars, agentLoop, mainVars, crashed>>

startHandler(t) ==
    /\ handler' = [handler EXCEPT ![t] = "send"]
    /\ reply' = [reply EXCEPT ![t] = FALSE]

DequeueOnSignal ==
    /\ Up /\ worker = "check"
    /\ IF taskQueue # <<>> /\ notEmpty
       THEN /\ taskQueue' = Tail(taskQueue) /\ active' = active \cup {Head(taskQueue)}
            /\ status' = [status EXCEPT ![Head(taskQueue)] = "running"]
            /\ notEmpty' = FALSE
            /\ startHandler(Head(taskQueue))
            /\ UNCHANGED worker
       ELSE worker' = "wait" /\ UNCHANGED <<queueVars, handler, reply>>
    /\ UNCHANGED <<inputs, closed, agentLoop, mainVars, crashed, fires>>

(* Run starts a goroutine for the task Dequeue returns and comes back for  *)
(* the next one at once.                                                   *)
Dequeue ==
    /\ Up /\ worker = "check"
    /\ IF taskQueue # <<>>
       THEN /\ taskQueue' = Tail(taskQueue) /\ active' = active \cup {Head(taskQueue)}
            /\ status' = [status EXCEPT ![Head(taskQueue)] = "running"]
            /\ startHandler(Head(taskQueue))
            /\ UNCHANGED <<notEmpty, worker>>
       ELSE worker' = "wait" /\ UNCHANGED <<queueVars, handler, reply>>
    /\ UNCHANGED <<inputs, closed, agentLoop, mainVars, crashed, fires>>

DequeueWait ==
    /\ Up /\ worker = "wait"
    /\ \/ notEmpty /\ notEmpty' = FALSE /\ worker' = "check"
       \/ ctxDone /\ worker' = "stopped" /\ UNCHANGED notEmpty
    /\ UNCHANGED <<taskQueue, active, status, handler, channelVars, agentLoop, mainVars, crashed, fires>>

(* pruneStatuses deletes finished entries, in map order, until the map is  *)
(* within its limit or none is left.                                       *)
Known(st) == {t \in Tasks : st[t] # ""}
Over(st) == {t \in Tasks : st[t] \in {"done", "failed"}}
pruneStatuses(st) ==
    LET over == Max({0, Cardinality(Known(st)) - MaxStatus})
        gone == {R \in SUBSET Over(st) :
                    Cardinality(R) = Min({over, Cardinality(Over(st))})}
    IN  {[t \in Tasks |-> IF t \in R THEN "" ELSE st[t]] : R \in gone}

(* Done and Failed, and the end of the goroutine.                          *)
finish(t, s) ==
    /\ active' = active \ {t}
    /\ \E st \in pruneStatuses([status EXCEPT ![t] = IF @ = "" THEN "" ELSE s]) : status' = st
    /\ handler' = [handler EXCEPT ![t] = "none"]
-----------------------------------------------------------------------------
(* The goroutine of a task                                                 *)

(* A send on the closed channel panics; a select takes any case that can   *)
(* go on.                                                                  *)
handlerSend(t) ==
    /\ Up /\ handler[t] = "send"
    /\ \/ /\ ~closed /\ Len(inputs) < InputCap
          /\ inputs' = Append(inputs, t)
          /\ handler' = [handler EXCEPT ![t] = "wait"]
          /\ UNCHANGED <<queueVars, crashed>>
       \/ /\ closed /\ crashed' = TRUE
          /\ UNCHANGED <<queueVars, handler, inputs>>
       \/ /\ ctxDone /\ finish(t, "failed")
          /\ UNCHANGED <<taskQueue, notEmpty, inputs, crashed>>
    /\ UNCHANGED <<worker, closed, reply, agentLoop, mainVars, fires>>

handlerWait(t) ==
    /\ Up /\ handler[t] = "wait"
    /\ \/ reply[t] /\ \E s \in {"done", "failed"} : finish(t, s)
       \/ ctxDone /\ finish(t, "failed")
    /\ UNCHANGED <<taskQueue, notEmpty, worker, channelVars, agentLoop, mainVars, crashed, fires>>
-----------------------------------------------------------------------------
(* The agent loop                                                          *)

loopReceive ==
    /\ Up /\ agentLoop = "select"
    /\ \/ inputs # <<>> /\ agentLoop' = Head(inputs) /\ inputs' = Tail(inputs)
       \/ ctxDone /\ agentLoop' = "returned" /\ UNCHANGED inputs
       \/ closed /\ inputs = <<>> /\ agentLoop' = "returned" /\ UNCHANGED inputs
    /\ UNCHANGED <<queueVars, worker, handler, closed, reply, mainVars, crashed, fires>>

(* A reply channel without a buffer: the answer is lost when nobody is at  *)
(* the channel yet.                                                        *)
handleInputUnbuffered(s) ==
    /\ Up /\ agentLoop = s
    /\ agentLoop' = "select"
    /\ \/ reply' = [reply EXCEPT ![s] = TRUE]
       \/ UNCHANGED reply
    /\ UNCHANGED <<queueVars, worker, handler, inputs, closed, mainVars, crashed, fires>>

(* handleInput: the reply goes into the buffer of its channel; after a     *)
(* cancellation the select may pass it over.                               *)
handleInput(s) ==
    /\ Up /\ agentLoop = s
    /\ agentLoop' = "select"
    /\ \/ reply' = [reply EXCEPT ![s] = TRUE]
       \/ ctxDone /\ UNCHANGED reply
    /\ UNCHANGED <<queueVars, worker, handler, inputs, closed, mainVars, crashed, fires>>
-----------------------------------------------------------------------------
(* HandleAgent                                                             *)

(* The terminal: lines, then end of file.  The reading goroutine closes    *)
(* stdinDone at end of file and leaves the channel of lines open.          *)
typeLine ==
    /\ Up /\ stdin = "open" /\ typed < MaxLines
    /\ typed' = typed + 1 /\ lines' = lines + 1
    /\ UNCHANGED <<queueVars, worker, handler, channelVars, agentLoop, main, ctxDone, stdin, signal,
                   crashed, fires>>

endOfFile ==
    /\ Up /\ stdin = "open" /\ stdin' = "eof"
    /\ UNCHANGED <<queueVars, worker, handler, channelVars, agentLoop, main, ctxDone, lines, signal,
                   typed, crashed, fires>>

raiseSignal ==
    /\ Up /\ ~signal /\ signal' = TRUE
    /\ UNCHANGED <<queueVars, worker, handler, channelVars, agentLoop, main, ctxDone, lines, stdin,
                   typed, crashed, fires>>

(* The prompt takes a signal, or a line: a blank line or a command leads   *)
(* back to the prompt, /exit ends the loop, anything else is for the agent.*)
prompt ==
    /\ Up /\ main = "prompt"
    /\ \/ signal /\ main' = "close" /\ UNCHANGED lines
       \/ lines > 0 /\ lines' = lines - 1 /\ main' \in {"prompt", "close", "send"}
    /\ UNCHANGED <<queueVars, worker, handler, channelVars, agentLoop, ctxDone, stdin, signal, typed,
                   crashed, fires>>

sendLine ==
    /\ Up /\ main = "send" /\ Len(inputs) < InputCap
    /\ inputs' = Append(inputs, Stdin)
    /\ reply' = [reply EXCEPT ![Stdin] = FALSE]
    /\ main' = "reply"
    /\ UNCHANGED <<queueVars, worker, handler, closed, agentLoop, ctxDone, lines, stdin, signal,
                   typed, crashed, fires>>

receiveReply ==
    /\ Up /\ main = "reply" /\ reply[Stdin]
    /\ main' = "prompt"
    /\ UNCHANGED <<queueVars, worker, handler, channelVars, agentLoop, ctxDone, lines, stdin, signal,
                   typed, crashed, fires>>

(* The inputs are closed before the context is cancelled; then the reading *)
(* goroutine gets two seconds.  The scheduler's deferred Stop, which waits *)
(* for nothing of this module, is in Scheduler.tla.                        *)
shutDown ==
    /\ Up
    /\ \/ main = "close" /\ closed' = TRUE /\ main' = "cancel" /\ UNCHANGED ctxDone
       \/ main = "cancel" /\ ctxDone' = TRUE /\ main' = "drain" /\ UNCHANGED closed
       \/ main = "drain" /\ main' = "returned" /\ UNCHANGED <<closed, ctxDone>>
    /\ UNCHANGED <<queueVars, worker, handler, inputs, reply, agentLoop, lines, stdin, signal, typed,
                   crashed, fires>>

workerStep == Dequeue \/ DequeueWait
handlerStep(t) == handlerSend(t) \/ handlerWait(t)
agentLoopStep == loopReceive \/ \E s \in Sources : handleInput(s)
mainStep == prompt \/ sendLine \/ receiveReply \/ shutDown

DaemonProgress == workerStep \/ agentLoopStep \/ mainStep \/ \E t \in Tasks : handlerStep(t)

daemonExited == ~Up /\ UNCHANGED agentVars

DaemonNext ==
    \/ daemonExited
    \/ DaemonProgress \/ typeLine \/ endOfFile \/ raiseSignal
    \/ \E t \in Tasks : Enqueue(t)

DaemonSpec == DaemonInit /\ [][DaemonNext]_agentVars

(* Goroutines that can go on are scheduled.  It is enough that one of them *)
(* moves: with no more tasks and lines to come each has finitely many      *)
(* steps left.                                                             *)
DaemonFairness == WF_agentVars(DaemonProgress)
-----------------------------------------------------------------------------
(* Properties                                                              *)

(* The queue's three books agree: a task is queued exactly when its status *)
(* is pending, and is being executed by its one goroutine exactly when it  *)
(* is active and its status is running.  So an identifier is never queued  *)
(* twice, nor queued while it runs, and pruning the statuses never forgets *)
(* a task that is not finished.                                            *)
StatusTracksLife ==
    /\ IsInjective(taskQueue) /\ Len(taskQueue) <= MaxSize
    /\ \A t \in Tasks :
         /\ t \in Range(taskQueue) <=> status[t] = "pending"
         /\ t \in active <=> status[t] = "running"
         /\ t \in active <=> handler[t] # "none"

Ending == main \in {"close", "cancel", "drain", "returned"} \/ crashed

(* Every queued task is executed to an end, or dropped by a full queue, as *)
(* long as the daemon is not shut down: neither a wake-up of the worker    *)
(* nor a reply of the agent is lost.                                       *)
TaskHandled ==
    \A t \in Tasks : status[t] = "pending" ~> (status[t] \notin {"pending", "running"} \/ Ending)

(* A signal stops the daemon, also when it arrives while the terminal is   *)
(* idle or while a message waits for the agent behind queued tasks.        *)
SignalStops == signal ~> ~Up
=============================================================================
