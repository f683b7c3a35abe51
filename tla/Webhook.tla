------------------------------ MODULE Webhook -------------------------------
(***************************************************************************)
(* The webhook server (webhook/webhook.go): signed deliveries of a forge,  *)
(* told apart by their identifiers, start workflows in the background;     *)
(* the forge delivers again when it wants to, and the server may be        *)
(* stopped at any time.                                                    *)
(*                                                                         *)
(* Every request comes from one address and carries a valid signature.     *)
(* Time is what has expired: the limiter's window, a delivery's window in  *)
(* the cache, a finished task's age.                                       *)
(***************************************************************************)
EXTENDS Integers, FiniteSets

CONSTANTS Deliveries,
          Handlers,      \* goroutines of the HTTP server
          MaxReq,        \* requests per window of the rate limiter
          Limit,         \* entries after which the cache is swept
          MaxTasks,      \* slots for running tasks
          MaxSends, MaxExpiries   \* bounds: requests sent, expiries of any kind

ASSUME WebhookAssumption ==
    /\ IsFiniteSet(Handlers) /\ {MaxReq, Limit, MaxTasks, MaxSends, MaxExpiries} \subseteq Nat

Ids == 1..MaxSends

VARIABLES server,        \* "up", "stopping" (listener closed), "stopped", "gaveUp"
          count,         \* requests in the limiter's window
          seen,          \* seen[d]: "no", "fresh" or "expired"
          handler,       \* handler[h]: [at, d]
          slots,         \* entries in the semaphore
          task,          \* task[i]: [d, status]; status "none" is no task
          worker,        \* worker[i]: the task's goroutine
          cleaner,       \* the clean-up goroutine runs
          accepted,      \* ghost: accepted[d], tasks accepted in d's window
          sends, expiries

taskVars == <<slots, task, worker>>
webhookVars == <<server, count, seen, handler, taskVars, cleaner, accepted, sends, expiries>>

Idle == [at |-> "idle"]
NoTask == [status |-> "none"]

WebhookInit ==
    /\ server = "up" /\ count = 0 /\ seen = [d \in Deliveries |-> "no"]
    /\ handler = [h \in Handlers |-> Idle]
    /\ slots = 0 /\ task = [i \in Ids |-> NoTask] /\ worker = [i \in Ids |-> "none"]
    /\ cleaner = TRUE /\ accepted = [d \in Deliveries |-> 0]
    /\ sends = 0 /\ expiries = 0

(* Some request of d has passed the authentication and is not answered.    *)
InHand(d) == \E h \in Handlers : handler[h].at \in {"find", "slot"} /\ handler[h].d = d
-----------------------------------------------------------------------------
(* A request                                                               *)

Answered(h) == handler' = [handler EXCEPT ![h] = Idle]

(* handleWebhook starts with the rate limiter.                             *)
receive(h, d) ==
    /\ server = "up" /\ handler[h].at = "idle" /\ sends < MaxSends /\ sends' = sends + 1
    /\ IF count < MaxReq
       THEN count' = count + 1 /\ handler' = [handler EXCEPT ![h] = [at |-> "auth", d |-> d]]
       ELSE UNCHANGED <<count, handler>>
    /\ UNCHANGED <<server, seen, taskVars, cleaner, accepted, expiries>>

SeenNow == {d \in Deliveries : seen[d] # "no"}
sweepAll == [d \in Deliveries |-> "no"]
sweepLocked == [d \in Deliveries |-> IF seen[d] = "expired" THEN "no" ELSE seen[d]]

(* verifySignature records the delivery; a replay is answered 401.         *)
Record(h) ==
    LET d == handler[h].d IN
    /\ handler[h].at = "auth"
    /\ IF seen[d] = "fresh"
       THEN Answered(h) /\ UNCHANGED seen
       ELSE /\ seen' = [(IF Cardinality(SeenNow) >= Limit THEN sweepLocked ELSE seen)
                        EXCEPT ![d] = "fresh"]
            /\ handler' = [handler EXCEPT ![h].at = "find"]
    /\ UNCHANGED <<server, count, taskVars, cleaner, accepted, sends, expiries>>

(* The workflow is looked up (404), then a slot is taken or 503 answered.  *)
takeSlot(h) ==
    /\ handler[h].at = "find"
    /\ \/ Answered(h) /\ UNCHANGED slots
       \/ IF slots < MaxTasks
          THEN slots' = slots + 1 /\ handler' = [handler EXCEPT ![h].at = "slot"]
          ELSE Answered(h) /\ UNCHANGED slots
    /\ UNCHANGED <<server, count, seen, task, worker, cleaner, accepted, sends, expiries>>

(* The task is added, its goroutine started, 202 answered.                 *)
addTask(h) ==
    LET d == handler[h].d
        i == CHOOSE n \in Ids : worker[n] = "none" IN
    /\ handler[h].at = "slot" /\ Answered(h)
    /\ task' = [task EXCEPT ![i] = [d |-> d, status |-> "pending"]]
    /\ worker' = [worker EXCEPT ![i] = "start"]
    /\ accepted' = [accepted EXCEPT ![d] = @ + 1]
    /\ UNCHANGED <<server, count, seen, slots, cleaner, sends, expiries>>
-----------------------------------------------------------------------------
(* A task's goroutine                                                      *)

(* updateTask: a task that is gone stays so.                               *)
Update(i, s) == task' = [task EXCEPT ![i] = IF @ = NoTask THEN @ ELSE [@ EXCEPT !.status = s]]

runTask(i) ==
    /\ worker[i] = "start" /\ worker' = [worker EXCEPT ![i] = "run"] /\ Update(i, "running")
    /\ UNCHANGED <<server, count, seen, handler, slots, cleaner, accepted, sends, expiries>>

endUnrecovered(i) ==
    /\ worker[i] = "run" /\ worker' = [worker EXCEPT ![i] = "end"]
    /\ Update(i, "completed") \/ UNCHANGED task
    /\ UNCHANGED <<server, count, seen, handler, slots, cleaner, accepted, sends, expiries>>

(* completeTask, from runTask's ends or from the recovery of its panic.    *)
completeTask(i) ==
    /\ worker[i] = "run" /\ worker' = [worker EXCEPT ![i] = "end"]
    /\ \E s \in {"completed", "failed"} : Update(i, s)
    /\ UNCHANGED <<server, count, seen, handler, slots, cleaner, accepted, sends, expiries>>

(* The deferred release of the slot, and wg.Done.                          *)
release(i) ==
    /\ worker[i] = "end" /\ worker' = [worker EXCEPT ![i] = "gone"] /\ slots' = slots - 1
    /\ UNCHANGED <<server, count, seen, handler, task, cleaner, accepted, sends, expiries>>

(* cleanupTasks: finished tasks of sufficient age leave the map.           *)
cleanupTasks ==
    /\ cleaner /\ server # "stopped" /\ expiries < MaxExpiries /\ expiries' = expiries + 1
    /\ \E old \in SUBSET {i \in Ids : task[i].status \in {"completed", "failed"}} :
          task' = [i \in Ids |-> IF i \in old THEN NoTask ELSE task[i]]
    /\ UNCHANGED <<server, count, seen, handler, slots, worker, cleaner, accepted, sends>>
cleanupStops ==
    /\ cleaner /\ server # "up" /\ cleaner' = FALSE
    /\ UNCHANGED <<server, count, seen, handler, taskVars, accepted, sends, expiries>>
-----------------------------------------------------------------------------
(* Time, and Stop                                                          *)

ExpireWindow ==
    /\ expiries < MaxExpiries /\ expiries' = expiries + 1 /\ count' = 0
    /\ UNCHANGED <<server, seen, handler, taskVars, cleaner, accepted, sends>>

(* Handling a request takes far less than a delivery's window.             *)
ExpireDelivery(d) ==
    /\ seen[d] = "fresh" /\ ~InHand(d) /\ expiries < MaxExpiries /\ expiries' = expiries + 1
    /\ seen' = [seen EXCEPT ![d] = "expired"] /\ accepted' = [accepted EXCEPT ![d] = 0]
    /\ UNCHANGED <<server, count, handler, taskVars, cleaner, sends>>

Stop ==
    /\ server = "up" /\ server' = "stopping"
    /\ UNCHANGED <<count, seen, handler, taskVars, cleaner, accepted, sends, expiries>>

(* Shutdown waits for the requests in hand or gives up; then Stop waits    *)
(* for the goroutines.                                                     *)
Drained == \A h \in Handlers : handler[h].at = "idle"
StopReturns ==
    /\ server = "stopping"
    /\ \/ Drained /\ ~cleaner /\ (\A i \in Ids : worker[i] \in {"none", "gone"}) /\ server' = "stopped"
       \/ ~Drained /\ server' = "gaveUp"
    /\ UNCHANGED <<count, seen, handler, taskVars, cleaner, accepted, sends, expiries>>

WebhookNext ==
    \/ \E h \in Handlers : (\E d \in Deliveries : receive(h, d)) \/ Record(h) \/ takeSlot(h) \/ addTask(h)
    \/ \E i \in Ids : runTask(i) \/ completeTask(i) \/ release(i)
    \/ cleanupTasks \/ cleanupStops \/ ExpireWindow \/ (\E d \in Deliveries : ExpireDelivery(d))
    \/ Stop \/ StopReturns

WebhookSpec == WebhookInit /\ [][WebhookNext]_webhookVars
-----------------------------------------------------------------------------
(* However often and however concurrently a delivery arrives, and however  *)
(* full the cache is, one task at most is started for it in its window     *)
(* (deliveryCache: "a verbatim replay of the same delivery is rejected").  *)
OncePerDelivery == \A d \in Deliveries : accepted[d] <= 1

(* When Stop has returned without an error, every task that was accepted   *)
(* has its final status and no slot is left taken (Stop waits for the      *)
(* requests in hand and then for the tasks; a panic is recorded as a       *)
(* failure).                                                               *)
StopSettles ==
    server = "stopped" =>
        /\ slots = 0
        /\ \A i \in Ids : task[i].status \notin {"pending", "running"}
=============================================================================
