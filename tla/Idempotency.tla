---------------------------- MODULE Idempotency ----------------------------
(***************************************************************************)
(* ExecuteWithTrace (internal/workflow/executor_executor.go) over the file *)
(* store of idempotency.go, for one key: Check, Reserve under the lock     *)
(* file shared by all processes, the run, and Record.  Every executor has  *)
(* a store of its own, so the store's mutex orders nothing here and each   *)
(* file operation is a step.  Ages are flags: a record goes past the TTL   *)
(* and a lock past crossProcessLockStale only once nobody is using it.     *)
(***************************************************************************)
EXTENDS Integers, FiniteSets

CONSTANTS
    Clients,        \* callers of ExecuteWithTrace
    MayFail,        \* whether reads and writes of the store can fail
    MayRekey,       \* whether a record can fail the check of its HMAC
    MayExpire,      \* whether records reach the TTL
    MayCrash,       \* whether a process can die outside Reserve's lock
    MayCrashLocked, \* whether one can die while it holds the lock
    MaxRuns         \* bound on the calls of Reserve

ASSUME IdempotencyAssumption ==
    /\ MayFail \in BOOLEAN /\ MayRekey \in BOOLEAN /\ MayExpire \in BOOLEAN
    /\ MayCrash \in BOOLEAN /\ MayCrashLocked \in BOOLEAN
    /\ MaxRuns \in Nat
    /\ IsFiniteSet(Clients)

Runs == 1 .. MaxRuns
NoRecord == [status |-> "none", run |-> 0, age |-> "fresh"]
NoLock == [state |-> "free", by |-> 0]

VARIABLES
    record,     \* the record file of the key
    lock,       \* the lock file of the key, made by a run
    pc,         \* per client, where it is in ExecuteWithTrace
    run,        \* per client, the run id it generated
    outcome,    \* per client, "hit", "rejected", "won", "failed", ... of its last call
    answer,     \* per client, the record it was answered with
    lastRun,    \* run ids given out
    succeeded,  \* history: runs that executed to the end without an error
    cut         \* history: runs that a shutdown ended early, without an error

vars == <<record, lock, pc, run, outcome, answer, lastRun, succeeded, cut>>

\* A client between the lock's creation and its removal.
InLock(c) == pc[c] \in {"read", "write", "release"}

\* A client that owns the key.
Owns(c) == pc[c] \in {"run", "record"} \/ (pc[c] = "release" /\ outcome[c] = "won")

Go(c, place) == pc' = [pc EXCEPT ![c] = place]

\* ExecuteWithTrace knows how it will answer.
Answer(c, how, place) ==
    /\ outcome' = [outcome EXCEPT ![c] = how]
    /\ answer' = [answer EXCEPT ![c] = record]
    /\ Go(c, place)

Init ==
    /\ record = NoRecord /\ lock = NoLock
    /\ pc = [c \in Clients |-> "idle"]
    /\ run = [c \in Clients |-> 0]
    /\ outcome = [c \in Clients |-> "none"]
    /\ answer = [c \in Clients |-> NoRecord]
    /\ lastRun = 0
    /\ succeeded = {} /\ cut = {}

-----------------------------------------------------------------------------
(* Check *)

\* Calls that will still take a run id.
Waiting == {c \in Clients : pc[c] \in {"reap", "reserve"}}

\* The read: an expired record is to be reaped, a failed read is ignored, and
\* a record with another HMAC, of a process with another key, is not found.
CheckRead(c) ==
    /\ pc[c] = "idle" /\ lastRun + Cardinality(Waiting) < MaxRuns
    /\ \/ record.age = "old" /\ Go(c, "reap") /\ UNCHANGED <<outcome, answer>>
       \/ record.age = "fresh" /\ record.status = "completed" /\ Answer(c, "hit", "idle")
       \/ record.age = "fresh" /\ record.status = "in_progress" /\ Answer(c, "rejected", "idle")
       \/ /\ record.status \in {"none", "failed"} \/ MayFail \/ MayRekey
          /\ Go(c, "reserve")
          /\ UNCHANGED <<outcome, answer>>
    /\ UNCHANGED <<record, lock, run, lastRun, succeeded, cut>>

\* Removes the file that is there now.
CheckReap(c) ==
    /\ pc[c] = "reap"
    /\ record' = NoRecord
    /\ Go(c, "reserve")
    /\ UNCHANGED <<lock, run, outcome, answer, lastRun, succeeded, cut>>

-----------------------------------------------------------------------------
(* Reserve *)

ReserveStart(c) ==
    /\ pc[c] = "reserve"
    /\ lastRun' = lastRun + 1
    /\ run' = [run EXCEPT ![c] = lastRun + 1]
    /\ Go(c, "lock")
    /\ UNCHANGED <<record, lock, outcome, answer, succeeded, cut>>

CreateLock(c) ==
    /\ pc[c] = "lock" /\ lock.state = "free"
    /\ lock' = [state |-> "held", by |-> run[c]]
    /\ Go(c, "read")
    /\ UNCHANGED <<record, run, outcome, answer, lastRun, succeeded, cut>>

\* The lock looks orphaned; removing it is a step of its own.
StatLock(c) ==
    /\ pc[c] = "lock" /\ lock.state = "stale"
    /\ Go(c, "reclaim")
    /\ UNCHANGED <<record, lock, run, outcome, answer, lastRun, succeeded, cut>>

ReclaimLock(c) ==
    /\ pc[c] = "reclaim"
    /\ lock' = NoLock
    /\ Go(c, "lock")
    /\ UNCHANGED <<record, run, outcome, answer, lastRun, succeeded, cut>>

\* Mutant: Reserve polls for the lock without a deadline.
LockTimeoutNever(c) == FALSE

\* The deadline passes, or the lock file cannot be created at all.
LockTimeout(c) ==
    /\ pc[c] = "lock"
    /\ lock.state # "free" \/ MayFail
    /\ Answer(c, "error", "idle")
    /\ UNCHANGED <<record, lock, run, lastRun, succeeded, cut>>

\* Mutant: an in_progress record is taken over.
ReserveReadTakesOver(c) ==
    /\ pc[c] = "read"
    /\ Go(c, "write")
    /\ UNCHANGED <<record, lock, run, outcome, answer, lastRun, succeeded, cut>>

\* Mutant: what completed since Check is not looked for again.
ReserveReadReruns(c) ==
    /\ pc[c] = "read"
    /\ \/ record.status # "in_progress" /\ Go(c, "write") /\ UNCHANGED <<outcome, answer>>
       \/ record.status = "in_progress" /\ Answer(c, "rejected", "release")
    /\ UNCHANGED <<record, lock, run, lastRun, succeeded, cut>>

\* The authoritative read; an expired record is removed, one with another HMAC
\* counts as none.
ReserveRead(c) ==
    /\ pc[c] = "read"
    /\ \/ /\ record.age = "old"
          /\ record' = NoRecord
          /\ Go(c, "write")
          /\ UNCHANGED <<outcome, answer>>
       \/ /\ (record.status \in {"none", "failed"} /\ record.age = "fresh") \/ MayRekey
          /\ Go(c, "write")
          /\ UNCHANGED <<record, outcome, answer>>
       \/ /\ record.status = "completed" /\ record.age = "fresh"
          /\ Answer(c, "hit", "release")
          /\ UNCHANGED record
       \/ /\ record.status = "in_progress" /\ record.age = "fresh"
          /\ Answer(c, "rejected", "release")
          /\ UNCHANGED record
       \/ MayFail /\ Answer(c, "error", "release") /\ UNCHANGED record
    /\ UNCHANGED <<lock, run, lastRun, succeeded, cut>>

ReserveWrite(c) ==
    /\ pc[c] = "write"
    /\ \/ /\ record' = [status |-> "in_progress", run |-> run[c], age |-> "fresh"]
          /\ Answer(c, "won", "release")
       \/ MayFail /\ Answer(c, "error", "release") /\ UNCHANGED record
    /\ UNCHANGED <<lock, run, lastRun, succeeded, cut>>

\* The deferred release removes the lock file, whoever made it.
Release(c) ==
    /\ pc[c] = "release"
    /\ lock' = NoLock
    /\ Go(c, IF outcome[c] = "won" THEN "run" ELSE "idle")
    /\ UNCHANGED <<record, run, outcome, answer, lastRun, succeeded, cut>>

-----------------------------------------------------------------------------
(* The run and its record *)

\* The workflow runs to the end, or a shutdown of the process ends its loop
\* before the last step: no error either way.
ExecuteWorkflow(c) ==
    /\ pc[c] = "run"
    /\ Go(c, "record")
    /\ \/ /\ outcome' = [outcome EXCEPT ![c] = "completed"]
          /\ succeeded' = succeeded \cup {run[c]}
          /\ UNCHANGED cut
       \/ /\ outcome' = [outcome EXCEPT ![c] = "completed"]
          /\ cut' = cut \cup {run[c]}
          /\ UNCHANGED succeeded
       \/ /\ outcome' = [outcome EXCEPT ![c] = "failed"]
          /\ UNCHANGED <<succeeded, cut>>
    /\ UNCHANGED <<record, lock, run, answer, lastRun>>

\* Mutant: the record of a failed run is written as completed.
RecordAlwaysCompleted(c) ==
    /\ pc[c] = "record"
    /\ record' = [status |-> "completed", run |-> run[c], age |-> "fresh"]
    /\ Go(c, "idle")
    /\ UNCHANGED <<lock, run, outcome, answer, lastRun, succeeded, cut>>

Record(c) ==
    /\ pc[c] = "record"
    /\ \/ record' = [status |-> outcome[c], run |-> run[c], age |-> "fresh"]
       \/ MayFail /\ UNCHANGED record
    /\ Go(c, "idle")
    /\ UNCHANGED <<lock, run, outcome, answer, lastRun, succeeded, cut>>

-----------------------------------------------------------------------------
(* The environment *)

\* The process of c dies; its files stay.
Crash(c) ==
    /\ pc[c] # "idle"
    /\ IF InLock(c) THEN MayCrashLocked ELSE MayCrash
    /\ Go(c, "idle")
    /\ outcome' = [outcome EXCEPT ![c] = "crashed"]
    /\ UNCHANGED <<record, lock, run, answer, lastRun, succeeded, cut>>

LockAges ==
    /\ lock.state = "held"
    /\ \A c \in Clients : InLock(c) => run[c] # lock.by
    /\ lock' = [lock EXCEPT !.state = "stale"]
    /\ UNCHANGED <<record, pc, run, outcome, answer, lastRun, succeeded, cut>>

RecordAges ==
    /\ MayExpire
    /\ record.status # "none" /\ record.age = "fresh"
    /\ \A c \in Clients : Owns(c) => run[c] # record.run
    /\ record' = [record EXCEPT !.age = "old"]
    /\ UNCHANGED <<lock, pc, run, outcome, answer, lastRun, succeeded, cut>>

Client(c) ==
    \/ CheckRead(c) \/ CheckReap(c)
    \/ ReserveStart(c) \/ CreateLock(c) \/ StatLock(c) \/ ReclaimLock(c)
    \/ LockTimeout(c) \/ ReserveRead(c) \/ ReserveWrite(c) \/ Release(c)
    \/ ExecuteWorkflow(c) \/ Record(c)

\* The bound on the calls is reached.
Finished ==
    /\ \A c \in Clients : pc[c] = "idle"
    /\ lastRun = MaxRuns
    /\ UNCHANGED vars

Next ==
    \/ \E c \in Clients : Client(c) \/ Crash(c)
    \/ LockAges
    \/ RecordAges
    \/ Finished

\* A call once made goes on: its steps are local, and the wait has a deadline.
Proceed(c) == pc[c] # "idle" /\ Client(c)

Fairness == \A c \in Clients : WF_vars(Proceed(c))

Spec == Init /\ [][Next]_vars /\ Fairness

-----------------------------------------------------------------------------
(* Properties *)

Statuses == {"none", "in_progress", "completed", "failed"}
RecordFile == [status : Statuses, run : Runs \cup {0}, age : {"fresh", "old"}]

\* The types of the store's files and of the callers' state; only a run that
\* exists makes a record or a lock.
TypeOK ==
    /\ record \in RecordFile /\ (record.status = "none") = (record.run = 0)
    /\ lock \in [state : {"free", "held", "stale"}, by : Runs \cup {0}]
    /\ (lock.state = "free") = (lock.by = 0)
    /\ pc \in [Clients -> {"idle", "reap", "reserve", "lock", "reclaim", "read", "write",
                          "release", "run", "record"}]
    /\ run \in [Clients -> Runs \cup {0}]
    /\ outcome \in [Clients -> {"none", "hit", "rejected", "error", "won", "completed",
                               "failed", "crashed"}]
    /\ answer \in [Clients -> RecordFile]
    /\ lastRun \in 0 .. MaxRuns
    /\ succeeded \subseteq Runs /\ cut \subseteq Runs

\* Reserve lets one caller run at a time: no two runs of the workflow for the
\* same key overlap, in any number of processes.
AtMostOneRun == \A c, d \in Clients : pc[c] = "run" /\ pc[d] = "run" => c = d

\* For as long as a run executes, the key's record is its own claim, so every
\* other trigger is turned away until it ends.
OwnedWhileRunning ==
    \A c \in Clients :
        pc[c] = "run" => record.status = "in_progress" /\ record.run = run[c]

\* A cache hit is served from the record of a run whose workflow returned and
\* returned no error (executor_executor.go:365), never from a failed, rejected
\* or crashed one.  That is a run that executed to the end, or one that a
\* shutdown cut short (executor_seq.go:265): its output so far is then what
\* later triggers are served.
HitIsGenuine ==
    \A c \in Clients : outcome[c] = "hit" => answer[c].run \in succeeded \cup cut

\* Every call returns: the wait for the lock of a live, dead or stuck process
\* ends by its deadline.
CallReturns == \A c \in Clients : pc[c] # "idle" ~> pc[c] = "idle"

\* The record as the ledger sees it, and the runs that own the key.
LedgerRecord == IF record.age = "old" THEN [status |-> "none", run |-> 0]
                ELSE [status |-> record.status, run |-> record.run]
Owners == {run[c] : c \in {d \in Clients : Owns(d)}}

Ledger == INSTANCE IdempotencyLedger WITH rec <- LedgerRecord, running <- Owners

\* The file store implements the store that is kept in memory under a mutex:
\* its lock file makes Reserve's read and write one step for all processes.
ImplementsLedger == Ledger!Spec
=============================================================================
