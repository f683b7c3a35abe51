---------------------------- MODULE RecordProofs ----------------------------
(***************************************************************************)
(* What is on record: the idempotency store and the audit chain, whose     *)
(* writers take turns by lock files, the compensations of a saga, and the  *)
(* books of the agent daemon over its tasks.                               *)
(***************************************************************************)
EXTENDS Idempotency, AuditChain, Saga, AgentDaemon, FiniteSetTheorems, TLAPS

-----------------------------------------------------------------------------
(* Sequences *)

\* An element of a sequence.
LEMMA ElementOfSeq ==
    ASSUME NEW S, NEW q \in Seq(S), NEW i \in 1 .. Len(q)
    PROVE  q[i] \in S
OBVIOUS

\* The empty sequence.
LEMMA EmptySeq ==
    ASSUME NEW S
    PROVE  <<>> \in Seq(S) /\ Len(<<>>) = 0 /\ \A q \in Seq(S) : q # <<>> => Len(q) \in Nat \ {0}
OBVIOUS

\* A sequence is a function on the numbers up to its length.
LEMMA LenProperties ==
    ASSUME NEW S, NEW q \in Seq(S)
    PROVE  Len(q) \in Nat /\ DOMAIN q = 1 .. Len(q) /\ q \in [1 .. Len(q) -> S]
OBVIOUS

\* A sequence with one element replaced.
LEMMA ExceptSeq ==
    ASSUME NEW S, NEW q \in Seq(S), NEW i \in 1 .. Len(q), NEW e \in S
    PROVE  /\ [q EXCEPT ![i] = e] \in Seq(S) /\ Len([q EXCEPT ![i] = e]) = Len(q)
           /\ \A j \in 1 .. Len(q) : [q EXCEPT ![i] = e][j] = IF j = i THEN e ELSE q[j]
OBVIOUS

\* What SubSeq does.
LEMMA SubSeqProperties ==
    ASSUME NEW S, NEW q, NEW m \in Int, NEW n \in Int, \A i \in m .. n : q[i] \in S
    PROVE  /\ SubSeq(q, m, n) \in Seq(S) /\ Len(SubSeq(q, m, n)) = IF m <= n THEN n - m + 1 ELSE 0
           /\ \A i \in 1 .. n - m + 1 : SubSeq(q, m, n)[i] = q[m + i - 1]
OBVIOUS

\* What Head and Tail do.
LEMMA HeadTailProperties ==
    ASSUME NEW S, NEW q \in Seq(S), q # <<>>
    PROVE  /\ Head(q) \in S /\ Tail(q) \in Seq(S) /\ Len(Tail(q)) = Len(q) - 1
           /\ \A i \in 1 .. Len(Tail(q)) : Tail(q)[i] = q[i + 1]
OBVIOUS

\* What Append does.
LEMMA AppendProperties ==
    ASSUME NEW S, NEW q \in Seq(S), NEW e \in S
    PROVE  /\ Append(q, e) \in Seq(S) /\ Append(q, e) # <<>> /\ Len(Append(q, e)) = Len(q) + 1
           /\ Append(q, e)[Len(q) + 1] = e /\ \A i \in 1 .. Len(q) : Append(q, e)[i] = q[i]
OBVIOUS

-----------------------------------------------------------------------------
(* The idempotency store                                                   *)

\* Where a client can be between two of its steps.
Places == {"idle", "reap", "reserve", "lock", "reclaim", "read", "write", "release",
           "run", "record"}
\* What a call can have returned, or none yet.
Outcomes == {"none", "hit", "rejected", "error", "won", "completed", "failed", "crashed"}

\* The types of the variables.
Shapes ==
    /\ record \in [status : Statuses, run : Nat, age : {"fresh", "old"}]
    /\ lock \in [state : {"free", "held", "stale"}, by : Nat]
    /\ pc \in [Clients -> Places]
    /\ run \in [Clients -> Nat]
    /\ outcome \in [Clients -> Outcomes]
    /\ lastRun \in Nat

\* Nothing ages, so nothing is reaped or reclaimed.
Fresh ==
    /\ record.age = "fresh"
    /\ lock.state # "stale"
    /\ \A c \in Clients : pc[c] # "reap" /\ pc[c] # "reclaim"

\* A run id belongs to one call.
RunIds ==
    /\ \A c \in Clients : run[c] <= lastRun
    /\ \A c, d \in Clients : c # d => run[c] # run[d] \/ run[c] = 0
    /\ \A c \in Clients : pc[c] \notin {"idle", "reserve"} => run[c] # 0

\* The lock file is the lock of the client inside.
LockInv ==
    /\ \A c \in Clients : InLock(c) => lock.state = "held" /\ lock.by = run[c]
    /\ lock.state = "held" => \E c \in Clients : InLock(c) /\ lock.by = run[c]

\* The record is the claim of the client that owns the key; one about to claim
\* it has found no claim.
ClaimInv ==
    /\ \A c \in Clients : Owns(c) => record.status = "in_progress" /\ record.run = run[c]
    /\ \A c \in Clients : pc[c] = "write" => record.status \in {"none", "failed"}
    /\ \A c \in Clients : pc[c] = "record" => outcome[c] \in {"completed", "failed"}

\* The inductive invariant of Reserve.
KeyInv == Shapes /\ Fresh /\ RunIds /\ LockInv /\ ClaimInv

\* At most one client is inside the lock, and at most one owns the key.
LEMMA Exclusive ==
    ASSUME KeyInv, NEW c \in Clients, NEW d \in Clients, c # d
    PROVE  ~(InLock(c) /\ InLock(d)) /\ ~(Owns(c) /\ Owns(d)) /\ ~(pc[c] = "write" /\ Owns(d))
<1>1. InLock(c) => run[c] # 0
    BY Zenon DEF KeyInv, RunIds, InLock
<1>2. Owns(c) => run[c] # 0
    BY Zenon DEF KeyInv, RunIds, Owns
<1>3. run[c] # run[d] \/ run[c] = 0
    BY Zenon DEF KeyInv, RunIds
<1>4. ~(InLock(c) /\ InLock(d))
    BY Zenon, <1>1, <1>3 DEF KeyInv, LockInv
<1>5. ~(Owns(c) /\ Owns(d))
    BY Zenon, <1>2, <1>3 DEF KeyInv, ClaimInv
<1>6. ~(pc[c] = "write" /\ Owns(d))
    BY Zenon DEF KeyInv, ClaimInv
<1> QED BY Zenon, <1>4, <1>5, <1>6

\* It holds in the initial state.
LEMMA KeyInit == Init => KeyInv
BY DEF Init, KeyInv, Shapes, Fresh, RunIds, LockInv, ClaimInv, InLock, Owns, NoRecord, NoLock,
       Statuses, Places, Outcomes

\* Reading the record in Check.
LEMMA KeyCheckRead == ASSUME KeyInv, NEW c \in Clients, CheckRead(c) PROVE KeyInv'
<1>1. Shapes'
    BY DEF KeyInv, Shapes, CheckRead, Answer, Go, Fresh, Statuses, Places, Outcomes
<1>2. Fresh'
    BY Zenon DEF KeyInv, Shapes, Fresh, CheckRead, Answer, Go, Fresh
<1>3. RunIds'
    BY DEF KeyInv, Shapes, RunIds, CheckRead, Answer, Go, Fresh
<1>4. LockInv'
    BY Exclusive DEF KeyInv, Shapes, RunIds, LockInv, InLock, CheckRead, Answer, Go, Fresh
<1>5. ClaimInv'
    BY Exclusive DEF KeyInv, Shapes, ClaimInv, Owns, CheckRead, Answer, Go, Fresh
<1> QED BY Zenon, <1>1, <1>2, <1>3, <1>4, <1>5 DEF KeyInv

\* Taking a run id.
LEMMA KeyReserveStart == ASSUME KeyInv, NEW c \in Clients, ReserveStart(c) PROVE KeyInv'
<1>1. Shapes'
    BY DEF KeyInv, Shapes, ReserveStart, Go, Statuses, Places, Outcomes
<1>2. Fresh'
    BY Zenon DEF KeyInv, Shapes, Fresh, ReserveStart, Go
<1>3. RunIds'
    BY DEF KeyInv, Shapes, RunIds, ReserveStart, Go
<1>4. LockInv'
    BY Zenon, Exclusive DEF KeyInv, Shapes, RunIds, LockInv, InLock, ReserveStart, Go
<1>5. ClaimInv'
    BY Exclusive DEF KeyInv, Shapes, ClaimInv, Owns, ReserveStart, Go
<1> QED BY Zenon, <1>1, <1>2, <1>3, <1>4, <1>5 DEF KeyInv

\* Creating the lock file.
LEMMA KeyCreateLock == ASSUME KeyInv, NEW c \in Clients, CreateLock(c) PROVE KeyInv'
<1>1. Shapes'
    BY Zenon DEF KeyInv, Shapes, CreateLock, Go, Statuses, Places, Outcomes
<1>2. Fresh'
    BY Zenon DEF KeyInv, Shapes, Fresh, CreateLock, Go
<1>3. RunIds'
    BY Zenon DEF KeyInv, Shapes, RunIds, CreateLock, Go
<1>4. LockInv'
    BY Zenon, Exclusive DEF KeyInv, Shapes, RunIds, LockInv, InLock, CreateLock, Go
<1>5. ClaimInv'
    BY Exclusive DEF KeyInv, Shapes, ClaimInv, Owns, CreateLock, Go
<1> QED BY Zenon, <1>1, <1>2, <1>3, <1>4, <1>5 DEF KeyInv

\* Giving up on the lock.
LEMMA KeyLockTimeout == ASSUME KeyInv, NEW c \in Clients, LockTimeout(c) PROVE KeyInv'
<1>1. Shapes'
    BY Zenon DEF KeyInv, Shapes, LockTimeout, Answer, Go, Statuses, Places, Outcomes
<1>2. Fresh'
    BY Zenon DEF KeyInv, Shapes, Fresh, LockTimeout, Answer, Go
<1>3. RunIds'
    BY Zenon DEF KeyInv, Shapes, RunIds, LockTimeout, Answer, Go
<1>4. LockInv'
    BY Zenon, Exclusive DEF KeyInv, Shapes, RunIds, LockInv, InLock, LockTimeout, Answer, Go
<1>5. ClaimInv'
    BY Exclusive DEF KeyInv, Shapes, ClaimInv, Owns, LockTimeout, Answer, Go
<1> QED BY Zenon, <1>1, <1>2, <1>3, <1>4, <1>5 DEF KeyInv

\* Reading the record under the lock.
LEMMA KeyReserveRead == ASSUME KeyInv, NEW c \in Clients, ReserveRead(c), ~MayRekey PROVE KeyInv'
<1>1. Shapes'
    BY DEF KeyInv, Shapes, ReserveRead, Answer, Go, Fresh, Statuses, Places, Outcomes
<1>2. Fresh'
    BY DEF KeyInv, Shapes, Fresh, ReserveRead, Answer, Go, Fresh
<1>3. RunIds'
    BY Zenon DEF KeyInv, Shapes, RunIds, ReserveRead, Answer, Go, Fresh
<1>4. LockInv'
    BY Exclusive DEF KeyInv, Shapes, RunIds, LockInv, InLock, ReserveRead, Answer, Go, Fresh
<1>5. ClaimInv'
    BY Exclusive DEF KeyInv, Shapes, ClaimInv, Owns, ReserveRead, Answer, Go, Fresh
<1> QED BY Zenon, <1>1, <1>2, <1>3, <1>4, <1>5 DEF KeyInv

\* Claiming the key.
LEMMA KeyReserveWrite == ASSUME KeyInv, NEW c \in Clients, ReserveWrite(c) PROVE KeyInv'
<1>1. Shapes'
    BY DEF KeyInv, Shapes, ReserveWrite, Answer, Go, Statuses, Places, Outcomes
<1>2. Fresh'
    BY DEF KeyInv, Shapes, Fresh, ReserveWrite, Answer, Go
<1>3. RunIds'
    BY Zenon DEF KeyInv, Shapes, RunIds, ReserveWrite, Answer, Go
<1>4. LockInv'
    BY Zenon, Exclusive DEF KeyInv, Shapes, RunIds, LockInv, InLock, ReserveWrite, Answer, Go
<1>5. ClaimInv'
    <2>1. \A d \in Clients : ~Owns(d)
        BY Zenon DEF KeyInv, ClaimInv, ReserveWrite
    <2>2. \A d \in Clients : d # c => pc[d] # "write" /\ ~Owns(d)'
        BY <2>1, Exclusive DEF KeyInv, Shapes, InLock, Owns, ReserveWrite, Answer, Go
    <2>3. pc'[c] = "release" /\ pc \in [Clients -> Places]
        BY Zenon DEF KeyInv, Shapes, ReserveWrite, Answer, Go
    <2>4. Owns(c)' => record'.status = "in_progress" /\ record'.run = run'[c]
        BY <2>3 DEF KeyInv, Shapes, Owns, ReserveWrite, Answer, Go
    <2>5. \A d \in Clients : pc'[d] # "write"
        BY Zenon, <2>2, <2>3 DEF KeyInv, Shapes, ReserveWrite, Answer, Go
    <2>6. \A d \in Clients : pc'[d] = "record" => outcome'[d] \in {"completed", "failed"}
        BY Zenon, <2>3 DEF KeyInv, Shapes, ClaimInv, ReserveWrite, Answer, Go
    <2> QED BY Zenon, <2>2, <2>4, <2>5, <2>6 DEF ClaimInv
<1> QED BY Zenon, <1>1, <1>2, <1>3, <1>4, <1>5 DEF KeyInv

\* Removing the lock file.
LEMMA KeyRelease == ASSUME KeyInv, NEW c \in Clients, Release(c) PROVE KeyInv'
<1>1. Shapes'
    BY Zenon DEF KeyInv, Shapes, Release, Go, NoLock, Statuses, Places, Outcomes
<1>2. Fresh'
    BY Zenon DEF KeyInv, Shapes, Fresh, Release, Go, NoLock
<1>3. RunIds'
    BY Zenon DEF KeyInv, Shapes, RunIds, Release, Go, NoLock
<1>4. LockInv'
    BY Zenon, Exclusive DEF KeyInv, Shapes, RunIds, LockInv, InLock, Release, Go, NoLock
<1>5. ClaimInv'
    BY Exclusive DEF KeyInv, Shapes, ClaimInv, Owns, Release, Go, NoLock
<1> QED BY Zenon, <1>1, <1>2, <1>3, <1>4, <1>5 DEF KeyInv

\* The run.
LEMMA KeyExecute == ASSUME KeyInv, NEW c \in Clients, ExecuteWorkflow(c) PROVE KeyInv'
<1>1. Shapes'
    BY Zenon DEF KeyInv, Shapes, ExecuteWorkflow, Go, Statuses, Places, Outcomes
<1>2. Fresh'
    BY Zenon DEF KeyInv, Shapes, Fresh, ExecuteWorkflow, Go
<1>3. RunIds'
    BY Zenon DEF KeyInv, Shapes, RunIds, ExecuteWorkflow, Go
<1>4. LockInv'
    BY Zenon, Exclusive DEF KeyInv, Shapes, RunIds, LockInv, InLock, ExecuteWorkflow, Go
<1>5. ClaimInv'
    BY Exclusive DEF KeyInv, Shapes, ClaimInv, Owns, ExecuteWorkflow, Go
<1> QED BY Zenon, <1>1, <1>2, <1>3, <1>4, <1>5 DEF KeyInv

\* Recording the result.
LEMMA KeyRecord == ASSUME KeyInv, NEW c \in Clients, Record(c) PROVE KeyInv'
<1>1. Shapes'
    BY DEF KeyInv, Shapes, ClaimInv, Record, Go, Statuses, Places, Outcomes
<1>2. Fresh'
    BY DEF KeyInv, Shapes, Fresh, Record, Go
<1>3. RunIds'
    BY Zenon DEF KeyInv, Shapes, RunIds, Record, Go
<1>4. LockInv'
    BY Zenon, Exclusive DEF KeyInv, Shapes, RunIds, LockInv, InLock, Record, Go
<1>5. ClaimInv'
    BY Exclusive DEF KeyInv, Shapes, ClaimInv, Owns, Record, Go
<1> QED BY Zenon, <1>1, <1>2, <1>3, <1>4, <1>5 DEF KeyInv

\* The death of a process outside the lock.
LEMMA KeyCrash == ASSUME KeyInv, NEW c \in Clients, Crash(c), ~MayCrashLocked PROVE KeyInv'
<1>1. Shapes'
    BY Zenon DEF KeyInv, Shapes, Crash, Go, Statuses, Places, Outcomes
<1>2. Fresh'
    BY Zenon DEF KeyInv, Shapes, Fresh, Crash, Go
<1>3. RunIds'
    BY Zenon DEF KeyInv, Shapes, RunIds, Crash, Go
<1>4. LockInv'
    BY Zenon, Exclusive DEF KeyInv, Shapes, RunIds, LockInv, InLock, Crash, Go
<1>5. ClaimInv'
    BY Exclusive DEF KeyInv, Shapes, ClaimInv, Owns, Crash, Go
<1> QED BY Zenon, <1>1, <1>2, <1>3, <1>4, <1>5 DEF KeyInv

\* The other steps cannot happen, or change nothing.
LEMMA KeyNext ==
    ASSUME KeyInv, [Next]_vars, ~MayCrashLocked, ~MayExpire, ~MayRekey
    PROVE  KeyInv'
<1>1. ASSUME NEW c \in Clients, Client(c) PROVE KeyInv'
    <2>1. ~CheckReap(c) /\ ~StatLock(c) /\ ~ReclaimLock(c)
        BY Zenon DEF KeyInv, Fresh, CheckReap, StatLock, ReclaimLock
    <2> QED BY Zenon, <1>1, <2>1, KeyCheckRead, KeyReserveStart, KeyCreateLock, KeyLockTimeout,
               KeyReserveRead, KeyReserveWrite, KeyRelease, KeyExecute, KeyRecord DEF Client
<1>2. ASSUME NEW c \in Clients, Crash(c) PROVE KeyInv'
    BY Zenon, <1>2, KeyCrash
<1>3. ~LockAges /\ ~RecordAges
    BY Zenon DEF KeyInv, LockInv, LockAges, RecordAges
<1>4. CASE UNCHANGED vars
    BY <1>4 DEF vars, KeyInv, Shapes, Fresh, RunIds, LockInv, ClaimInv, InLock, Owns
<1> QED BY Zenon, <1>1, <1>2, <1>3, <1>4 DEF Next, Finished

\* The invariant holds of every behaviour: it ties the lock file to the client
\* inside Reserve and the record to the client that runs.
THEOREM KeyInvariance ==
    ASSUME ~MayCrashLocked, ~MayExpire, ~MayRekey
    PROVE  Spec => []KeyInv
<1>1. KeyInv /\ [Next]_vars => KeyInv'
    BY Zenon, KeyNext
<1> QED BY <1>1, KeyInit, PTL DEF Spec

\* No two runs for one key overlap (AtMostOneRun), for any number of callers and
\* of calls, whatever reads and writes fail and whoever dies outside the lock.
THEOREM ReserveExcludes ==
    ASSUME ~MayCrashLocked, ~MayExpire, ~MayRekey
    PROVE  Spec => []AtMostOneRun
<1>1. KeyInv => AtMostOneRun
    BY Zenon, Exclusive DEF AtMostOneRun, Owns
<1> QED BY <1>1, KeyInvariance, PTL

\* A run that executes is the one the record names (OwnedWhileRunning), so the
\* triggers that come meanwhile are turned away.
THEOREM ClaimStands ==
    ASSUME ~MayCrashLocked, ~MayExpire, ~MayRekey
    PROVE  Spec => []OwnedWhileRunning
<1>1. KeyInv => OwnedWhileRunning
    BY Zenon DEF KeyInv, ClaimInv, OwnedWhileRunning, Owns
<1> QED BY <1>1, KeyInvariance, PTL

-----------------------------------------------------------------------------
(* Cache hits, with every fault *)

\* A completed record, and a caller about to write one, name a run that
\* returned no error; so does every hit that was served.
HitInv ==
    /\ Shapes
    /\ answer \in [Clients -> [status : Statuses, run : Nat, age : {"fresh", "old"}]]
    /\ record.status = "completed" => record.run \in succeeded \cup cut
    /\ \A c \in Clients :
          pc[c] = "record" => /\ outcome[c] \in {"completed", "failed"}
                              /\ outcome[c] = "completed" => run[c] \in succeeded \cup cut
    /\ HitIsGenuine

\* The disjuncts of the two steps that read and write under the lock.
LEMMA UnderLock ==
    ASSUME NEW c \in Clients, ReserveRead(c) \/ ReserveWrite(c)
    PROVE  /\ \/ UNCHANGED record
              \/ record' = NoRecord
              \/ record' = [status |-> "in_progress", run |-> run[c], age |-> "fresh"]
           /\ UNCHANGED <<lock, run, lastRun, succeeded, cut>>
           /\ \/ Go(c, "write") /\ UNCHANGED <<outcome, answer>>
              \/ record.status = "completed" /\ Answer(c, "hit", "release")
              \/ \E how \in {"rejected", "error", "won"} : Answer(c, how, "release")
BY Zenon DEF ReserveRead, ReserveWrite

\* The steps that leave the record and the sets of runs alone.
LEMMA HitWaiting ==
    ASSUME HitInv, NEW c \in Clients,
           \/ CheckRead(c) \/ ReserveStart(c) \/ CreateLock(c) \/ StatLock(c)
           \/ ReclaimLock(c) \/ LockTimeout(c) \/ Release(c) \/ Crash(c)
    PROVE  HitInv'
<1> USE DEF HitInv, Shapes, HitIsGenuine, Answer, Go, Statuses, Places, Outcomes, NoLock
<1>1. CASE CheckRead(c)
    BY SMTT(60), <1>1 DEF CheckRead
<1>2. CASE ReserveStart(c)
    BY <1>2 DEF ReserveStart
<1>3. CASE CreateLock(c)
    BY Zenon, <1>3 DEF CreateLock
<1>4. CASE StatLock(c) \/ ReclaimLock(c)
    BY <1>4 DEF StatLock, ReclaimLock
<1>5. CASE LockTimeout(c)
    BY <1>5 DEF LockTimeout
<1>6. CASE Release(c)
    BY <1>6 DEF Release
<1>7. CASE Crash(c)
    BY <1>7 DEF Crash
<1> QED BY Zenon, <1>1, <1>2, <1>3, <1>4, <1>5, <1>6, <1>7

\* The steps that change them.
LEMMA HitWriting ==
    ASSUME HitInv, NEW c \in Clients,
           \/ CheckReap(c) \/ ReserveRead(c) \/ ReserveWrite(c)
           \/ ExecuteWorkflow(c) \/ Record(c)
    PROVE  HitInv'
<1> USE DEF HitInv, Shapes, HitIsGenuine, Answer, Go, Statuses, Places, Outcomes, NoRecord
<1>1. CASE CheckReap(c)
    BY Zenon, <1>1 DEF CheckReap
<1>2. CASE ReserveRead(c) \/ ReserveWrite(c)
    <2>0. UNCHANGED <<lock, run, lastRun, succeeded, cut>>
        BY Zenon, <1>2, UnderLock
    <2>1. record' \in [status : Statuses, run : Nat, age : {"fresh", "old"}]
        BY <1>2, UnderLock
    <2>2. record'.status = "completed" => record'.run \in (succeeded \cup cut)'
        BY <1>2, UnderLock
    <2>3. CASE Go(c, "write") /\ UNCHANGED <<outcome, answer>>
        BY <2>0, <2>1, <2>2, <2>3
    <2>4. CASE record.status = "completed" /\ Answer(c, "hit", "release")
        BY <2>0, <2>1, <2>2, <2>4
    <2>5. ASSUME NEW how \in {"rejected", "error", "won"}, Answer(c, how, "release") PROVE HitInv'
        BY <2>0, <2>1, <2>2, <2>5
    <2> QED BY <1>2, <2>3, <2>4, <2>5, UnderLock
<1>3. CASE ExecuteWorkflow(c)
    BY SMTT(60), <1>3 DEF ExecuteWorkflow
<1>4. CASE Record(c)
    BY <1>4 DEF Record
<1> QED BY Zenon, <1>1, <1>2, <1>3, <1>4

\* Every step keeps a completed record that of a run without an error, also an expiry or a crash.
LEMMA HitNext == ASSUME HitInv, [Next]_vars PROVE HitInv'
<1>1. ASSUME NEW c \in Clients, Client(c) \/ Crash(c) PROVE HitInv'
    BY Zenon, <1>1, HitWaiting, HitWriting DEF Client
<1>2. CASE LockAges \/ RecordAges
    BY <1>2 DEF HitInv, Shapes, HitIsGenuine, LockAges, RecordAges, Statuses
<1>3. CASE UNCHANGED vars
    BY Zenon, <1>3 DEF vars, HitInv, Shapes, HitIsGenuine
<1> QED BY Zenon, <1>1, <1>2, <1>3 DEF Next, Finished

\* Every cache hit comes from the record of a run that returned no error, to its
\* end or cut short by a shutdown (HitIsGenuine, executor_executor.go:365), for
\* any number of callers and with every fault: expiry, the reap that races a new
\* claim, records signed with another key, stale locks removed twice, deaths
\* anywhere.
THEOREM HitsAreGenuine == Spec => []HitIsGenuine
<1>1. Init => HitInv
    BY DEF Init, HitInv, Shapes, HitIsGenuine, NoRecord, NoLock, Statuses, Places, Outcomes
<1>2. HitInv /\ [Next]_vars => HitInv'
    BY Zenon, HitNext
<1>3. HitInv => HitIsGenuine
    BY Zenon DEF HitInv
<1> QED BY <1>1, <1>2, <1>3, PTL DEF Spec

-----------------------------------------------------------------------------
(* Refinement of the ledger *)

\* The ids given out and those that waiting calls will take stay in the bound.
BoundInv == lastRun + Cardinality(Waiting) <= MaxRuns

\* The calls that may still take a run identifier are finitely many.
LEMMA WaitingFinite == IsFiniteSet(Waiting) /\ Cardinality(Waiting) \in Nat
<1>1. Waiting \subseteq Clients
    BY Zenon DEF Waiting
<1> QED BY Zenon, <1>1, IdempotencyAssumption, FS_Subset, FS_CardinalityType

\* At the start every call may still take one.
LEMMA BoundInit == Init => BoundInv
<1> SUFFICES ASSUME Init PROVE BoundInv
    BY Zenon
<1>1. Waiting = {}
    BY Zenon DEF Init, Waiting
<1> QED BY <1>1, FS_EmptySet, IdempotencyAssumption DEF Init, BoundInv

\* A call that will take no more identifiers makes room.
LEMMA BoundShrinks ==
    ASSUME Shapes, BoundInv, Waiting' \subseteq Waiting, lastRun' = lastRun
    PROVE  BoundInv'
<1>1. Cardinality(Waiting') <= Cardinality(Waiting)
    BY Zenon, WaitingFinite, FS_Subset
<1>2. Cardinality(Waiting') \in Nat
    BY Zenon, WaitingFinite, FS_Subset, FS_CardinalityType
<1> QED BY <1>1, <1>2, WaitingFinite, IdempotencyAssumption DEF BoundInv, Shapes

\* Check lets its caller go on to Reserve only while an identifier is left for it.
LEMMA BoundCheckRead ==
    ASSUME Shapes, NEW c \in Clients, CheckRead(c)
    PROVE  BoundInv'
<1>1. Waiting' \subseteq Waiting \cup {c}
    BY Zenon DEF Shapes, Waiting, CheckRead, Answer, Go
<1>2. /\ IsFiniteSet(Waiting \cup {c})
      /\ Cardinality(Waiting \cup {c}) <= Cardinality(Waiting) + 1
      /\ Cardinality(Waiting \cup {c}) \in Nat
    BY WaitingFinite, FS_AddElement, FS_CardinalityType
<1>3. Cardinality(Waiting') <= Cardinality(Waiting) + 1 /\ Cardinality(Waiting') \in Nat
    BY <1>1, <1>2, WaitingFinite, FS_Subset, FS_CardinalityType
<1>4. lastRun' = lastRun /\ lastRun + Cardinality(Waiting) < MaxRuns
    BY Zenon DEF CheckRead
<1> QED BY <1>3, <1>4, WaitingFinite, IdempotencyAssumption DEF BoundInv, Shapes

\* Reserve takes the identifier its caller was counted for.
LEMMA BoundReserveStart ==
    ASSUME Shapes, BoundInv, NEW c \in Clients, ReserveStart(c)
    PROVE  BoundInv'
<1>1. c \in Waiting /\ Waiting' = Waiting \ {c}
    BY Zenon DEF Shapes, Waiting, ReserveStart, Go
<1>2. Cardinality(Waiting') = Cardinality(Waiting) - 1
    BY Zenon, <1>1, WaitingFinite, FS_RemoveElement
<1>3. lastRun' = lastRun + 1
    BY Zenon DEF ReserveStart
<1> QED BY <1>2, <1>3, WaitingFinite, IdempotencyAssumption DEF BoundInv, Shapes

\* Every step leaves enough identifiers for the calls that may still take one.
LEMMA BoundNext == ASSUME Shapes, BoundInv, [Next]_vars PROVE BoundInv'
<1>1. ASSUME NEW c \in Clients, Client(c), ~CheckRead(c), ~ReserveStart(c) PROVE BoundInv'
    <2>1. lastRun' = lastRun /\ Waiting' \subseteq Waiting
        BY <1>1 DEF Shapes, Waiting, Client, CheckReap, CreateLock, StatLock, ReclaimLock,
                    LockTimeout, ReserveRead, ReserveWrite, Release, ExecuteWorkflow, Record,
                    Answer, Go
    <2> QED BY Zenon, <2>1, BoundShrinks
<1>2. ASSUME NEW c \in Clients, Crash(c) PROVE BoundInv'
    <2>1. lastRun' = lastRun /\ Waiting' \subseteq Waiting
        BY Zenon, <1>2 DEF Shapes, Waiting, Crash, Go
    <2> QED BY Zenon, <2>1, BoundShrinks
<1>3. CASE LockAges \/ RecordAges \/ UNCHANGED vars
    <2>1. lastRun' = lastRun /\ Waiting' \subseteq Waiting
        BY Zenon, <1>3 DEF Waiting, LockAges, RecordAges, vars
    <2> QED BY Zenon, <2>1, BoundShrinks
<1> QED BY Zenon, <1>1, <1>2, <1>3, BoundCheckRead, BoundReserveStart DEF Next, Finished

\* A step that leaves the record and the owners alone is invisible.
LEMMA LedgerStutter ==
    ASSUME record' = record,
           \A d \in Clients : Owns(d)' <=> Owns(d),
           \A d \in Clients : Owns(d) => run'[d] = run[d]
    PROVE  UNCHANGED <<LedgerRecord, Owners>>
<1>1. LedgerRecord' = LedgerRecord
    BY Zenon DEF LedgerRecord
<1>2. Owners' = Owners
    BY Zenon DEF Owners
<1> QED BY Zenon, <1>1, <1>2

\* A run that ends without a record, by a crash or a failed write.
LEMMA LedgerLose ==
    ASSUME record' = record, run' = run,
           \A d \in Clients : Owns(d)' => Owns(d)
    PROVE  Ledger!Next
<1>1. LedgerRecord' = LedgerRecord
    BY Zenon DEF LedgerRecord
<1>2. Owners' \in SUBSET Owners
    BY Zenon DEF Owners
<1> QED BY Zenon, <1>1, <1>2 DEF Ledger!Next, Ledger!Lose

\* A Reserve that writes its record reserves the key in the ledger.
LEMMA LedgerReserve ==
    ASSUME KeyInv, BoundInv, NEW c \in Clients, ReserveWrite(c)
    PROVE  [Ledger!Next]_<<LedgerRecord, Owners>>
<1>1. pc[c] = "write" /\ record.status \in {"none", "failed"} /\ record.age = "fresh"
    BY Zenon DEF KeyInv, Fresh, ClaimInv, ReserveWrite
<1>2. \A d \in Clients : ~Owns(d)
    BY Zenon, <1>1 DEF KeyInv, ClaimInv
<1>3. run' = run /\ pc' = [pc EXCEPT ![c] = "release"]
    BY Zenon DEF ReserveWrite, Answer, Go
<1>4. \A d \in Clients : d # c => ~Owns(d)'
    BY Zenon, <1>2, <1>3 DEF KeyInv, Shapes, Owns, ReserveWrite, Answer
<1>5. CASE record' = record /\ Answer(c, "error", "release")
    <2>1. ~Owns(c)'
        BY Zenon, <1>3, <1>5 DEF KeyInv, Shapes, Owns, Answer
    <2> QED BY Zenon, <1>2, <1>3, <1>4, <1>5, <2>1, LedgerStutter
<1>6. CASE /\ record' = [status |-> "in_progress", run |-> run[c], age |-> "fresh"]
           /\ Answer(c, "won", "release")
    <2>1. Owns(c)'
        BY Zenon, <1>3, <1>6 DEF KeyInv, Shapes, Owns, Answer
    <2>2. Owners = {} /\ Owners' = {run[c]}
        BY Zenon, <1>2, <1>3, <1>4, <2>1 DEF Owners
    <2>3. run[c] \in Runs
        BY <1>1, WaitingFinite, IdempotencyAssumption DEF KeyInv, Shapes, RunIds, BoundInv, Runs
    <2>4. LedgerRecord.status \in {"none", "failed"}
        BY Zenon, <1>1 DEF LedgerRecord
    <2>5. LedgerRecord' = [status |-> "in_progress", run |-> run[c]]
        BY Zenon, <1>6 DEF LedgerRecord
    <2>6. Ledger!Reserve(run[c])
        BY Zenon, <2>2, <2>4, <2>5 DEF Ledger!Reserve
    <2> QED BY Zenon, <2>3, <2>6 DEF Ledger!Next
<1> QED BY Zenon, <1>5, <1>6 DEF ReserveWrite

\* The record of how a run ended settles the key in the ledger.
LEMMA LedgerRecords ==
    ASSUME KeyInv, BoundInv, NEW c \in Clients, Record(c)
    PROVE  Ledger!Next
<1>1. pc[c] = "record" /\ Owns(c) /\ outcome[c] \in {"completed", "failed"}
    BY Zenon DEF KeyInv, ClaimInv, Record, Owns
<1>2. run' = run /\ outcome' = outcome /\ pc' = [pc EXCEPT ![c] = "idle"]
    BY Zenon DEF Record, Go
<1>3. \A d \in Clients : ~Owns(d)'
    <2> SUFFICES ASSUME NEW d \in Clients PROVE ~Owns(d)'
        BY Zenon
    <2>1. CASE d = c
        BY Zenon, <1>2, <2>1 DEF KeyInv, Shapes, Owns
    <2>2. CASE d # c
        BY Zenon, <1>1, <1>2, <2>2, Exclusive DEF KeyInv, Shapes, Owns
    <2> QED BY Zenon, <2>1, <2>2
<1>4. CASE UNCHANGED record
    BY Zenon, <1>2, <1>3, <1>4, LedgerLose
<1>5. CASE record' = [status |-> outcome[c], run |-> run[c], age |-> "fresh"]
    <2>1. \A d \in Clients : d # c => ~Owns(d)
        BY Zenon, <1>1, Exclusive
    <2>2. Owners = {run[c]} /\ Owners' = {}
        BY Zenon, <1>1, <1>3, <2>1 DEF Owners
    <2>3. run[c] \in Runs
        BY <1>1, WaitingFinite, IdempotencyAssumption DEF KeyInv, Shapes, RunIds, BoundInv, Runs
    <2>4. LedgerRecord' = [status |-> outcome[c], run |-> run[c]]
        BY Zenon, <1>5 DEF LedgerRecord
    <2>5. Ledger!Record(run[c])
        BY Zenon, <1>1, <2>2, <2>4 DEF Ledger!Record
    <2> QED BY Zenon, <2>3, <2>5 DEF Ledger!Next
<1> QED BY Zenon, <1>4, <1>5 DEF Record

\* The other steps of a caller neither change the record nor who owns the key.
LEMMA LedgerClient ==
    ASSUME KeyInv, NEW c \in Clients, Client(c), ~ReserveWrite(c), ~Record(c)
    PROVE  UNCHANGED <<LedgerRecord, Owners>>
<1>1. ~CheckReap(c) /\ ~StatLock(c) /\ ~ReclaimLock(c)
    BY Zenon DEF KeyInv, Fresh, CheckReap, StatLock, ReclaimLock
<1>2. CASE CheckRead(c) \/ CreateLock(c) \/ LockTimeout(c) \/ ReserveRead(c)
    <2>1. record' = record /\ run' = run
        BY Zenon, <1>2 DEF KeyInv, Fresh, CheckRead, CreateLock, LockTimeout, ReserveRead
    <2>2. \A d \in Clients : Owns(d)' <=> Owns(d)
        BY <1>2 DEF KeyInv, Shapes, Owns, CheckRead, CreateLock, LockTimeout, ReserveRead,
                    Answer, Go
    <2> QED BY Zenon, <2>1, <2>2, LedgerStutter
<1>3. CASE ReserveStart(c)
    <2>1. record' = record /\ \A d \in Clients : Owns(d)' <=> Owns(d)
        BY Zenon, <1>3 DEF KeyInv, Shapes, Owns, ReserveStart, Go
    <2>2. \A d \in Clients : Owns(d) => run'[d] = run[d]
        BY Zenon, <1>3 DEF KeyInv, Shapes, Owns, ReserveStart
    <2> QED BY Zenon, <2>1, <2>2, LedgerStutter
<1>4. CASE Release(c) \/ ExecuteWorkflow(c)
    <2>1. record' = record /\ run' = run
        BY Zenon, <1>4 DEF Release, ExecuteWorkflow
    <2>2. \A d \in Clients : Owns(d)' <=> Owns(d)
        BY <1>4 DEF KeyInv, Shapes, Owns, Release, ExecuteWorkflow, Go
    <2> QED BY Zenon, <2>1, <2>2, LedgerStutter
<1> QED BY Zenon, <1>1, <1>2, <1>3, <1>4 DEF Client

\* Every step is a step of the ledger or leaves it as it is.
LEMMA LedgerNext ==
    ASSUME KeyInv, BoundInv, [Next]_vars, ~MayCrashLocked, ~MayExpire, ~MayRekey
    PROVE  [Ledger!Next]_<<LedgerRecord, Owners>>
<1>1. ASSUME NEW c \in Clients, Client(c) PROVE [Ledger!Next]_<<LedgerRecord, Owners>>
    BY Zenon, <1>1, LedgerReserve, LedgerRecords, LedgerClient
<1>2. ASSUME NEW c \in Clients, Crash(c) PROVE Ledger!Next
    <2>1. record' = record /\ run' = run /\ \A d \in Clients : Owns(d)' => Owns(d)
        BY Zenon, <1>2 DEF KeyInv, Shapes, Owns, Crash, Go
    <2> QED BY Zenon, <2>1, LedgerLose
<1>3. ~LockAges /\ ~RecordAges
    BY Zenon DEF KeyInv, LockInv, LockAges, RecordAges
<1>4. CASE UNCHANGED vars
    BY Zenon, <1>4, LedgerStutter DEF vars, Owns
<1> QED BY Zenon, <1>1, <1>2, <1>3, <1>4 DEF Next, Finished

\* The file store implements the ledger (ImplementsLedger): what callers see of
\* the key is what the store under one mutex would show them, for any number of
\* callers, reads and writes that fail, and deaths outside the lock.
THEOREM StoreImplementsLedger ==
    ASSUME ~MayCrashLocked, ~MayExpire, ~MayRekey
    PROVE  Spec => ImplementsLedger
<1>1. Init => Ledger!Init
    BY DEF Init, Ledger!Init, Ledger!NoRecord, NoRecord, LedgerRecord, Owners, Owns
<1>2. KeyInv /\ BoundInv /\ [Next]_vars => BoundInv'
    BY Zenon, BoundNext DEF KeyInv
<1>3. KeyInv /\ BoundInv /\ [Next]_vars => [Ledger!Next]_<<LedgerRecord, Owners>>
    BY Zenon, LedgerNext
<1> QED BY <1>1, <1>2, <1>3, BoundInit, KeyInvariance, PTL
        DEF Spec, ImplementsLedger, Ledger!Spec

-----------------------------------------------------------------------------
(* The audit chain                                                         *)

\* A line of the audit log, and an append on its way.
Lines == [n : Int, prev : Int, key : Keys, big : BOOLEAN, end : {"newline", "none", "cut", "garbled"}]
Appending == [at : {"lock", "reclaim", "read", "key", "write", "unlock"},
              env : SUBSET {"env", "password"}, n : Int, prev : Int, key : Keys \cup {"none"}]

\* The types of the audit log, its lock and the appends.
AuditTypes ==
    /\ log \in Seq(Lines) /\ keyFile \in BOOLEAN /\ appends \in Int
    /\ sentinel = Free \/ sentinel \in [by : Processes, old : BOOLEAN]
    /\ proc \in [Processes -> {Idle} \cup Appending]
    /\ \A p \in Processes : proc[p].at = "write" => proc[p].key \in Keys

(* The lines of a log chained by their hashes and signed with one key, of  *)
(* which all but the last are complete.                                    *)
Chained ==
    \A i \in 1 .. Len(log) :
        /\ log[i].key = log[1].key /\ log[i].prev = (IF i = 1 THEN -1 ELSE log[i - 1].n)
        /\ log[i].end # "garbled" /\ (i < Len(log) => log[i].end = "newline")

\* The hash readLastAuditHash returns.
LastHash == IF log = <<>> THEN -1 ELSE LastLine(log).n

(* The holder of the sentinel is alone between lock and unlock, so what it *)
(* read of the log's end is still so when it writes.                       *)
ChainInv ==
    /\ \A p \in Processes : InSection(p) => sentinel # Free /\ sentinel.by = p
    /\ \A p \in Processes : proc[p].at \in {"key", "write"} => ~TornTail /\ proc[p].prev = LastHash
    /\ \A p \in Processes : proc[p].at = "write" /\ log # <<>> => proc[p].key = LastLine(log).key
    /\ Chained

\* The inductive invariant of the audit log.
AuditInv == AuditTypes /\ (excuse = {} => ChainInv)

\* One process moves on, the others stay where they are.
LEMMA Moves ==
    ASSUME AuditTypes, NEW p \in Processes, NEW r \in {Idle} \cup Appending,
           proc' = [proc EXCEPT ![p] = r], r.at = "write" => r.key \in Keys
    PROVE  /\ proc' \in [Processes -> {Idle} \cup Appending] /\ proc'[p] = r
           /\ \A q \in Processes \ {p} : proc'[q] = proc[q]
           /\ \A q \in Processes : proc'[q].at = "write" => proc'[q].key \in Keys
<1>1. /\ proc' \in [Processes -> {Idle} \cup Appending] /\ proc'[p] = r
      /\ \A q \in Processes \ {p} : proc'[q] = proc[q]
    BY Zenon DEF AuditTypes
<1> QED BY Zenon, <1>1 DEF AuditTypes

\* One process goes to the next part of its append.
LEMMA MovesAt ==
    ASSUME AuditTypes, NEW p \in Processes, proc[p].at # "idle",
           NEW a \in {"lock", "reclaim", "read", "unlock"}, At(p, a)
    PROVE  /\ proc' \in [Processes -> {Idle} \cup Appending] /\ proc'[p].at = a
           /\ \A q \in Processes \ {p} : proc'[q] = proc[q]
           /\ \A q \in Processes : proc'[q].at = "write" => proc'[q].key \in Keys
<1> DEFINE r == [proc[p] EXCEPT !.at = a]
<1>1. proc[p] \in Appending
    BY DEF AuditTypes, Idle
<1>2. r \in Appending /\ r.at = a
    BY Zenon, <1>1 DEF Appending
<1>3. proc' = [proc EXCEPT ![p] = r]
    BY Zenon DEF At
<1> HIDE DEF r
<1> QED BY Zenon, <1>2, <1>3, Moves

\* The log with a line more, or with its last line run into.
LEMMA WrittenIs ==
    ASSUME AuditTypes, NEW p \in Processes, proc[p].at = "write", NEW big \in BOOLEAN,
           NEW end \in {"newline", "none", "cut"}
    PROVE  LET w == Written(p, big, end)
               r == [n |-> proc[p].n, prev |-> proc[p].prev, key |-> proc[p].key, big |-> big, end |-> end]
           IN  /\ w \in Seq(Lines) /\ w # <<>> /\ r \in Lines
               /\ \/ /\ log = <<>> \/ LastLine(log).end = "newline"
                     /\ w = Append(log, r) /\ LastLine(w) = r /\ Len(w) = Len(log) + 1 /\ Len(log) \in Nat
                     /\ w[Len(log) + 1] = r /\ \A i \in 1 .. Len(log) : w[i] = log[i]
                  \/ LastLine(w).end = "garbled"
<1> DEFINE r == [n |-> proc[p].n, prev |-> proc[p].prev, key |-> proc[p].key, big |-> big, end |-> end]
           w == Written(p, big, end)
<1>1. proc[p] \in Appending /\ proc[p].key \in Keys
    BY DEF AuditTypes, Idle
<1>2. r \in Lines
    BY Zenon, <1>1 DEF Lines, Appending
<1>3. log \in Seq(Lines) /\ Len(log) \in Nat
    BY Zenon, LenProperties DEF AuditTypes
<1>4. CASE log = <<>> \/ LastLine(log).end = "newline"
  <2>1. w = Append(log, r)
      BY Zenon, <1>4 DEF Written
  <2> HIDE DEF r, w
  <2>2. /\ w \in Seq(Lines) /\ Len(w) = Len(log) + 1 /\ w[Len(log) + 1] = r
        /\ \A i \in 1 .. Len(log) : w[i] = log[i]
      BY <1>2, <1>3, <2>1, AppendProperties
  <2>3. w # <<>> /\ LastLine(w) = r
      BY <1>3, <2>2, EmptySeq DEF LastLine
  <2> QED BY Zenon, <1>2, <1>3, <1>4, <2>1, <2>2, <2>3 DEF r, w
<1>5. CASE ~(log = <<>> \/ LastLine(log).end = "newline")
  <2> DEFINE k == Len(log)
             g == [log[k] EXCEPT !.end = "garbled"]
  <2>1. w = [log EXCEPT ![k] = g]
      BY Zenon, <1>5 DEF Written
  <2>2. k \in 1 .. k
      BY <1>3, <1>5, EmptySeq
  <2>3. g \in Lines /\ g.end = "garbled"
    <3>1. log[k] \in Lines
        BY Zenon, <1>3, <2>2, ElementOfSeq
    <3> QED BY Zenon, <3>1 DEF Lines
  <2> HIDE DEF g, w
  <2>4. w \in Seq(Lines) /\ Len(w) = k /\ w[k] = g
      BY <1>3, <2>1, <2>2, <2>3, ExceptSeq
  <2>5. w # <<>> /\ LastLine(w) = g
      BY <1>3, <2>2, <2>4, EmptySeq DEF LastLine
  <2> QED BY Zenon, <1>2, <2>3, <2>4, <2>5 DEF w
<1> QED BY Zenon, <1>4, <1>5

\* A log that is empty or has one line of an old version is a chain.
LEMMA AuditInitial == AuditInit => AuditInv
<1> SUFFICES ASSUME AuditInit PROVE AuditInv
    BY Zenon
<1> DEFINE old == [n |-> 0, prev |-> -1, key |-> "default", big |-> FALSE, end |-> "newline"]
<1>1. old \in Lines
    BY DEF Lines, Keys
<1>2. log = <<>> \/ log = <<old>>
    BY Zenon DEF AuditInit
<1>3. old.prev = -1 /\ old.end = "newline"
    BY Zenon
<1> HIDE DEF old
<1>4. log \in Seq(Lines) /\ Len(log) \in {0, 1} /\ (Len(log) = 1 => log[1] = old)
  <2>1. CASE log = <<>>
      BY <2>1
  <2>2. CASE log = <<old>>
      BY <1>1, <2>2
  <2> QED BY Zenon, <1>2, <2>1, <2>2
<1>5. Chained
  <2> SUFFICES ASSUME NEW i \in 1 .. Len(log)
               PROVE  /\ log[i].key = log[1].key /\ log[i].prev = (IF i = 1 THEN -1 ELSE log[i - 1].n)
                      /\ log[i].end # "garbled" /\ (i < Len(log) => log[i].end = "newline")
      BY Zenon DEF Chained
  <2>1. i = 1 /\ log[i] = old /\ ~(i < Len(log))
    <3>1. i = 1 /\ Len(log) = 1
      <4>1. CASE log = <<>>
          BY <4>1
      <4>2. CASE log = <<old>>
          BY <4>2
      <4> QED BY Zenon, <1>2, <4>1, <4>2
    <3> QED BY <1>4, <3>1
  <2> QED BY Zenon, <1>3, <2>1
<1>6. AuditTypes
  <2>1. proc \in [Processes -> {Idle} \cup Appending] /\ \A p \in Processes : proc[p].at = "idle"
      BY Zenon DEF AuditInit, Idle
  <2>2. keyFile \in BOOLEAN
      BY Zenon DEF AuditInit
  <2>3. appends \in Int /\ sentinel = Free
      BY DEF AuditInit
  <2> QED BY Zenon, <1>4, <2>1, <2>2, <2>3 DEF AuditTypes
<1>7. \A p \in Processes : proc[p].at = "idle"
    BY Zenon DEF AuditInit, Idle
<1> QED BY Zenon, <1>5, <1>6, <1>7 DEF AuditInv, ChainInv, InSection

\* A step that leaves the log alone and lets no process near its end.
LEMMA ElsewhereInv ==
    ASSUME AuditInv, NEW p \in Processes, UNCHANGED <<log, keyFile, appends>>, excuse \subseteq excuse',
           sentinel' = Free \/ sentinel' \in [by : Processes, old : BOOLEAN],
           proc' \in [Processes -> {Idle} \cup Appending],
           \A q \in Processes \ {p} : proc'[q] = proc[q],
           proc'[p].at \notin {"key", "write"},
           excuse' = {} => \A q \in Processes : InSection(q)' => sentinel' # Free /\ sentinel'.by = q
    PROVE  AuditInv'
<1>1. AuditTypes'
    BY Zenon DEF AuditInv, AuditTypes
<1>2. ASSUME excuse' = {} PROVE ChainInv'
  <2>1. ChainInv
      BY Zenon, <1>2 DEF AuditInv
  <2>2. UNCHANGED <<TornTail, LastHash>> /\ Chained'
      BY Zenon, <2>1 DEF ChainInv, TornTail, LastHash, Chained
  <2>3. \A q \in Processes : proc'[q].at \in {"key", "write"} => proc'[q] = proc[q]
      BY Zenon
  <2>4. \A q \in Processes : proc'[q].at \in {"key", "write"} => ~TornTail' /\ proc'[q].prev = LastHash'
      BY Zenon, <2>1, <2>2, <2>3 DEF ChainInv
  <2>5. \A q \in Processes : proc'[q].at = "write" /\ log' # <<>> => proc'[q].key = LastLine(log').key
      BY <2>1, <2>3 DEF ChainInv
  <2> QED BY Zenon, <1>2, <2>2, <2>4, <2>5 DEF ChainInv
<1> QED BY Zenon, <1>1, <1>2 DEF AuditInv

\* The holder of the lock reads the end of the log.
LEMMA ReadInv ==
    ASSUME AuditInv, NEW p \in Processes, readLastAuditHash(p), ~TornTail
    PROVE  AuditInv'
<1> DEFINE r == [proc[p] EXCEPT !.at = "key", !.prev = LastHash]
<1>1. AuditTypes /\ proc[p].at = "read" /\ UNCHANGED <<log, keyFile, sentinel, excuse, appends>>
      /\ proc' = [proc EXCEPT ![p] = r]
    BY Zenon DEF AuditInv, readLastAuditHash, LastHash
<1>2. LastHash \in Int
  <2>1. CASE log = <<>>
      BY <2>1 DEF LastHash
  <2>2. CASE log # <<>>
    <3>1. LastLine(log) \in Lines
        BY <1>1, <2>2, EmptySeq, LenProperties, ElementOfSeq DEF AuditTypes, LastLine
    <3> QED BY Zenon, <2>2, <3>1 DEF LastHash, Lines
  <2> QED BY Zenon, <2>1, <2>2
<1>3. r \in Appending /\ r.at = "key" /\ r.prev = LastHash
  <2>1. proc[p] \in Appending
      BY <1>1 DEF AuditTypes, Idle
  <2> QED BY Zenon, <1>2, <2>1 DEF Appending
<1> HIDE DEF r
<1>4. /\ proc' \in [Processes -> {Idle} \cup Appending] /\ proc'[p] = r
      /\ \A q \in Processes \ {p} : proc'[q] = proc[q]
      /\ \A q \in Processes : proc'[q].at = "write" => proc'[q].key \in Keys
    BY Zenon, <1>1, <1>3, Moves
<1>5. AuditTypes'
    BY Zenon, <1>1, <1>4 DEF AuditTypes
<1>6. ASSUME excuse' = {} PROVE ChainInv'
  <2>1. ChainInv /\ UNCHANGED <<TornTail, LastHash>> /\ Chained'
      BY Zenon, <1>1, <1>6 DEF AuditInv, ChainInv, TornTail, LastHash, Chained
  <2>2. \A q \in Processes : InSection(q)' => sentinel' # Free /\ sentinel'.by = q
      BY Zenon, <1>1, <1>3, <1>4, <2>1 DEF ChainInv, InSection
  <2>3. \A q \in Processes : proc'[q].at \in {"key", "write"} => ~TornTail' /\ proc'[q].prev = LastHash'
      BY Zenon, <1>3, <1>4, <2>1 DEF ChainInv
  <2>4. \A q \in Processes : proc'[q].at = "write" /\ log' # <<>> => proc'[q].key = LastLine(log').key
      BY Zenon, <1>1, <1>3, <1>4, <2>1 DEF ChainInv
  <2> QED BY Zenon, <2>1, <2>2, <2>3, <2>4 DEF ChainInv
<1> QED BY Zenon, <1>5, <1>6 DEF AuditInv

\* It resolves the key: the one the last record was signed with, where there is
\* such a record and nothing is excused.
LEMMA ResolveInv ==
    ASSUME AuditInv, NEW p \in Processes, resolveKey(p)
    PROVE  AuditInv'
<1> DEFINE k == auditKeyForAppend(proc[p].env)
           r == [proc[p] EXCEPT !.at = "write", !.key = k]
<1>1. /\ AuditTypes /\ proc[p].at = "key" /\ UNCHANGED <<log, sentinel, appends>>
      /\ excuse \subseteq excuse' /\ keyFile' = (keyFile \/ k = "file")
      /\ k = "refused" => At(p, "unlock")
      /\ k # "refused" => proc' = [proc EXCEPT ![p] = r]
    BY Zenon DEF AuditInv, resolveKey
<1>2. keyFile' \in BOOLEAN
    BY Zenon, <1>1
<1>3. proc[p] \in Appending
    BY <1>1 DEF AuditTypes, Idle
<1>4. log # <<>> => LastLine(log) \in Lines
    BY <1>1, EmptySeq, LenProperties, ElementOfSeq DEF AuditTypes, LastLine
<1>5. k \in Keys \cup {"refused"}
    BY Zenon, <1>4 DEF auditKeyForAppend, Keys, Lines, HasLastRecord
<1>6. ASSUME excuse' = {}, k # "refused", log # <<>> PROVE k = LastLine(log).key
  <2>1. ~TornTail
      BY Zenon, <1>1, <1>6 DEF AuditInv, ChainInv
  <2>2. ~LastLine(log).big /\ ~(k = "env" /\ LastLine(log).key # k)
      BY Zenon, <1>6 DEF resolveKey
  <2>3. HasLastRecord
      BY Zenon, <1>6, <2>1, <2>2 DEF HasLastRecord
  <2> QED BY Zenon, <1>6, <2>2, <2>3 DEF auditKeyForAppend, chainContinuityKey
<1> HIDE DEF k
<1>7. /\ proc' \in [Processes -> {Idle} \cup Appending]
      /\ \A q \in Processes \ {p} : proc'[q] = proc[q]
      /\ \A q \in Processes : proc'[q].at = "write" => proc'[q].key \in Keys
      /\ \/ proc'[p].at = "unlock"
         \/ k # "refused" /\ proc'[p].at = "write" /\ proc'[p].key = k /\ proc'[p].prev = proc[p].prev
  <2>1. CASE k = "refused"
      BY Zenon, <1>1, <2>1, MovesAt
  <2>2. CASE k # "refused"
    <3>1. r \in Appending /\ r.at = "write" /\ r.key = k /\ r.prev = proc[p].prev /\ r.key \in Keys
        BY Zenon, <1>3, <1>5, <2>2 DEF Appending
    <3> HIDE DEF r
    <3> QED BY Zenon, <1>1, <2>2, <3>1, Moves
  <2> QED BY Zenon, <2>1, <2>2
<1>8. AuditTypes'
    BY Zenon, <1>1, <1>2, <1>7 DEF AuditTypes
<1>9. ASSUME excuse' = {} PROVE ChainInv'
  <2>1. ChainInv /\ UNCHANGED <<TornTail, LastHash>> /\ Chained'
      BY Zenon, <1>1, <1>9 DEF AuditInv, ChainInv, TornTail, LastHash, Chained
  <2>2. \A q \in Processes : InSection(q)' => sentinel' # Free /\ sentinel'.by = q
      BY Zenon, <1>1, <1>7, <2>1 DEF ChainInv, InSection
  <2>3. \A q \in Processes : proc'[q].at \in {"key", "write"} => ~TornTail' /\ proc'[q].prev = LastHash'
      BY <1>1, <1>7, <2>1 DEF ChainInv
  <2>4. \A q \in Processes : proc'[q].at = "write" /\ log' # <<>> => proc'[q].key = LastLine(log').key
      BY <1>1, <1>6, <1>7, <1>9, <2>1 DEF ChainInv
  <2> QED BY Zenon, <2>1, <2>2, <2>3, <2>4 DEF ChainInv
<1> QED BY Zenon, <1>8, <1>9 DEF AuditInv

\* It writes its record, whole or in part.
LEMMA WriteInv ==
    ASSUME AuditInv, NEW p \in Processes, proc[p].at = "write", NEW big \in BOOLEAN,
           NEW end \in {"newline", "none", "cut"}, log' = Written(p, big, end),
           UNCHANGED <<keyFile, sentinel, appends>>, excuse \subseteq excuse',
           LastLine(log').end = "garbled" => excuse' # {},
           proc' \in [Processes -> {Idle} \cup Appending],
           \A q \in Processes \ {p} : proc'[q] = proc[q],
           proc'[p].at \in {"idle", "unlock"}
    PROVE  AuditInv'
<1> DEFINE r == [n |-> proc[p].n, prev |-> proc[p].prev, key |-> proc[p].key, big |-> big, end |-> end]
<1>1. AuditTypes
    BY Zenon DEF AuditInv
<1>2. /\ log' \in Seq(Lines) /\ r \in Lines
      /\ \/ /\ log = <<>> \/ LastLine(log).end = "newline"
            /\ Len(log') = Len(log) + 1 /\ Len(log) \in Nat
            /\ log'[Len(log) + 1] = r /\ \A i \in 1 .. Len(log) : log'[i] = log[i]
         \/ LastLine(log').end = "garbled"
    BY Zenon, <1>1, WrittenIs
<1>3. r.prev = proc[p].prev /\ r.key = proc[p].key /\ r.end = end
    BY Zenon
<1> HIDE DEF r
<1>4. AuditTypes'
    BY Zenon, <1>1, <1>2 DEF AuditTypes
<1>5. ASSUME excuse' = {} PROVE ChainInv'
  <2>1. /\ ChainInv /\ (log = <<>> \/ LastLine(log).end = "newline")
        /\ Len(log') = Len(log) + 1 /\ Len(log) \in Nat
        /\ log'[Len(log) + 1] = r /\ \A i \in 1 .. Len(log) : log'[i] = log[i]
      BY Zenon, <1>2, <1>5 DEF AuditInv
  <2>2. \A q \in Processes \ {p} : ~InSection(q)
      BY Zenon, <2>1 DEF ChainInv, InSection
  <2>3. \A q \in Processes : proc'[q].at \notin {"key", "write"}
      BY Zenon, <2>2 DEF InSection
  <2>4. \A q \in Processes : InSection(q)' => sentinel' # Free /\ sentinel'.by = q
      BY Zenon, <2>1, <2>2 DEF ChainInv, InSection
  <2>5. Chained'
    <3> SUFFICES ASSUME NEW i \in 1 .. Len(log')
                 PROVE  /\ log'[i].key = log'[1].key
                        /\ log'[i].prev = (IF i = 1 THEN -1 ELSE log'[i - 1].n)
                        /\ log'[i].end # "garbled" /\ (i < Len(log') => log'[i].end = "newline")
        BY Zenon DEF Chained
    <3>1. log # <<>> => Len(log) \in 1 .. Len(log) /\ LastLine(log) = log[Len(log)]
        BY <1>1, <2>1, EmptySeq DEF LastLine, AuditTypes
    <3>2. log = <<>> => Len(log) = 0
        OBVIOUS
    <3>3. r.prev = LastHash /\ (log # <<>> => r.key = LastLine(log).key)
        BY Zenon, <1>3, <2>1 DEF ChainInv
    <3>4. CASE i = Len(log) + 1
      <4>1. CASE log = <<>>
          BY <1>3, <2>1, <3>2, <3>3, <3>4, <4>1 DEF LastHash
      <4>2. CASE log # <<>>
        <5>1. log'[Len(log)] = log[Len(log)] /\ log'[1] = log[1] /\ i - 1 = Len(log) /\ i # 1
            BY <2>1, <3>1, <3>4, <4>2
        <5>2. log[Len(log)].key = log[1].key
            BY Zenon, <2>1, <3>1, <4>2 DEF ChainInv, Chained
        <5> QED BY <1>3, <2>1, <3>1, <3>3, <3>4, <4>2, <5>1, <5>2 DEF LastHash
      <4> QED BY Zenon, <4>1, <4>2
    <3>5. CASE i # Len(log) + 1
      <4>1. i \in 1 .. Len(log) /\ log # <<>>
          BY <2>1, <3>2, <3>5
      <4>2. log'[i] = log[i] /\ log'[1] = log[1] /\ (i # 1 => log'[i - 1] = log[i - 1])
          BY <2>1, <4>1
      <4>3. /\ log[i].key = log[1].key /\ log[i].prev = (IF i = 1 THEN -1 ELSE log[i - 1].n)
            /\ log[i].end # "garbled" /\ (i < Len(log) => log[i].end = "newline")
          BY Zenon, <2>1, <4>1 DEF ChainInv, Chained
      <4>4. log[i].end = "newline"
          BY <2>1, <3>1, <4>1, <4>3
      <4> QED BY Zenon, <4>2, <4>3, <4>4
    <3> QED BY Zenon, <3>4, <3>5
  <2> QED BY Zenon, <2>3, <2>4, <2>5 DEF ChainInv
<1> QED BY Zenon, <1>4, <1>5 DEF AuditInv

\* Every step keeps the chain.
LEMMA AuditStep ==
    ASSUME AuditInv, [AuditNext]_auditVars
    PROVE  AuditInv'
<1>0. AuditTypes /\ (sentinel = Free \/ sentinel \in [by : Processes, old : BOOLEAN])
    BY Zenon DEF AuditInv, AuditTypes
<1>1. ASSUME NEW p \in Processes, NEW env \in SUBSET {"env", "password"}, startAppend(p, env)
      PROVE  AuditInv'
  <2> DEFINE r == [at |-> "lock", env |-> env, n |-> appends', prev |-> -1, key |-> "none"]
  <2>1. /\ proc' = [proc EXCEPT ![p] = r] /\ UNCHANGED <<log, keyFile, sentinel, excuse>>
        /\ appends' = appends + 1
      BY Zenon, <1>1 DEF startAppend
  <2>2. appends' \in Int
      BY <1>0, <2>1 DEF AuditTypes
  <2>3. r \in Appending /\ r.at = "lock"
      BY <2>2 DEF Appending, Keys
  <2> HIDE DEF r
  <2>4. /\ proc' \in [Processes -> {Idle} \cup Appending] /\ proc'[p].at = "lock"
        /\ \A q \in Processes \ {p} : proc'[q] = proc[q]
        /\ \A q \in Processes : proc'[q].at = "write" => proc'[q].key \in Keys
      BY Zenon, <1>0, <2>1, <2>3, Moves
  <2>5. AuditTypes'
      BY Zenon, <1>0, <2>1, <2>2, <2>4 DEF AuditTypes
  <2>6. ASSUME excuse' = {} PROVE ChainInv'
    <3>1. ChainInv /\ UNCHANGED <<TornTail, LastHash>> /\ Chained'
        BY Zenon, <2>1, <2>6 DEF AuditInv, ChainInv, TornTail, LastHash, Chained
    <3>2. \A q \in Processes : proc'[q].at # "lock" => proc'[q] = proc[q]
        BY Zenon, <2>4
    <3> QED BY Zenon, <2>1, <3>1, <3>2 DEF ChainInv, InSection
  <2> QED BY Zenon, <2>5, <2>6 DEF AuditInv
<1>i. Idle \in {Idle} \cup Appending /\ Idle.at = "idle"
    BY Zenon DEF Idle
<1>2. ASSUME NEW p \in Processes, lockAuditLog(p) PROVE AuditInv'
  <2>1. /\ UNCHANGED <<log, keyFile, appends, excuse>> /\ proc[p].at = "lock" /\ sentinel = Free
        /\ sentinel' = [by |-> p, old |-> FALSE] /\ (At(p, "read") \/ proc' = [proc EXCEPT ![p] = Idle])
      BY Zenon, <1>2 DEF lockAuditLog
  <2>2. /\ proc' \in [Processes -> {Idle} \cup Appending] /\ proc'[p].at \in {"read", "idle"}
        /\ \A q \in Processes \ {p} : proc'[q] = proc[q]
      BY <1>0, <1>i, <2>1, Moves, MovesAt
  <2>3. sentinel' \in [by : Processes, old : BOOLEAN] /\ sentinel' # Free /\ sentinel'.by = p
      BY Zenon, <2>1 DEF Free
  <2>4. ASSUME excuse' = {}, NEW q \in Processes, InSection(q)' PROVE q = p
    <3>1. ~InSection(q)
        BY Zenon, <2>1, <2>4 DEF AuditInv, ChainInv
    <3> QED BY Zenon, <2>2, <2>4, <3>1 DEF InSection
  <2> QED BY Zenon, <2>1, <2>2, <2>3, <2>4, ElsewhereInv
<1>3. CASE Age
  <2>1. /\ UNCHANGED <<log, keyFile, appends, excuse, proc>> /\ sentinel # Free
        /\ sentinel' = [sentinel EXCEPT !.old = TRUE]
      BY Zenon, <1>3 DEF Age
  <2>2. sentinel' \in [by : Processes, old : BOOLEAN] /\ sentinel' # Free /\ sentinel'.by = sentinel.by
      BY Zenon, <1>0, <2>1 DEF Free
  <2>3. AuditTypes'
      BY Zenon, <1>0, <2>1, <2>2 DEF AuditTypes
  <2>4. ASSUME excuse' = {} PROVE ChainInv'
    <3>1. ChainInv
        BY Zenon, <2>1, <2>4 DEF AuditInv
    <3> QED BY Zenon, <2>1, <2>2, <3>1 DEF ChainInv, InSection, TornTail, LastHash, Chained
  <2> QED BY Zenon, <2>3, <2>4 DEF AuditInv
<1>4. ASSUME NEW p \in Processes, lockIsStale(p) \/ lockTimeout(p) PROVE AuditInv'
  <2>1. /\ UNCHANGED <<log, keyFile, appends, excuse, sentinel>> /\ proc[p].at = "lock"
        /\ (At(p, "reclaim") \/ proc' = [proc EXCEPT ![p] = Idle])
      BY Zenon, <1>4 DEF lockIsStale, lockTimeout
  <2>2. /\ proc' \in [Processes -> {Idle} \cup Appending] /\ proc'[p].at \in {"reclaim", "idle"}
        /\ \A q \in Processes \ {p} : proc'[q] = proc[q]
      BY <1>0, <1>i, <2>1, Moves, MovesAt
  <2>3. ASSUME excuse' = {}, NEW q \in Processes, InSection(q)' PROVE sentinel' # Free /\ sentinel'.by = q
    <3>1. q # p /\ InSection(q)
        BY Zenon, <2>2, <2>3 DEF InSection
    <3> QED BY Zenon, <2>1, <2>3, <3>1 DEF AuditInv, ChainInv
  <2> QED BY Zenon, <1>0, <2>1, <2>2, <2>3, ElsewhereInv
<1>5. ASSUME NEW p \in Processes, reclaim(p) PROVE AuditInv'
  <2>1. /\ UNCHANGED <<log, keyFile, appends>> /\ proc[p].at = "reclaim" /\ sentinel' = Free
        /\ At(p, "lock") /\ excuse \subseteq excuse'
      BY Zenon, <1>5 DEF reclaim
  <2>2. /\ proc' \in [Processes -> {Idle} \cup Appending] /\ proc'[p].at = "lock"
        /\ \A q \in Processes \ {p} : proc'[q] = proc[q]
      BY Zenon, <1>0, <2>1, MovesAt
  <2>3. ASSUME excuse' = {}, NEW q \in Processes PROVE ~InSection(q)'
    <3>1. ~InSection(q)
        BY Zenon, <1>5, <2>1, <2>3 DEF reclaim, AuditInv, ChainInv
    <3> QED BY Zenon, <2>2, <3>1 DEF InSection
  <2> QED BY Zenon, <2>1, <2>2, <2>3, ElsewhereInv
<1>6. ASSUME NEW p \in Processes, readLastAuditHash(p) PROVE AuditInv'
  <2>1. CASE ~TornTail
      BY Zenon, <1>6, <2>1, ReadInv
  <2>2. CASE TornTail
    <3>1. /\ UNCHANGED <<log, keyFile, appends, excuse, sentinel>> /\ proc[p].at = "read" /\ At(p, "unlock")
        BY Zenon, <1>6, <2>2 DEF readLastAuditHash
    <3>2. /\ proc' \in [Processes -> {Idle} \cup Appending] /\ proc'[p].at = "unlock"
          /\ \A q \in Processes \ {p} : proc'[q] = proc[q]
        BY Zenon, <1>0, <3>1, MovesAt
    <3>3. ASSUME excuse' = {}, NEW q \in Processes, InSection(q)' PROVE sentinel' # Free /\ sentinel'.by = q
      <4>1. InSection(q)
          BY Zenon, <3>1, <3>2, <3>3 DEF InSection
      <4> QED BY Zenon, <3>1, <3>3, <4>1 DEF AuditInv, ChainInv
    <3> QED BY Zenon, <1>0, <3>1, <3>2, <3>3, ElsewhereInv
  <2> QED BY Zenon, <2>1, <2>2
<1>7. ASSUME NEW p \in Processes, resolveKey(p) PROVE AuditInv'
    BY Zenon, <1>7, ResolveInv
<1>8. ASSUME NEW p \in Processes, NEW big \in BOOLEAN, writeRecord(p, big) PROVE AuditInv'
  <2>1. /\ UNCHANGED <<keyFile, appends, sentinel>> /\ proc[p].at = "write" /\ At(p, "unlock")
        /\ log' = Written(p, big, "newline") /\ excuse \subseteq excuse'
        /\ (log' # <<>> /\ LastLine(log').end = "garbled" => excuse' # {})
      BY Zenon, <1>8 DEF writeRecord
  <2>2. /\ proc' \in [Processes -> {Idle} \cup Appending] /\ proc'[p].at = "unlock"
        /\ \A q \in Processes \ {p} : proc'[q] = proc[q]
      BY Zenon, <1>0, <2>1, MovesAt
  <2>3. log' # <<>>
      BY Zenon, <1>0, <2>1, WrittenIs
  <2> QED BY Zenon, <2>1, <2>2, <2>3, WriteInv
<1>9. ASSUME NEW p \in Processes, unlock(p) PROVE AuditInv'
  <2>1. /\ UNCHANGED <<log, keyFile, appends, excuse>> /\ proc[p].at = "unlock" /\ sentinel' = Free
        /\ proc' = [proc EXCEPT ![p] = Idle]
      BY Zenon, <1>9 DEF unlock
  <2>2. /\ proc' \in [Processes -> {Idle} \cup Appending] /\ proc'[p].at = "idle"
        /\ \A q \in Processes \ {p} : proc'[q] = proc[q]
      BY Zenon, <1>0, <1>i, <2>1, Moves
  <2>3. ASSUME excuse' = {}, NEW q \in Processes PROVE ~InSection(q)'
    <3>1. q # p => ~InSection(q)
        BY Zenon, <2>1, <2>3 DEF AuditInv, ChainInv, InSection
    <3> QED BY Zenon, <2>2, <3>1 DEF InSection
  <2> QED BY Zenon, <2>1, <2>2, <2>3, ElsewhereInv
<1>10. ASSUME NEW p \in Processes, AuditCrash(p) PROVE AuditInv'
  <2>1. /\ UNCHANGED <<keyFile, appends, sentinel>> /\ proc' = [proc EXCEPT ![p] = Idle]
        /\ \/ log' = log
           \/ proc[p].at = "write" /\ \E end \in {"cut", "none", "newline"} : log' = Written(p, FALSE, end)
        /\ excuse \subseteq excuse' /\ (log' # <<>> /\ LastLine(log').end = "garbled" => excuse' # {})
      BY Zenon, <1>10 DEF AuditCrash
  <2>2. /\ proc' \in [Processes -> {Idle} \cup Appending] /\ proc'[p].at = "idle"
        /\ \A q \in Processes \ {p} : proc'[q] = proc[q]
      BY Zenon, <1>0, <1>i, <2>1, Moves
  <2>3. CASE log' = log
    <3>1. ASSUME excuse' = {}, NEW q \in Processes, InSection(q)' PROVE sentinel' # Free /\ sentinel'.by = q
      <4>1. InSection(q)
          BY Zenon, <2>2, <3>1 DEF InSection
      <4> QED BY Zenon, <2>1, <3>1, <4>1 DEF AuditInv, ChainInv
    <3> QED BY Zenon, <1>0, <2>1, <2>2, <2>3, <3>1, ElsewhereInv
  <2>4. ASSUME proc[p].at = "write", NEW end \in {"cut", "none", "newline"}, log' = Written(p, FALSE, end)
        PROVE  AuditInv'
    <3>1. log' # <<>>
        BY ZenonT(40), <1>0, <2>4, WrittenIs
    <3> QED BY Zenon, <2>1, <2>2, <2>4, <3>1, WriteInv
  <2> QED BY Zenon, <2>1, <2>3, <2>4
<1>11. CASE UNCHANGED auditVars
  <2>1. UNCHANGED <<log, keyFile, sentinel, proc, excuse, appends>>
      BY Zenon, <1>11 DEF auditVars
  <2>2. AuditTypes'
      BY Zenon, <1>0, <2>1 DEF AuditTypes
  <2>3. ASSUME ChainInv PROVE ChainInv'
      BY Zenon, <2>1, <2>3 DEF ChainInv, InSection, TornTail, LastHash, Chained
  <2> QED BY Zenon, <2>1, <2>2, <2>3 DEF AuditInv
<1> QED BY Zenon, <1>1, <1>2, <1>3, <1>4, <1>5, <1>6, <1>7, <1>8, <1>9, <1>10, <1>11 DEF AuditNext, AuditOver

\* For any number of processes, appends and crashes the audit log verifies up
\* to its last complete record, unless one of the four things happened that
\* AppendAuditLog cannot make good (VerifyAuditChain).
THEOREM AuditChainVerifies == AuditSpec => []ChainVerifies
<1>1. ASSUME AuditInv PROVE ChainVerifies
  <2> SUFFICES ASSUME excuse = {} PROVE VerifyAuditChain(CompleteRecords)
      BY Zenon DEF ChainVerifies
  <2>1. log \in Seq(Lines) /\ Chained /\ Len(log) \in Nat
      BY Zenon, <1>1, LenProperties DEF AuditInv, AuditTypes, ChainInv
  <2> DEFINE whole == CompleteRecords
  <2>2. /\ whole \in Seq(Lines) /\ Len(whole) \in Nat /\ Len(whole) <= Len(log)
        /\ \A i \in 1 .. Len(whole) : whole[i] = log[i] /\ whole[i].end \notin {"cut", "garbled"}
    <3>1. CASE TornTail
      <4>1. whole = SubSeq(log, 1, Len(log) - 1) /\ log # <<>>
          BY Zenon, <3>1 DEF CompleteRecords, TornTail
      <4>2. Len(log) - 1 \in 0 .. Len(log)
          BY <2>1, <4>1, EmptySeq
      <4> HIDE DEF whole
      <4>0. \A i \in 1 .. Len(log) - 1 : log[i] \in Lines
          BY <2>1, <4>2, ElementOfSeq
      <4> DEFINE m == Len(log) - 1
      <4>5. m \in Nat /\ 1 \in Int
          BY <4>2
      <4> HIDE DEF m
      <4>6. /\ SubSeq(log, 1, m) \in Seq(Lines) /\ Len(SubSeq(log, 1, m)) = IF 1 <= m THEN m - 1 + 1 ELSE 0
            /\ \A i \in 1 .. m - 1 + 1 : SubSeq(log, 1, m)[i] = log[1 + i - 1]
        <5>1. \A i \in 1 .. m : log[i] \in Lines
            BY Zenon, <4>0 DEF m
        <5> QED BY <4>5, <5>1, SubSeqProperties
      <4>7. Len(SubSeq(log, 1, m)) = m /\ \A i \in 1 .. m : SubSeq(log, 1, m)[i] = log[i]
          BY <4>5, <4>6
      <4>3. /\ whole \in Seq(Lines) /\ Len(whole) = Len(log) - 1
            /\ \A i \in 1 .. Len(whole) : whole[i] = log[i]
          BY Zenon, <4>1, <4>6, <4>7 DEF m
      <4>4. \A i \in 1 .. Len(whole) : log[i].end = "newline"
          BY <2>1, <4>2, <4>3 DEF Chained
      <4>8. Len(whole) \in Nat /\ Len(whole) <= Len(log)
          BY <2>1, <4>2, <4>3
      <4>9. \A i \in 1 .. Len(whole) : whole[i] = log[i] /\ whole[i].end \notin {"cut", "garbled"}
          BY Zenon, <4>3, <4>4
      <4> QED BY Zenon, <4>3, <4>8, <4>9
    <3>2. CASE ~TornTail
      <4>1. whole = log
          BY Zenon, <3>2 DEF CompleteRecords
      <4>2. \A i \in 1 .. Len(log) : log[i].end \notin {"cut", "garbled"}
        <5> SUFFICES ASSUME NEW i \in 1 .. Len(log) PROVE log[i].end \notin {"cut", "garbled"}
            BY Zenon
        <5>1. CASE i = Len(log)
            BY <2>1, <3>2, <5>1, EmptySeq DEF TornTail, LastLine
        <5>2. CASE i # Len(log)
            BY <2>1, <5>2 DEF Chained
        <5> QED BY Zenon, <5>1, <5>2
      <4> QED BY <2>1, <4>1, <4>2
    <3> QED BY Zenon, <3>1, <3>2
  <2> HIDE DEF whole
  <2>3. CASE Len(whole) = 0
    <3>1. "default" \in Keys /\ verifyAuditLines(whole, "default")
        BY <2>2, <2>3, LenProperties DEF verifyAuditLines, Keys
    <3> QED BY Zenon, <3>1 DEF VerifyAuditChain, whole
  <2>4. CASE Len(whole) # 0
    <3>1. log[1].key \in Keys
      <4>1. 1 \in 1 .. Len(log)
          BY <2>1, <2>2, <2>4
      <4>2. log[1] \in Lines
          BY Zenon, <2>1, <4>1, ElementOfSeq
      <4> QED BY Zenon, <4>2 DEF Lines
    <3>2. verifyAuditLines(whole, log[1].key)
      <4> SUFFICES ASSUME NEW i \in 1 .. Len(whole)
                   PROVE  /\ whole[i].end \notin {"cut", "garbled"} /\ whole[i].key = log[1].key
                          /\ whole[i].prev = (IF i = 1 THEN -1 ELSE whole[i - 1].n)
          BY Zenon, <2>2, LenProperties DEF verifyAuditLines
      <4>1. i \in 1 .. Len(log) /\ whole[i] = log[i] /\ (i # 1 => whole[i - 1] = log[i - 1])
          BY <2>1, <2>2
      <4> QED BY Zenon, <2>1, <2>2, <4>1 DEF Chained
    <3> QED BY Zenon, <3>1, <3>2 DEF VerifyAuditChain, whole
  <2> QED BY Zenon, <2>2, <2>3, <2>4
<1>2. AuditInv /\ [AuditNext]_auditVars => AuditInv'
    BY Zenon, AuditStep
<1> QED BY <1>1, <1>2, AuditInitial, PTL DEF AuditSpec

-----------------------------------------------------------------------------
(* Saga *)

\* The completed steps but the newest, and the newest.
Front(q) == SubSeq(q, 1, Len(q) - 1)
Last(q) == q[Len(q)]

\* The types of a saga.
SagaType ==
    /\ compensable \subseteq SagaSteps
    /\ saga \in [pc : {"forward", "compensate", "committed", "aborted"}, step : SagaSteps,
                 completed : Seq(SagaSteps)]
    /\ applied \in [SagaSteps -> Nat] /\ tried \in [SagaSteps -> Nat] /\ crashes \in Nat

\* A completed step has one effect to undo.
Undoable(i) == IF i <= Len(saga.completed) THEN 1 ELSE 0

(* The steps to undo are the first ones, in order.  Every effect of a step *)
(* was compensated, is still to be undone, or was lost in a crash.         *)
SagaInv ==
    /\ SagaType
    /\ \A k \in 1 .. Len(saga.completed) : saga.completed[k] = k
    /\ saga.pc = "forward" => Len(saga.completed) = saga.step - 1
    /\ saga.pc = "aborted" => Len(saga.completed) = 0
    /\ \A i \in compensable : /\ tried[i] + Undoable(i) <= applied[i]
                              /\ applied[i] <= tried[i] + Undoable(i) + crashes
    /\ (saga.pc \in {"forward", "committed"} /\ crashes = 0) => \A i \in SagaSteps : tried[i] = 0

\* The forward steps are 1 to the final one.
LEMMA StepsAreNumbered == FinalStep \in Nat /\ SagaSteps = 1 .. FinalStep /\ 1 \in SagaSteps
<1>1. PICK n \in SagaSteps : SagaSteps = 1 .. n
    BY Zenon, SagaAssumption
<1>2. n \in Int /\ 1 <= n
    BY <1>1
<1>3. n \in SagaSteps /\ \A m \in SagaSteps : m <= n
    BY <1>1, <1>2
<1>4. FinalStep \in SagaSteps /\ \A m \in SagaSteps : m <= FinalStep
    BY Zenon, <1>3 DEF FinalStep
<1>5. FinalStep = n
    BY <1>1, <1>2, <1>3, <1>4
<1> QED BY <1>1, <1>2, <1>5

\* Appending adds one entry at the end and keeps the others.
LEMMA CompletedGrows ==
    ASSUME NEW q \in Seq(SagaSteps), NEW e \in SagaSteps
    PROVE  /\ Append(q, e) \in Seq(SagaSteps) /\ Len(Append(q, e)) = Len(q) + 1 /\ Len(q) \in Nat
           /\ Append(q, e)[Len(q) + 1] = e
           /\ \A k \in 1 .. Len(q) : Append(q, e)[k] = q[k]
    OBVIOUS

\* The front of a sequence is the sequence without its last entry.
LEMMA CompletedShrinks ==
    ASSUME NEW q \in Seq(SagaSteps), q # <<>>
    PROVE  /\ Front(q) \in Seq(SagaSteps) /\ Len(Front(q)) = Len(q) - 1 /\ Len(q) \in Nat \ {0}
           /\ Last(q) = q[Len(q)] /\ Last(q) \in SagaSteps
           /\ \A k \in 1 .. Len(q) - 1 : Front(q)[k] = q[k]
<1>1. Len(q) \in Nat \ {0}
    OBVIOUS
<1>2. Front(q) = SubSeq(q, 1, Len(q) - 1) /\ Last(q) = q[Len(q)]
    BY Zenon DEF Front, Last
<1>3. Last(q) \in SagaSteps
    BY <1>1, <1>2
<1>4. /\ SubSeq(q, 1, Len(q) - 1) \in Seq(SagaSteps)
      /\ Len(SubSeq(q, 1, Len(q) - 1)) = Len(q) - 1
      /\ \A k \in 1 .. Len(q) - 1 : SubSeq(q, 1, Len(q) - 1)[k] = q[k]
  <2> DEFINE n == Len(q) - 1
  <2>1. n \in Nat /\ 1 \in Int /\ n \in Int /\ \A i \in 1 .. n : q[i] \in SagaSteps
      BY <1>1
  <2> HIDE DEF n
  <2>2. /\ SubSeq(q, 1, n) \in Seq(SagaSteps)
        /\ Len(SubSeq(q, 1, n)) = IF 1 <= n THEN n - 1 + 1 ELSE 0
        /\ \A i \in 1 .. n - 1 + 1 : SubSeq(q, 1, n)[i] = q[1 + i - 1]
      BY <2>1, SubSeqProperties
  <2>3. Len(SubSeq(q, 1, n)) = n
      BY <2>1, <2>2
  <2>4. \A k \in 1 .. n : SubSeq(q, 1, n)[k] = q[k]
    <3>1. n - 1 + 1 = n /\ \A k \in 1 .. n : 1 + k - 1 = k
        BY <2>1
    <3> QED BY Zenon, <2>2, <3>1
  <2> QED BY Zenon, <2>2, <2>3, <2>4 DEF n
<1> QED BY Zenon, <1>1, <1>2, <1>3, <1>4

\* A new saga has done nothing and undone nothing.
LEMMA SagaStarts == SagaInit => SagaInv
<1> SUFFICES ASSUME SagaInit PROVE SagaInv
    BY Zenon
<1>1. Len(saga.completed) = 0 /\ saga.step = 1 /\ saga.pc = "forward" /\ SagaType
    BY StepsAreNumbered DEF SagaInit, startSaga, SagaType
<1>2. \A i \in SagaSteps : Undoable(i) = 0 /\ applied[i] = 0 /\ tried[i] = 0
    BY <1>1, StepsAreNumbered DEF SagaInit, Undoable
<1> QED BY <1>1, <1>2 DEF SagaInv, SagaType, SagaInit

\* A forward step takes effect and becomes the newest to undo.
LEMMA SagaForward == ASSUME SagaInv, forward PROVE SagaInv'
<1> DEFINE q == saga.completed
           e == saga.step
<1>1. /\ q \in Seq(SagaSteps) /\ e \in SagaSteps /\ Len(q) = e - 1 /\ saga.pc = "forward"
      /\ \A k \in 1 .. Len(q) : q[k] = k
    BY Zenon DEF SagaInv, SagaType, forward
<1>2. /\ saga'.completed = Append(q, e)
      /\ saga'.pc = IF e = FinalStep THEN "committed" ELSE "forward"
      /\ saga'.step = IF e = FinalStep THEN FinalStep ELSE e + 1
      /\ applied' = [applied EXCEPT ![e] = @ + 1] /\ UNCHANGED <<compensable, tried, crashes>>
    BY Zenon DEF forward
<1>3. /\ Len(saga'.completed) = e /\ e \in Nat /\ saga'.completed \in Seq(SagaSteps)
      /\ \A k \in 1 .. e : saga'.completed[k] = k
    BY <1>1, <1>2, CompletedGrows, StepsAreNumbered
<1>4. saga'.step \in SagaSteps
    BY <1>1, <1>2, StepsAreNumbered
<1>5. saga' = [pc |-> saga'.pc, step |-> saga'.step, completed |-> saga'.completed]
    BY Zenon DEF forward
<1>6. SagaType'
  <2>1. saga' \in [pc : {"forward", "compensate", "committed", "aborted"}, step : SagaSteps,
                  completed : Seq(SagaSteps)]
      BY Zenon, <1>2, <1>3, <1>4, <1>5
  <2>2. applied' \in [SagaSteps -> Nat]
      BY <1>1, <1>2 DEF SagaInv, SagaType
  <2> QED BY Zenon, <1>2, <2>1, <2>2 DEF SagaInv, SagaType
<1>7. \A i \in compensable : /\ tried'[i] + Undoable(i)' <= applied'[i]
                             /\ applied'[i] <= tried'[i] + Undoable(i)' + crashes'
  <2> SUFFICES ASSUME NEW i \in compensable
               PROVE  /\ tried'[i] + Undoable(i)' <= applied'[i]
                      /\ applied'[i] <= tried'[i] + Undoable(i)' + crashes'
      BY Zenon
  <2>1. /\ i \in SagaSteps /\ i \in Nat /\ tried'[i] = tried[i] /\ tried[i] \in Nat
        /\ applied[i] \in Nat /\ crashes \in Nat /\ crashes' = crashes
        /\ tried[i] + Undoable(i) <= applied[i] /\ applied[i] <= tried[i] + Undoable(i) + crashes
        /\ applied'[i] = IF i = e THEN applied[i] + 1 ELSE applied[i]
      BY <1>1, <1>2, StepsAreNumbered DEF SagaInv, SagaType
  <2>2. Undoable(i)' = (IF i <= e THEN 1 ELSE 0) /\ Undoable(i) = (IF i <= e - 1 THEN 1 ELSE 0)
      BY Zenon, <1>1, <1>3 DEF Undoable
  <2> QED BY <1>3, <2>1, <2>2
<1>8. /\ saga'.pc \in {"forward", "committed"}
      /\ saga'.pc = "forward" => Len(saga'.completed) = saga'.step - 1
    BY <1>2, <1>3
<1>9. crashes' = 0 => \A i \in SagaSteps : tried'[i] = 0
    BY Zenon, <1>1, <1>2 DEF SagaInv
<1> QED BY Zenon, <1>2, <1>3, <1>6, <1>7, <1>8, <1>9 DEF SagaInv

\* A round of the rollback undoes the newest step that is left.
LEMMA SagaBack == ASSUME SagaInv, compensateSaga PROVE SagaInv'
<1> DEFINE q == saga.completed
           n == Len(saga.completed)
<1>1. q \in Seq(SagaSteps) /\ q # <<>> /\ (\A k \in 1 .. n : q[k] = k) /\ saga.pc = "compensate"
    BY Zenon DEF SagaInv, SagaType, compensateSaga
<1>2. /\ Front(q) \in Seq(SagaSteps) /\ Len(Front(q)) = n - 1 /\ n \in Nat \ {0}
      /\ Last(q) = n /\ n \in SagaSteps /\ \A k \in 1 .. n - 1 : Front(q)[k] = k
  <2>1. /\ Front(q) \in Seq(SagaSteps) /\ Len(Front(q)) = n - 1 /\ n \in Nat \ {0}
        /\ Last(q) = q[n] /\ Last(q) \in SagaSteps
        /\ \A k \in 1 .. n - 1 : Front(q)[k] = q[k]
      BY Zenon, <1>1, CompletedShrinks
  <2>2. n \in 1 .. n /\ \A k \in 1 .. n - 1 : k \in 1 .. n
      BY <2>1
  <2>3. q[n] = n /\ \A k \in 1 .. n - 1 : q[k] = k
      BY Zenon, <1>1, <2>2
  <2> QED BY Zenon, <2>1, <2>3
<1>3. /\ saga' = [saga EXCEPT !.completed = Front(q)]
      /\ tried' = [tried EXCEPT ![n] = IF n \in compensable THEN tried[n] + 1 ELSE tried[n]]
      /\ UNCHANGED <<compensable, applied, crashes>>
  <2>1. Newest = n
      BY Zenon, <1>2 DEF Last, Newest
  <2> QED BY Zenon, <1>2, <2>1 DEF compensateSaga, SagaInv, SagaType, Front
<1>4. saga'.completed = Front(q) /\ saga'.pc = "compensate" /\ saga'.step = saga.step
    BY Zenon, <1>1, <1>3 DEF SagaInv, SagaType
<1>5. SagaType'
  <2>1. tried' \in [SagaSteps -> Nat]
      BY <1>2, <1>3 DEF SagaInv, SagaType
  <2> QED BY Zenon, <1>1, <1>2, <1>3, <2>1 DEF SagaInv, SagaType
<1>6. \A i \in compensable : /\ tried'[i] + Undoable(i)' <= applied'[i]
                             /\ applied'[i] <= tried'[i] + Undoable(i)' + crashes'
  <2> SUFFICES ASSUME NEW i \in compensable
               PROVE  /\ tried'[i] + Undoable(i)' <= applied'[i]
                      /\ applied'[i] <= tried'[i] + Undoable(i)' + crashes'
      BY Zenon
  <2>1. /\ i \in SagaSteps /\ tried \in [SagaSteps -> Nat] /\ applied \in [SagaSteps -> Nat]
        /\ crashes \in Nat
        /\ tried[i] + Undoable(i) <= applied[i] /\ applied[i] <= tried[i] + Undoable(i) + crashes
      BY Zenon DEF SagaInv, SagaType
  <2>2. /\ i \in Nat /\ tried[i] \in Nat /\ applied[i] \in Nat
        /\ applied'[i] = applied[i] /\ crashes' = crashes
      BY <1>3, <2>1, StepsAreNumbered
  <2>3. tried'[i] = IF i = n THEN tried[i] + 1 ELSE tried[i]
      BY Zenon, <1>2, <1>3, <2>1
  <2>4. Undoable(i)' = (IF i <= n - 1 THEN 1 ELSE 0) /\ Undoable(i) = (IF i <= n THEN 1 ELSE 0)
      BY Zenon, <1>2, <1>4 DEF Undoable
  <2> QED BY <1>2, <2>1, <2>2, <2>3, <2>4
<1> QED BY Zenon, <1>2, <1>3, <1>4, <1>5, <1>6 DEF SagaInv

\* A crash forgets what was to be undone: one effect more of each step.
LEMMA SagaDies == ASSUME SagaInv, SagaCrash PROVE SagaInv'
<1>1. /\ saga'.pc = "forward" /\ saga'.step = 1 /\ Len(saga'.completed) = 0
      /\ crashes' = crashes + 1 /\ UNCHANGED <<compensable, applied, tried>>
    BY Zenon DEF SagaCrash, startSaga
<1>2. SagaType'
  <2>1. startSaga \in [pc : {"forward", "compensate", "committed", "aborted"}, step : SagaSteps,
                      completed : Seq(SagaSteps)]
      BY StepsAreNumbered DEF startSaga
  <2>2. saga' = startSaga
      BY Zenon DEF SagaCrash
  <2>3. /\ compensable \subseteq SagaSteps /\ crashes \in Nat
        /\ applied \in [SagaSteps -> Nat] /\ tried \in [SagaSteps -> Nat]
      BY Zenon DEF SagaInv, SagaType
  <2>4. crashes' \in Nat
      BY <1>1, <2>3
  <2> QED BY Zenon, <1>1, <2>1, <2>2, <2>3, <2>4 DEF SagaType
<1>3. \A i \in compensable : /\ tried'[i] + Undoable(i)' <= applied'[i]
                             /\ applied'[i] <= tried'[i] + Undoable(i)' + crashes'
  <2> SUFFICES ASSUME NEW i \in compensable
               PROVE  /\ tried'[i] + Undoable(i)' <= applied'[i]
                      /\ applied'[i] <= tried'[i] + Undoable(i)' + crashes'
      BY Zenon
  <2>1. /\ i \in Nat \ {0} /\ tried[i] \in Nat /\ applied[i] \in Nat /\ crashes \in Nat
        /\ tried[i] + Undoable(i) <= applied[i] /\ applied[i] <= tried[i] + Undoable(i) + crashes
      BY StepsAreNumbered DEF SagaInv, SagaType
  <2>2. Undoable(i)' = 0 /\ Undoable(i) \in {0, 1}
      BY <1>1, <2>1 DEF Undoable
  <2> QED BY <1>1, <2>1, <2>2
<1>4. crashes' # 0
    BY <1>1 DEF SagaInv, SagaType
<1> QED BY <1>1, <1>2, <1>3, <1>4 DEF SagaInv

\* Every step of a saga keeps its effects accounted for.
LEMMA SagaStep == SagaInv /\ [SagaNext]_sagaVars => SagaInv'
<1> SUFFICES ASSUME SagaInv, [SagaNext]_sagaVars PROVE SagaInv'
    BY Zenon
<1>1. CASE forwardFails
  <2>1. /\ saga'.pc = "compensate" /\ saga'.completed = saga.completed
        /\ UNCHANGED <<compensable, applied, tried, crashes>>
      BY Zenon, <1>1 DEF forwardFails, SagaInv, SagaType
  <2>2. SagaType'
      BY Zenon, <1>1, <2>1 DEF forwardFails, SagaInv, SagaType
  <2> QED BY Zenon, <2>1, <2>2 DEF SagaInv, Undoable
<1>2. CASE abort
  <2>1. /\ saga'.pc = "aborted" /\ saga'.completed = saga.completed /\ Len(saga.completed) = 0
        /\ UNCHANGED <<compensable, applied, tried, crashes>>
      BY Zenon, <1>2 DEF abort, SagaInv, SagaType
  <2>2. SagaType'
      BY Zenon, <1>2, <2>1 DEF abort, SagaInv, SagaType
  <2> QED BY Zenon, <2>1, <2>2 DEF SagaInv, Undoable
<1>3. CASE SagaReturned \/ UNCHANGED sagaVars
  <2>1. UNCHANGED <<compensable, saga, applied, tried, crashes>>
      BY Zenon, <1>3 DEF SagaReturned, sagaVars
  <2> QED BY Zenon, <2>1 DEF SagaInv, SagaType, Undoable
<1> QED BY Zenon, <1>1, <1>2, <1>3, SagaForward, SagaBack, SagaDies DEF SagaNext

\* A saga of any length that reports failure has tried the compensation of
\* every effect that no crash made it forget, and one that commits without
\* a crash has undone nothing (executeSagaStep, compensateSaga).
THEOREM EffectsUndone == SagaSpec => []RollbackComplete
<1>1. SagaInv => RollbackComplete
  <2> SUFFICES ASSUME SagaInv PROVE RollbackComplete
      BY Zenon
  <2>1. ASSUME saga.pc = "aborted", NEW i \in compensable
        PROVE  tried[i] <= applied[i] /\ applied[i] <= tried[i] + crashes
    <3>1. i \in Nat \ {0} /\ tried[i] \in Nat /\ applied[i] \in Nat /\ crashes \in Nat
        BY StepsAreNumbered DEF SagaInv, SagaType
    <3>2. Undoable(i) = 0
        BY <2>1, <3>1 DEF SagaInv, Undoable
    <3> QED BY <3>1, <3>2 DEF SagaInv
  <2> QED BY Zenon, <2>1 DEF SagaInv, RollbackComplete
<1> QED BY SagaStarts, SagaStep, <1>1, PTL DEF SagaSpec

-----------------------------------------------------------------------------
(* The tasks of the agent daemon                                           *)

\* The types of the daemon's tasks.
DaemonTypes ==
    /\ taskQueue \in Seq(Tasks) /\ active \subseteq Tasks
    /\ status \in [Tasks -> {"", "pending", "running", "done", "failed"}]
    /\ handler \in [Tasks -> {"none", "send", "wait"}]

\* The inductive invariant of the daemon's tasks.
DaemonInv == DaemonTypes /\ StatusTracksLife

\* The first task leaves the queue, and is in it no more.
LEMMA LeavesQueue ==
    ASSUME NEW q \in Seq(Tasks), q # <<>>, IsInjective(q)
    PROVE  /\ Head(q) \in Tasks /\ Tail(q) \in Seq(Tasks) /\ Len(Tail(q)) = Len(q) - 1
           /\ IsInjective(Tail(q)) /\ Len(q) \in Nat /\ Head(q) \in Range(q)
           /\ \A t \in Tasks : t \in Range(Tail(q)) <=> t \in Range(q) /\ t # Head(q)
<1>1. /\ Head(q) \in Tasks /\ Tail(q) \in Seq(Tasks) /\ Len(Tail(q)) = Len(q) - 1
      /\ Len(q) \in Nat /\ Len(q) > 0 /\ Head(q) = q[1]
      /\ \A i \in 1 .. Len(q) - 1 : Tail(q)[i] = q[i + 1]
  BY EmptySeq, HeadTailProperties
<1>2. DOMAIN q = 1 .. Len(q) /\ DOMAIN Tail(q) = 1 .. Len(q) - 1
  BY <1>1
<1>3. \A i, j \in 1 .. Len(q) : q[i] = q[j] => i = j
  BY Zenon, <1>2 DEF IsInjective
<1>4. \A i, j \in 1 .. Len(q) - 1 : Tail(q)[i] = Tail(q)[j] => i = j
  BY <1>1, <1>3
<1>5. IsInjective(Tail(q))
  BY Zenon, <1>2, <1>4 DEF IsInjective
<1>6. Head(q) \in Range(q)
  BY <1>1, <1>2 DEF Range
<1>7. ASSUME NEW t \in Tasks PROVE t \in Range(Tail(q)) <=> t \in Range(q) /\ t # Head(q)
  <2>1. t \in Range(q) <=> \E i \in 1 .. Len(q) : t = q[i]
    BY Zenon, <1>2 DEF Range
  <2>2. t \in Range(Tail(q)) <=> \E i \in 1 .. Len(q) - 1 : t = q[i + 1]
    BY Zenon, <1>1, <1>2 DEF Range
  <2>3. ASSUME NEW i \in 1 .. Len(q), t = q[i], t # q[1] PROVE \E j \in 1 .. Len(q) - 1 : t = q[j + 1]
    <3>1. i # 1 BY Zenon, <2>3
    <3>2. i - 1 \in 1 .. Len(q) - 1 /\ t = q[(i - 1) + 1] BY <3>1, <2>3, <1>1
    <3> QED BY Zenon, <3>2
  <2>4. ASSUME NEW i \in 1 .. Len(q) - 1, t = q[i + 1] PROVE t # q[1] /\ \E j \in 1 .. Len(q) : t = q[j]
    <3>1. i + 1 \in 1 .. Len(q) /\ 1 \in 1 .. Len(q) /\ i + 1 # 1 BY <1>1
    <3> QED BY Zenon, <3>1, <2>4, <1>3
  <2> QED BY Zenon, <2>1, <2>2, <2>3, <2>4, <1>1
<1> QED BY Zenon, <1>1, <1>5, <1>6, <1>7

\* A task that is not in the queue joins it at the end.
LEMMA JoinsQueue ==
    ASSUME NEW q \in Seq(Tasks), IsInjective(q), NEW u \in Tasks, u \notin Range(q)
    PROVE  /\ Append(q, u) \in Seq(Tasks) /\ Len(Append(q, u)) = Len(q) + 1 /\ Len(q) \in Nat
           /\ IsInjective(Append(q, u))
           /\ \A t \in Tasks : t \in Range(Append(q, u)) <=> t \in Range(q) \/ t = u
<1>1. /\ Append(q, u) \in Seq(Tasks) /\ Len(Append(q, u)) = Len(q) + 1 /\ Len(q) \in Nat
      /\ Append(q, u)[Len(q) + 1] = u /\ \A i \in 1 .. Len(q) : Append(q, u)[i] = q[i]
  BY AppendProperties
<1>2. DOMAIN q = 1 .. Len(q) /\ DOMAIN Append(q, u) = 1 .. Len(q) + 1
  BY <1>1
<1>3. \A i \in 1 .. Len(q) : q[i] # u
  BY Zenon, <1>2 DEF Range
<1>4. \A i, j \in 1 .. Len(q) : q[i] = q[j] => i = j
  BY Zenon, <1>2 DEF IsInjective
<1>5. \A i \in 1 .. Len(q) + 1 : i \in 1 .. Len(q) \/ i = Len(q) + 1
  BY <1>1
<1>6. \A i, j \in 1 .. Len(q) + 1 : Append(q, u)[i] = Append(q, u)[j] => i = j
  BY Zenon, <1>1, <1>3, <1>4, <1>5
<1>7. IsInjective(Append(q, u))
  BY Zenon, <1>2, <1>6 DEF IsInjective
<1>8. ASSUME NEW t \in Tasks PROVE t \in Range(Append(q, u)) <=> t \in Range(q) \/ t = u
  <2>1. t \in Range(q) <=> \E i \in 1 .. Len(q) : t = q[i]
    BY Zenon, <1>2 DEF Range
  <2>2. t \in Range(Append(q, u)) <=> \E i \in 1 .. Len(q) + 1 : t = Append(q, u)[i]
    BY Zenon, <1>2 DEF Range
  <2>3. (\E i \in 1 .. Len(q) + 1 : t = Append(q, u)[i]) <=> (\E i \in 1 .. Len(q) : t = q[i]) \/ t = u
    <3>1. \A i \in 1 .. Len(q) : i \in 1 .. Len(q) + 1 BY <1>1
    <3>2. Len(q) + 1 \in 1 .. Len(q) + 1 BY <1>1
    <3> QED BY Zenon, <3>1, <3>2, <1>1, <1>5
  <2> QED BY Zenon, <2>1, <2>2, <2>3
<1> QED BY Zenon, <1>1, <1>7, <1>8

\* What Enqueue leaves in a queue before it appends: as it was, or without the oldest task.
LEMMA RoomMade ==
    ASSUME DaemonInv
    PROVE  /\ room \in Seq(Tasks) /\ IsInjective(room) /\ Len(room) < MaxSize
           /\ roomStatus \in [Tasks -> {"", "pending", "running", "done", "failed"}]
           /\ \A t \in Tasks :
                 /\ t \in Range(room) <=> roomStatus[t] = "pending"
                 /\ t \in active <=> roomStatus[t] = "running"
                 /\ t \in Range(room) => t \in Range(taskQueue)
<1>0. Len(taskQueue) \in Nat
  <2>1. taskQueue \in Seq(Tasks) BY Zenon DEF DaemonInv, DaemonTypes
  <2> QED BY Zenon, <2>1, LenProperties
<1>1. CASE ~QueueFull
  <2>1. room = taskQueue /\ roomStatus = status
    BY Zenon, <1>1 DEF room, roomStatus
  <2>2. Len(room) < MaxSize
    BY <2>1, <1>0, <1>1, DaemonAssumption DEF QueueFull
  <2> QED BY Zenon, <2>1, <2>2 DEF DaemonInv, DaemonTypes, StatusTracksLife
<1>2. CASE QueueFull
  <2>1. taskQueue # <<>>
    <3>1. Len(taskQueue) > 0 BY <1>2, <1>0, DaemonAssumption DEF QueueFull
    <3> QED BY <3>1
  <2> DEFINE h == Head(taskQueue)
  <2>2. /\ h \in Tasks /\ Tail(taskQueue) \in Seq(Tasks) /\ Len(Tail(taskQueue)) = Len(taskQueue) - 1
        /\ IsInjective(Tail(taskQueue)) /\ h \in Range(taskQueue)
        /\ \A t \in Tasks : t \in Range(Tail(taskQueue)) <=> t \in Range(taskQueue) /\ t # h
    BY Zenon, <2>1, LeavesQueue DEF DaemonInv, DaemonTypes, StatusTracksLife
  <2>3. room = Tail(taskQueue) /\ roomStatus = [status EXCEPT ![h] = ""]
    BY Zenon, <1>2 DEF room, roomStatus
  <2> HIDE DEF h
  <2>4. /\ roomStatus \in [Tasks -> {"", "pending", "running", "done", "failed"}] /\ roomStatus[h] = ""
        /\ \A t \in Tasks \ {h} : roomStatus[t] = status[t]
    BY Zenon, <2>2, <2>3 DEF DaemonInv, DaemonTypes
  <2>5. Len(room) < MaxSize
    <3>1. Len(taskQueue) <= MaxSize BY Zenon DEF DaemonInv, StatusTracksLife
    <3>2. Len(room) = Len(taskQueue) - 1 BY Zenon, <2>2, <2>3
    <3> QED BY <3>1, <3>2, <1>0, DaemonAssumption
  <2>6. status[h] = "pending" /\ h \notin active
    BY Zenon, <2>2 DEF DaemonInv, StatusTracksLife
  <2>7. ASSUME NEW t \in Tasks
        PROVE  /\ t \in Range(room) <=> roomStatus[t] = "pending"
               /\ t \in active <=> roomStatus[t] = "running"
               /\ t \in Range(room) => t \in Range(taskQueue)
    <3>1. CASE t = h BY Zenon, <3>1, <2>2, <2>3, <2>4, <2>6
    <3>2. CASE t # h BY Zenon, <3>2, <2>2, <2>3, <2>4 DEF DaemonInv, StatusTracksLife
    <3> QED BY Zenon, <3>1, <3>2
  <2> QED BY Zenon, <2>2, <2>3, <2>4, <2>5, <2>7
<1> QED BY Zenon, <1>1, <1>2

\* Pruning forgets finished tasks only.
LEMMA PruneForgetsFinished ==
    ASSUME NEW st \in [Tasks -> {"", "pending", "running", "done", "failed"}], NEW new \in pruneStatuses(st)
    PROVE  /\ new \in [Tasks -> {"", "pending", "running", "done", "failed"}]
           /\ \A t \in Tasks : new[t] = st[t] \/ (new[t] = "" /\ st[t] \in {"done", "failed"})
<1>1. PICK R \in SUBSET Over(st) : new = [t \in Tasks |-> IF t \in R THEN "" ELSE st[t]]
  BY Zenon DEF pruneStatuses
<1>2. ASSUME NEW t \in R PROVE st[t] \in {"done", "failed"}
  BY Zenon, <1>2, <1>1 DEF Over
<1> QED BY Zenon, <1>1, <1>2

\* Enqueue keeps the books.
LEMMA EnqueueInv ==
    ASSUME DaemonInv, NEW u \in Tasks, Enqueue(u)
    PROVE  DaemonInv'
<1>0. UNCHANGED <<active, handler>>
  BY Zenon DEF Enqueue, queueVars
<1>1. CASE Duplicate(u)
  <2>1. UNCHANGED <<taskQueue, status>>
    BY Zenon, <1>1 DEF Enqueue, queueVars
  <2> QED BY Zenon, <1>0, <2>1 DEF DaemonInv, DaemonTypes, StatusTracksLife
<1>2. CASE ~Duplicate(u)
  <2>1. taskQueue' = Append(room, u) /\ status' = [roomStatus EXCEPT ![u] = "pending"]
    BY Zenon, <1>2 DEF Enqueue
  <2>2. u \notin active /\ u \notin Range(taskQueue)
    BY Zenon, <1>2 DEF Duplicate
  <2>3. /\ room \in Seq(Tasks) /\ IsInjective(room) /\ Len(room) < MaxSize
        /\ roomStatus \in [Tasks -> {"", "pending", "running", "done", "failed"}]
        /\ \A t \in Tasks :
              /\ t \in Range(room) <=> roomStatus[t] = "pending"
              /\ t \in active <=> roomStatus[t] = "running"
              /\ t \in Range(room) => t \in Range(taskQueue)
    BY Zenon, RoomMade
  <2>4. /\ taskQueue' \in Seq(Tasks) /\ Len(taskQueue') = Len(room) + 1 /\ Len(room) \in Nat
        /\ IsInjective(taskQueue')
        /\ \A t \in Tasks : t \in Range(taskQueue') <=> t \in Range(room) \/ t = u
    BY Zenon, <2>1, <2>2, <2>3, JoinsQueue
  <2>5. /\ status' \in [Tasks -> {"", "pending", "running", "done", "failed"}] /\ status'[u] = "pending"
        /\ \A t \in Tasks \ {u} : status'[t] = roomStatus[t]
    BY Zenon, <2>1, <2>3
  <2>6. Len(taskQueue') <= MaxSize
    <3>1. Len(taskQueue') = Len(room) + 1 /\ Len(room) \in Nat /\ Len(room) < MaxSize BY Zenon, <2>3, <2>4
    <3> QED BY <3>1, DaemonAssumption
  <2>7. ASSUME NEW t \in Tasks
        PROVE  /\ t \in Range(taskQueue') <=> status'[t] = "pending"
               /\ t \in active <=> status'[t] = "running"
    <3>1. CASE t = u BY Zenon, <3>1, <2>2, <2>4, <2>5
    <3>2. CASE t # u BY Zenon, <3>2, <2>3, <2>4, <2>5
    <3> QED BY Zenon, <3>1, <3>2
  <2>8. \A t \in Tasks : t \in active <=> handler[t] # "none"
    BY Zenon DEF DaemonInv, StatusTracksLife
  <2>9. StatusTracksLife'
    BY Zenon, <1>0, <2>4, <2>6, <2>7, <2>8 DEF StatusTracksLife
  <2>10. DaemonTypes'
    BY Zenon, <1>0, <2>4, <2>5 DEF DaemonInv, DaemonTypes
  <2> QED BY Zenon, <2>9, <2>10 DEF DaemonInv
<1> QED BY Zenon, <1>1, <1>2

\* Dequeue turns a pending task into one its goroutine executes.
LEMMA DequeueInv ==
    ASSUME DaemonInv, Dequeue
    PROVE  DaemonInv'
<1>1. CASE taskQueue = <<>>
  <2>1. UNCHANGED <<taskQueue, active, status, handler>>
    BY Zenon, <1>1 DEF Dequeue, queueVars
  <2> QED BY Zenon, <2>1 DEF DaemonInv, DaemonTypes, StatusTracksLife
<1>2. CASE taskQueue # <<>>
  <2> DEFINE h == Head(taskQueue)
  <2>1. /\ h \in Tasks /\ Tail(taskQueue) \in Seq(Tasks) /\ Len(Tail(taskQueue)) = Len(taskQueue) - 1
        /\ IsInjective(Tail(taskQueue)) /\ h \in Range(taskQueue) /\ Len(taskQueue) \in Nat
        /\ \A t \in Tasks : t \in Range(Tail(taskQueue)) <=> t \in Range(taskQueue) /\ t # h
    BY Zenon, <1>2, LeavesQueue DEF DaemonInv, DaemonTypes, StatusTracksLife
  <2>2. /\ taskQueue' = Tail(taskQueue) /\ active' = active \cup {h}
        /\ status' = [status EXCEPT ![h] = "running"] /\ handler' = [handler EXCEPT ![h] = "send"]
    BY Zenon, <1>2 DEF Dequeue, startHandler
  <2> HIDE DEF h
  <2>3. /\ status' \in [Tasks -> {"", "pending", "running", "done", "failed"}] /\ status'[h] = "running"
        /\ handler' \in [Tasks -> {"none", "send", "wait"}] /\ handler'[h] = "send"
        /\ \A t \in Tasks \ {h} : status'[t] = status[t] /\ handler'[t] = handler[t]
    BY Zenon, <2>1, <2>2 DEF DaemonInv, DaemonTypes
  <2>4. IsInjective(taskQueue') /\ Len(taskQueue') <= MaxSize
    BY <2>1, <2>2, DaemonAssumption DEF DaemonInv, StatusTracksLife
  <2>5. ASSUME NEW t \in Tasks
        PROVE  /\ t \in Range(taskQueue') <=> status'[t] = "pending"
               /\ t \in active' <=> status'[t] = "running"
               /\ t \in active' <=> handler'[t] # "none"
    <3>1. CASE t = h BY Zenon, <3>1, <2>1, <2>2, <2>3
    <3>2. CASE t # h BY Zenon, <3>2, <2>1, <2>2, <2>3 DEF DaemonInv, StatusTracksLife
    <3> QED BY Zenon, <3>1, <3>2
  <2>6. StatusTracksLife'
    BY Zenon, <2>4, <2>5 DEF StatusTracksLife
  <2>7. DaemonTypes'
    BY Zenon, <2>1, <2>2, <2>3 DEF DaemonInv, DaemonTypes
  <2> QED BY Zenon, <2>6, <2>7 DEF DaemonInv
<1> QED BY Zenon, <1>1, <1>2

\* Done and Failed close the books of their task only.
LEMMA FinishInv ==
    ASSUME DaemonInv, NEW u \in Tasks, handler[u] # "none", NEW s \in {"done", "failed"}, finish(u, s),
           UNCHANGED taskQueue
    PROVE  DaemonInv'
<1> DEFINE st == [status EXCEPT ![u] = IF @ = "" THEN "" ELSE s]
<1>1. status[u] = "running" /\ u \in active /\ u \notin Range(taskQueue)
  BY Zenon DEF DaemonInv, StatusTracksLife
<1>2. /\ st \in [Tasks -> {"", "pending", "running", "done", "failed"}] /\ st[u] = s
      /\ \A t \in Tasks \ {u} : st[t] = status[t]
  BY Zenon, <1>1 DEF DaemonInv, DaemonTypes
<1>3. status' \in pruneStatuses(st)
  BY Zenon DEF finish
<1> HIDE DEF st
<1>4. /\ status' \in [Tasks -> {"", "pending", "running", "done", "failed"}]
      /\ \A t \in Tasks : status'[t] = st[t] \/ (status'[t] = "" /\ st[t] \in {"done", "failed"})
  BY Zenon, <1>2, <1>3, PruneForgetsFinished
<1>5. active' = active \ {u} /\ handler' = [handler EXCEPT ![u] = "none"]
  BY Zenon DEF finish
<1>6. /\ handler' \in [Tasks -> {"none", "send", "wait"}] /\ handler'[u] = "none"
      /\ \A t \in Tasks \ {u} : handler'[t] = handler[t]
  BY Zenon, <1>5 DEF DaemonInv, DaemonTypes
<1>7. ASSUME NEW t \in Tasks
      PROVE  /\ t \in Range(taskQueue') <=> status'[t] = "pending"
             /\ t \in active' <=> status'[t] = "running"
             /\ t \in active' <=> handler'[t] # "none"
  <2>1. CASE t = u BY Zenon, <2>1, <1>1, <1>2, <1>4, <1>5, <1>6
  <2>2. CASE t # u
    <3>1. st[t] = status[t] /\ handler'[t] = handler[t] /\ (t \in active' <=> t \in active)
      BY Zenon, <2>2, <1>2, <1>5, <1>6
    <3>2. /\ status'[t] = "pending" <=> status[t] = "pending"
          /\ status'[t] = "running" <=> status[t] = "running"
      BY Zenon, <3>1, <1>4
    <3> QED BY Zenon, <3>1, <3>2 DEF DaemonInv, StatusTracksLife
  <2> QED BY Zenon, <2>1, <2>2
<1>8. StatusTracksLife'
  BY Zenon, <1>7 DEF StatusTracksLife, DaemonInv
<1>9. DaemonTypes'
  BY Zenon, <1>4, <1>5, <1>6 DEF DaemonInv, DaemonTypes
<1> QED BY Zenon, <1>8, <1>9 DEF DaemonInv

\* The steps of a task's goroutine.
LEMMA HandlerInv ==
    ASSUME DaemonInv, NEW u \in Tasks, handlerStep(u)
    PROVE  DaemonInv'
<1>1. CASE handlerSend(u)
  <2>1. CASE handler' = [handler EXCEPT ![u] = "wait"] /\ UNCHANGED queueVars
    <3>1. handler[u] = "send" /\ UNCHANGED <<taskQueue, active, status>>
      BY Zenon, <1>1, <2>1 DEF handlerSend, queueVars
    <3>2. /\ handler' \in [Tasks -> {"none", "send", "wait"}] /\ handler'[u] = "wait"
          /\ \A t \in Tasks \ {u} : handler'[t] = handler[t]
      BY Zenon, <2>1 DEF DaemonInv, DaemonTypes
    <3>3. \A t \in Tasks : handler'[t] # "none" <=> handler[t] # "none"
      BY Zenon, <3>1, <3>2
    <3> QED BY Zenon, <3>1, <3>2, <3>3 DEF DaemonInv, DaemonTypes, StatusTracksLife
  <2>2. CASE UNCHANGED queueVars /\ UNCHANGED handler
    BY Zenon, <2>2 DEF queueVars, DaemonInv, DaemonTypes, StatusTracksLife
  <2>3. CASE finish(u, "failed") /\ UNCHANGED taskQueue
    BY Zenon, <1>1, <2>3, FinishInv DEF handlerSend
  <2> QED BY Zenon, <1>1, <2>1, <2>2, <2>3 DEF handlerSend
<1>2. CASE handlerWait(u)
  <2>1. handler[u] # "none" /\ UNCHANGED taskQueue
    BY Zenon, <1>2 DEF handlerWait
  <2>2. \E s \in {"done", "failed"} : finish(u, s)
    BY Zenon, <1>2 DEF handlerWait
  <2> QED BY Zenon, <2>1, <2>2, FinishInv
<1> QED BY Zenon, <1>1, <1>2 DEF handlerStep

\* For any number of tasks and any size of the queue, the status of a task, the
\* queue, the set of active tasks and the goroutine of the task agree, and no
\* identifier is queued twice or while it runs (taskqueue/queue.go, and the
\* worker loop of the daemon).
THEOREM TaskBooksAgree == DaemonSpec => []StatusTracksLife
<1>1. DaemonInit => DaemonInv
  <2> SUFFICES ASSUME DaemonInit PROVE DaemonInv BY Zenon
  <2>0. taskQueue = <<>> /\ active = {} /\ status = [t \in Tasks |-> ""] /\ handler = [t \in Tasks |-> "none"]
    BY Zenon DEF DaemonInit
  <2>1. taskQueue \in Seq(Tasks) /\ Len(taskQueue) = 0 /\ DOMAIN taskQueue = {}
    <3>1. Len(taskQueue) = 0 BY Zenon, <2>0
    <3>2. taskQueue \in Seq(Tasks) BY Zenon, <2>0, EmptySeq
    <3> QED BY <3>1, <3>2, LenProperties
  <2>2. IsInjective(taskQueue) /\ Range(taskQueue) = {}
    BY Zenon, <2>1 DEF IsInjective, Range
  <2>3. DaemonTypes
    BY Zenon, <2>0, <2>1 DEF DaemonTypes
  <2>4. Len(taskQueue) <= MaxSize
    BY <2>1, DaemonAssumption
  <2>5. \A t \in Tasks : status[t] = "" /\ handler[t] = "none" /\ t \notin active /\ t \notin Range(taskQueue)
    BY Zenon, <2>0, <2>2
  <2> QED BY Zenon, <2>2, <2>3, <2>4, <2>5 DEF DaemonInv, StatusTracksLife
<1>2. DaemonInv /\ [DaemonNext]_agentVars => DaemonInv'
  <2> SUFFICES ASSUME DaemonInv, [DaemonNext]_agentVars PROVE DaemonInv' BY Zenon
  <2>1. CASE \E u \in Tasks : Enqueue(u)
    BY Zenon, <2>1, EnqueueInv
  <2>2. CASE Dequeue
    BY Zenon, <2>2, DequeueInv
  <2>3. CASE \E u \in Tasks : handlerStep(u)
    BY Zenon, <2>3, HandlerInv
  <2>4. CASE UNCHANGED <<taskQueue, active, status, handler>>
    BY Zenon, <2>4 DEF DaemonInv, DaemonTypes, StatusTracksLife
  <2>5. CASE DequeueWait \/ agentLoopStep \/ mainStep \/ typeLine \/ endOfFile \/ raiseSignal
    <3>1. UNCHANGED <<taskQueue, active, status, handler>>
      BY Zenon, <2>5 DEF DequeueWait, agentLoopStep, loopReceive, handleInput, mainStep, prompt, sendLine,
                  receiveReply, shutDown, typeLine, endOfFile, raiseSignal, queueVars
    <3> QED BY Zenon, <3>1, <2>4
  <2>6. CASE daemonExited \/ UNCHANGED agentVars
    <3>1. UNCHANGED <<taskQueue, active, status, handler>>
      BY Zenon, <2>6 DEF daemonExited, agentVars, queueVars
    <3> QED BY Zenon, <3>1, <2>4
  <2> QED BY Zenon, <2>1, <2>2, <2>3, <2>5, <2>6 DEF DaemonNext, DaemonProgress, workerStep
<1>3. DaemonInv => StatusTracksLife
  BY Zenon DEF DaemonInv
<1> QED BY <1>1, <1>2, <1>3, PTL DEF DaemonSpec
=============================================================================
