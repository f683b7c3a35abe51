-------------------------------- MODULE WAL --------------------------------
(***************************************************************************)
(* The write-ahead log of internal/workflow/wal.go under the state manager *)
(* of executor_state.go and the loop of the sequential executor            *)
(* (executor_seq.go, executor_seq_step.go): every completed step appends a *)
(* delta record, a log past the threshold is compacted into one snapshot,  *)
(* and a new process resumes after the last step it can replay.            *)
(*                                                                         *)
(* A step's output is a number that stands for its value and its size; a   *)
(* step skipped by its condition has the empty output 0.  The log is a     *)
(* sequence of frames: what a crash or a failed write left of a frame is   *)
(* Torn.                                                                   *)
(***************************************************************************)
EXTENDS Integers, Sequences, FiniteSets, FiniteSetsExt

CONSTANTS
    N,              \* number of steps
    Outputs,        \* the outputs a step may have
    SyncModes,      \* durability levels: "write", "interval", "close"
    Threshold,      \* CompactionThreshold
    MaxRecord,      \* walMaxRecordSize
    MayTear,        \* whether a frame can be written in part
    MayFail,        \* whether I/O can fail
    MaxRuns         \* bound on the processes that open the log

ASSUME WALAssumption ==
    /\ N \in Nat \ {0}
    /\ Outputs \subseteq Nat \ {0}
    /\ SyncModes \subseteq {"write", "interval", "close"}
    /\ Threshold \in Nat /\ MaxRecord \in Nat /\ MaxRuns \in Nat
    /\ MayTear \in BOOLEAN /\ MayFail \in BOOLEAN

Steps == 0 .. N - 1

VARIABLES
    pc,         \* "down", "step" or "compact" (Save between Append and MaybeCompact)
    runs,       \* processes started so far
    mode,       \* durability level of the process
    disk,       \* the frames of the log file
    synced,     \* how many of them an fsync covered
    buffer,     \* records in the buffered writer
    handle,     \* "none", "open", "closed" (by a failed Compact), "sticky" (writer error)
    seq,        \* w.seq
    bytes,      \* bytesSinceCompaction
    next,       \* the step the loop is at
    engine,     \* step outputs and flowing data
    persisted,  \* the state manager's baseline
    saved,      \* history: the states handed to Save
    acked,      \* history: the last step whose record a successful fsync covered,
                \* since the last process that started over
    overTorn    \* history: some process resumed over a log with a torn frame

logVars == <<disk, synced, buffer, handle, seq, bytes>>
runVars == <<next, engine, persisted>>
vars == <<pc, runs, mode, logVars, runVars, saved, acked, overTorn>>

NoState == [step |-> -1, data |-> 0, out |-> <<>>]
NoRecord == [seq |-> 0, step |-> -1, data |-> 0, out |-> <<>>, delta |-> FALSE]
Torn == NoRecord

RecordSize(r) == 1 + r.data + MapThenSumSet(LAMBDA s : r.out[s], DOMAIN r.out)
LogSize(d) == MapThenSumSet(LAMBDA i : RecordSize(d[i]), DOMAIN d)

-----------------------------------------------------------------------------
(* Replay *)

\* ReplayWAL stops at the first frame that is torn or too large.
Replayed(d) ==
    LET bad == {i \in DOMAIN d : d[i] = Torn \/ RecordSize(d[i]) > MaxRecord}
    IN  IF bad = {} THEN d ELSE SubSeq(d, 1, Min(bad) - 1)

\* The deltas of a log merged into its latest snapshot, or into its first
\* record: of every step the output recorded last.
Merged(log) ==
    LET base == Max({1} \cup {i \in 1 .. Len(log) : ~log[i].delta})
        merged == base .. Len(log)
    IN  [s \in UNION {DOMAIN log[i].out : i \in merged} |->
             log[Max({i \in merged : s \in DOMAIN log[i].out})].out[s]]

Latest(log) == log[Len(log)]

LoadStateWAL(d) ==
    LET log == Replayed(d)
    IN  IF log = <<>> THEN NoState
        ELSE [step |-> Latest(log).step, data |-> Latest(log).data, out |-> Merged(log)]

\* Mutant: recoverSeq does not look at the log.
RecoverSeqZero(d) == 0

RecoverSeq(d) == Max({0} \cup {r.seq : r \in Range(Replayed(d))})

-----------------------------------------------------------------------------
(* Save: the record for the state after a step *)

\* Mutant: the delta holds the output of the saved step only.
DiffLastStep(prev, cur) ==
    [s \in {Max(DOMAIN cur)} |-> cur[s]]

DiffStepOutputs(prev, cur) ==
    [s \in {t \in DOMAIN cur : t \notin DOMAIN prev \/ prev[t] # cur[t]} |-> cur[s]]

WALRecord(st, n) ==
    [seq |-> n, step |-> st.step, data |-> st.data, delta |-> persisted # NoState,
     out |-> IF persisted = NoState THEN st.out
             ELSE DiffStepOutputs(persisted.out, st.out)]

\* What a write of b that fails part way leaves of the log.
Partial(d, b) ==
    LET whole == {d \o SubSeq(b, 1, k) : k \in 0 .. Len(b) - 1}
    IN  whole \cup IF MayTear THEN {w \o <<Torn>> : w \in whole} ELSE {}

\* bufio.Writer keeps its first error: nothing it holds reaches the file.
FlushFails(b) ==
    /\ handle' = "sticky"
    /\ buffer' = <<>>
    /\ \/ handle = "open" /\ MayFail /\ b # <<>> /\ disk' \in Partial(disk, b)
       \/ handle = "closed" /\ b # <<>> /\ disk' = disk
       \/ handle = "sticky" /\ disk' = disk
    /\ UNCHANGED synced

FlushSucceeds(b) ==
    /\ handle = "open" \/ (handle = "closed" /\ b = <<>>)
    /\ disk' = disk \o b
    /\ buffer' = <<>>
    /\ UNCHANGED handle

\* file.Sync, after a flush that put st at the end of the log.
FsyncSucceeds(st) ==
    /\ handle = "open"
    /\ synced' = Len(disk')
    /\ acked' = st.step

FsyncFails ==
    /\ MayFail \/ handle = "closed"
    /\ UNCHANGED <<synced, acked>>

\* Append, and where Save goes on: an error skips MaybeCompact.
AppendRecord(st) ==
    LET rec == WALRecord(st, seq + 1)
        b == Append(buffer, rec)
    IN  /\ seq' = seq + 1
        /\ \/ /\ handle = "sticky"
              /\ pc' = "step"
              /\ UNCHANGED <<disk, synced, buffer, handle, bytes, acked>>
           \/ /\ handle # "sticky" /\ mode # "write"     \* fits the buffer
              /\ pc' = "compact"
              /\ buffer' = b
              /\ bytes' = bytes + RecordSize(rec)
              /\ UNCHANGED <<disk, synced, handle, acked>>
           \/ /\ handle # "sticky" /\ mode # "write"     \* overflows it
              /\ pc' = "step"
              /\ FlushFails(b)
              /\ UNCHANGED <<bytes, acked>>
           \/ /\ handle # "sticky" /\ mode = "write"
              /\ bytes' = bytes + RecordSize(rec)
              /\ \/ FlushSucceeds(b) /\ FsyncSucceeds(st) /\ pc' = "compact"
                 \/ FlushSucceeds(b) /\ FsyncFails /\ pc' = "step"
                 \/ FlushFails(b) /\ UNCHANGED acked /\ pc' = "step"

-----------------------------------------------------------------------------
(* Compact *)

\* Mutant: the last record is taken for the whole state.
CompactedLast(d) ==
    IF Replayed(d) = <<>> THEN <<>>
    ELSE <<[d[Len(Replayed(d))] EXCEPT !.delta = FALSE]>>

\* Mutant: what the writer still buffers is left out.
CompactedUnflushed(d) ==
    LET f == SubSeq(d, 1, Len(disk))
    IN  IF Replayed(f) = <<>> THEN <<>>
        ELSE <<[Latest(Replayed(f)) EXCEPT !.delta = FALSE, !.out = Merged(Replayed(f))]>>

\* The log as one full snapshot, which keeps the last sequence number.
Compacted(d) ==
    LET log == Replayed(d)
    IN  IF log = <<>> THEN <<>>
        ELSE <<[Latest(log) EXCEPT !.delta = FALSE, !.out = Merged(log)]>>

\* Compact: it can fail before the log is touched, once the log's handle is
\* closed, and once the snapshot has replaced the log.
Compact ==
    \/ /\ FlushFails(buffer)
       /\ UNCHANGED <<seq, bytes, acked>>
    \/ /\ (handle = "open" /\ MayFail) \/ (handle = "closed" /\ buffer = <<>>)
       /\ disk' = disk \o buffer
       /\ buffer' = <<>>
       /\ handle' = "closed"
       /\ UNCHANGED <<synced, seq, bytes, acked>>
    \/ LET log == Compacted(disk \o buffer)
       IN  /\ handle = "open"
           /\ disk' = log
           /\ synced' = Len(log)
           /\ buffer' = <<>>
           /\ acked' = persisted.step
           /\ \/ /\ handle' = "open"
                 /\ bytes' = 0
                 /\ seq' = IF log = <<>> THEN seq ELSE log[1].seq
              \/ /\ MayFail
                 /\ handle' = "closed"
                 /\ UNCHANGED <<seq, bytes>>

MaybeCompact ==
    /\ pc = "compact"
    /\ pc' = "step"
    /\ IF bytes >= Threshold THEN Compact ELSE UNCHANGED <<logVars, acked>>
    /\ UNCHANGED <<runs, mode, runVars, saved, overTorn>>

-----------------------------------------------------------------------------
(* The process *)

Init ==
    /\ pc = "down" /\ runs = 0 /\ mode = "none"
    /\ disk = <<>> /\ synced = 0 /\ buffer = <<>> /\ handle = "none"
    /\ seq = 0 /\ bytes = 0
    /\ next = 0 /\ engine = [out |-> <<>>, data |-> 0] /\ persisted = NoState
    /\ saved = {} /\ acked = -1 /\ overTorn = FALSE

ResumeFrom(st) == Min({st.step + 1, N})

\* initResumeState: a log that cannot be opened leaves the run without one,
\* and one that is opened and then cannot be replayed is written to by a run
\* that starts over, whose first record is a snapshot.
Start ==
    /\ pc = "down" /\ runs < MaxRuns
    /\ pc' = "step"
    /\ runs' = runs + 1
    /\ mode' \in SyncModes
    /\ \/ LET st == LoadStateWAL(disk)
          IN  /\ handle' = "open"
              /\ next' = ResumeFrom(st)
              /\ engine' = [out |-> st.out, data |-> st.data]
              /\ persisted' = st
              /\ UNCHANGED acked
       \/ /\ MayFail
          /\ handle' \in {"none", "open"}
          /\ next' = 0
          /\ engine' = [out |-> <<>>, data |-> 0]
          /\ persisted' = NoState
          /\ acked' = IF handle' = "open" THEN -1 ELSE acked
    /\ IF handle' = "open"
       THEN /\ seq' = RecoverSeq(disk)
            /\ bytes' = LogSize(disk)
            /\ overTorn' = (overTorn \/ \E i \in DOMAIN disk : disk[i] = Torn)
       ELSE UNCHANGED <<seq, bytes, overTorn>>
    /\ UNCHANGED <<disk, synced, buffer, saved>>

\* The step outputs once a step has written its own.
WithOutput(out, i, v) == [s \in DOMAIN out \cup {i} |-> IF s = i THEN v ELSE out[s]]

\* A condition that does not hold: an empty output, and no checkpoint.
SkipStep ==
    /\ pc = "step" /\ next < N
    /\ engine' = [engine EXCEPT !.out = WithOutput(@, next, 0)]
    /\ next' = next + 1
    /\ UNCHANGED <<pc, runs, mode, logVars, persisted, saved, acked, overTorn>>

\* A step that completes, up to the end of Append.
ExecuteStep(v) ==
    LET out == WithOutput(engine.out, next, v)
        st == [step |-> next, data |-> v, out |-> out]
    IN  /\ pc = "step" /\ next < N
        /\ engine' = [out |-> out, data |-> v]
        /\ next' = next + 1
        /\ \/ /\ handle = "none"
              /\ UNCHANGED <<pc, logVars, persisted, saved, acked>>
           \/ /\ handle # "none"
              /\ saved' = saved \cup {st}
              /\ persisted' = st
              /\ AppendRecord(st)
        /\ UNCHANGED <<runs, mode, overTorn>>

\* syncLoop: Sync under the log's mutex, its errors ignored.
SyncLoop ==
    /\ pc # "down" /\ mode = "interval" /\ handle # "none"
    /\ \/ FlushFails(buffer) /\ UNCHANGED acked
       \/ FlushSucceeds(buffer) /\ FsyncSucceeds(persisted)
       \/ FlushSucceeds(buffer) /\ FsyncFails
    /\ UNCHANGED <<pc, runs, mode, seq, bytes, runVars, saved, overTorn>>

\* What a process that ends takes with it.
ProcessEnds ==
    /\ pc' = "down" /\ mode' = "none" /\ handle' = "none" /\ buffer' = <<>>
    /\ seq' = 0 /\ bytes' = 0 /\ next' = 0
    /\ engine' = [out |-> <<>>, data |-> 0] /\ persisted' = NoState

\* The loop ends (all steps done, a step failed, shutdown): Close.
Close ==
    /\ pc = "step"
    /\ ProcessEnds
    /\ \/ handle = "none" /\ UNCHANGED <<disk, synced, acked>>
       \/ /\ handle = "open"
          /\ disk' = disk \o buffer
          /\ \/ FsyncSucceeds(persisted)
             \/ FsyncFails
       \/ /\ handle = "open" /\ MayFail
          /\ disk' \in Partial(disk, buffer)
          /\ UNCHANGED <<synced, acked>>
       \/ handle \in {"closed", "sticky"} /\ UNCHANGED <<disk, synced, acked>>
    /\ UNCHANGED <<runs, saved, overTorn>>

\* The machine stops: any part of the log no fsync covered may be missing, and
\* the first frame missing may be there in part.
Crash ==
    LET log == IF handle = "open" THEN disk \o buffer ELSE disk
    IN  /\ pc # "down"
        /\ ProcessEnds
        /\ \E n \in synced .. Len(log) :
               \/ disk' = SubSeq(log, 1, n)
               \/ MayTear /\ n < Len(log) /\ disk' = SubSeq(log, 1, n) \o <<Torn>>
        /\ synced' = Len(disk')
        /\ UNCHANGED <<runs, saved, acked, overTorn>>

Finished ==
    /\ pc = "down" /\ runs = MaxRuns
    /\ UNCHANGED vars

Next ==
    \/ Start
    \/ SkipStep
    \/ \E v \in Outputs : ExecuteStep(v)
    \/ MaybeCompact
    \/ SyncLoop
    \/ Close
    \/ Crash
    \/ Finished

Spec == Init /\ [][Next]_vars

-----------------------------------------------------------------------------
(* Properties *)

Outs == UNION {[D -> Outputs \cup {0}] : D \in SUBSET Steps}
States == [step : Steps, data : Outputs, out : Outs]
Records == [seq : Nat \ {0}, step : Steps, data : Outputs, out : Outs, delta : BOOLEAN]

\* The types of the log's and the executor's state; a run without a log has no
\* baseline, and the fsynced part is part of the file.
TypeOK ==
    /\ pc \in {"down", "step", "compact"} /\ runs \in 0 .. MaxRuns /\ mode \in SyncModes \cup {"none"}
    /\ disk \in Seq(Records \cup {Torn}) /\ synced \in 0 .. Len(disk)
    /\ buffer \in Seq(Records)
    /\ handle \in {"none", "open", "closed", "sticky"}
    /\ seq \in Nat /\ bytes \in Nat
    /\ next \in 0 .. N
    /\ engine.out \in Outs /\ engine.data \in Outputs \cup {0}
    /\ persisted \in States \cup {NoState}
    /\ handle = "none" /\ pc # "down" => persisted = NoState
    /\ saved \subseteq States /\ acked \in Steps \cup {-1} /\ overTorn \in BOOLEAN

\* Unless some process resumed over a torn frame, what LoadStateWAL makes of
\* the log is a state some process handed to Save, never a mixture of the
\* deltas of several: every step up to its index has the output it had, and the
\* flowing data is that step's.  (After such a process it may be a mixture: a
\* compaction keeps what is before the frame, wal.go:391, while the baseline of
\* the deltas is what was written behind it.)
RecoveredIsReal == ~overTorn => LoadStateWAL(disk) \in saved \cup {NoState}

\* A record that Append with SyncEveryWrite, Sync, Close or Compact reported
\* durable survives every crash, and the next process resumes after it, as long
\* as no process that could not replay the log starts over and writes its own
\* snapshots behind it (executor_seq.go:153).
DurableSurvives == pc = "down" => LoadStateWAL(disk).step >= acked

\* The same, unless some process resumed over a torn frame (NewWAL appends
\* behind it, wal.go:152).
AckedSurvives == ~overTorn => DurableSurvives

\* The sequence numbers of the records that can be replayed increase, across
\* restarts (recoverSeq), failed appends and compactions.
SeqIncreases ==
    LET log == Replayed(disk \o buffer)
    IN  \A i, j \in DOMAIN log : i < j => log[i].seq < log[j].seq

\* A compaction changes nothing that recovery can see, however far it gets:
\* only one that cannot write what is buffered loses it.
CompactionPreserves ==
    [][pc = "compact" /\ pc' = "step" /\ handle' # "sticky"
           => LoadStateWAL(disk' \o buffer') = LoadStateWAL(disk \o buffer)]_vars

\* No record is larger than what replay accepts: what the theorems assume.
RecordsFit == \A r \in Records : ~(RecordSize(r) > MaxRecord)

=============================================================================
