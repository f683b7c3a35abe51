----------------------------- MODULE AuditChain -----------------------------
(***************************************************************************)
(* The audit log (history/history_append.go, history_keys.go and           *)
(* history_verify.go): processes append records that are chained by their  *)
(* hashes and signed with a key each process resolves from its own         *)
(* environment, from the key file and from the chain itself.               *)
(*                                                                         *)
(* A hash is the number of the append that made it and the key: the code   *)
(* puts a time and an identifier in every record.  A record is big when it *)
(* does not fit the 8 KiB window lastAuditRecord reads.                    *)
(***************************************************************************)
EXTENDS Integers, Sequences

CONSTANTS Processes,
          MaxAppends, MaxFaults   \* bounds: appends begun; crashes and failed lock writes

VARIABLES log,           \* the lines: [n, prev, key, big, end]
          keyFile,       \* audit-hmac.key exists
          sentinel,      \* the lock file: Free, or [by, old]
          proc,          \* proc[p]: the append p is in
          excuse,        \* ghost: what happened that no append can make good
          appends, faults

auditVars == <<log, keyFile, sentinel, proc, excuse, appends, faults>>

Free == [by |-> "nobody"]
Idle == [at |-> "idle"]
Keys == {"env", "password", "file", "default"}

(* A chain begun before key files existed is signed with the default key.  *)
AuditInit ==
    /\ log \in {<<>>, <<[n |-> 0, prev |-> -1, key |-> "default", big |-> FALSE, end |-> "newline"]>>}
    /\ keyFile = FALSE /\ sentinel = Free
    /\ proc = [p \in Processes |-> Idle]
    /\ excuse = {} /\ appends = 0 /\ faults = 0

LastLine(lines) == lines[Len(lines)]

(* A line that does not parse: cut short, or run into by the next one.     *)
TornTail == log # <<>> /\ LastLine(log).end \in {"cut", "garbled"}
-----------------------------------------------------------------------------
(* The key                                                                 *)

auditKeyCandidates(env) == env \cup {"default"} \cup (IF keyFile THEN {"file"} ELSE {})

(* lastAuditRecord finds nothing in an empty log, or when the last record  *)
(* is larger than its window.                                              *)
HasLastRecord == log # <<>> /\ ~TornTail /\ ~LastLine(log).big
chainContinuityNone(env) == {}
chainContinuityKey(env) == {LastLine(log).key} \cap auditKeyCandidates(env)

(* auditKeyForAppend: the key, or "refused".                               *)
auditKeyForAppend(env) ==
    IF "env" \in env THEN "env"
    ELSE IF HasLastRecord /\ chainContinuityKey(env) # {} THEN LastLine(log).key
    ELSE IF HasLastRecord /\ LastLine(log).key \notin auditKeyCandidates(env) THEN "refused"
    ELSE IF "password" \in env THEN "password"
    ELSE IF keyFile \/ log = <<>> THEN "file"
    ELSE "default"
-----------------------------------------------------------------------------
(* AppendAuditLog                                                          *)

At(p, a) == proc' = [proc EXCEPT ![p].at = a]

startAppend(p, env) ==
    /\ proc[p].at = "idle" /\ appends < MaxAppends /\ appends' = appends + 1
    /\ proc' = [proc EXCEPT ![p] = [at |-> "lock", env |-> env, n |-> appends', prev |-> -1, key |-> "none"]]
    /\ UNCHANGED <<log, keyFile, sentinel, excuse, faults>>

(* lockAuditLog creates the sentinel.  When writing to it fails the append *)
(* fails and the file stays.                                               *)
lockAuditLog(p) ==
    /\ proc[p].at = "lock" /\ sentinel = Free
    /\ sentinel' = [by |-> p, old |-> FALSE]
    /\ \/ At(p, "read") /\ UNCHANGED faults
       \/ faults < MaxFaults /\ faults' = faults + 1 /\ proc' = [proc EXCEPT ![p] = Idle]
    /\ UNCHANGED <<log, keyFile, excuse, appends>>

(* Half a minute passes.                                                   *)
Age ==
    /\ sentinel # Free /\ ~sentinel.old /\ sentinel' = [sentinel EXCEPT !.old = TRUE]
    /\ UNCHANGED <<log, keyFile, proc, excuse, appends, faults>>

InSection(p) == proc[p].at \in {"read", "key", "write", "unlock"}

(* A stale sentinel is looked at, then removed: by then it may be another. *)
lockIsStale(p) ==
    /\ proc[p].at = "lock" /\ sentinel # Free /\ sentinel.old /\ At(p, "reclaim")
    /\ UNCHANGED <<log, keyFile, sentinel, excuse, appends, faults>>
reclaim(p) ==
    /\ proc[p].at = "reclaim" /\ At(p, "lock") /\ sentinel' = Free
    /\ excuse' = excuse \cup (IF sentinel # Free /\ \E q \in Processes : q = sentinel.by /\ InSection(q)
                              THEN {"lock taken from its holder"} ELSE {})
    /\ UNCHANGED <<log, keyFile, appends, faults>>
lockTimeout(p) ==
    /\ proc[p].at = "lock" /\ sentinel # Free /\ proc' = [proc EXCEPT ![p] = Idle]
    /\ UNCHANGED <<log, keyFile, sentinel, excuse, appends, faults>>

(* A log that ends in a torn line refuses every append.                    *)
readLastAuditHash(p) ==
    /\ proc[p].at = "read"
    /\ IF TornTail THEN At(p, "unlock")
       ELSE proc' = [proc EXCEPT ![p].at = "key",
                                 ![p].prev = IF log = <<>> THEN -1 ELSE LastLine(log).n]
    /\ UNCHANGED <<log, keyFile, sentinel, excuse, appends, faults>>

resolveKey(p) ==
    LET k == auditKeyForAppend(proc[p].env) IN
    /\ proc[p].at = "key"
    /\ IF k = "refused" THEN At(p, "unlock") ELSE proc' = [proc EXCEPT ![p].at = "write", ![p].key = k]
    /\ keyFile' = (keyFile \/ k = "file")
    /\ excuse' = excuse \cup {x \in {"key given"} : k = "env" /\ log # <<>> /\ LastLine(log).key # k}
                      \cup {x \in {"big record"} : log # <<>> /\ LastLine(log).big}
    /\ UNCHANGED <<log, sentinel, appends, faults>>

(* One write of O_APPEND.  A last line without its newline swallows the    *)
(* record.                                                                 *)
Written(p, big, end) ==
    LET r == [n |-> proc[p].n, prev |-> proc[p].prev, key |-> proc[p].key, big |-> big, end |-> end] IN
    IF log = <<>> \/ LastLine(log).end = "newline" THEN Append(log, r)
    ELSE [log EXCEPT ![Len(log)].end = "garbled"]
writeRecord(p, big) ==
    /\ proc[p].at = "write" /\ At(p, "unlock")
    /\ log' = Written(p, big, "newline")
    /\ excuse' = excuse \cup (IF log' # <<>> /\ LastLine(log').end = "garbled" THEN {"no newline"} ELSE {})
    /\ UNCHANGED <<keyFile, sentinel, appends, faults>>

unlock(p) ==
    /\ proc[p].at = "unlock" /\ sentinel' = Free /\ proc' = [proc EXCEPT ![p] = Idle]
    /\ UNCHANGED <<log, keyFile, excuse, appends, faults>>

(* The process dies; a write it was in may have reached the disk in part,  *)
(* as far as the newline, or whole.                                        *)
AuditCrash(p) ==
    /\ proc[p].at # "idle" /\ faults < MaxFaults /\ faults' = faults + 1
    /\ \/ UNCHANGED log
       \/ proc[p].at = "write" /\ \E end \in {"cut", "none", "newline"} : log' = Written(p, FALSE, end)
    /\ excuse' = excuse \cup (IF log' # <<>> /\ LastLine(log').end = "garbled" THEN {"no newline"} ELSE {})
    /\ proc' = [proc EXCEPT ![p] = Idle]
    /\ UNCHANGED <<keyFile, sentinel, appends>>

(* The bound on the appends is used up.                                    *)
AuditOver ==
    /\ appends = MaxAppends /\ \A p \in Processes : proc[p].at = "idle"
    /\ UNCHANGED auditVars

AuditNext ==
    \/ \E p \in Processes :
          \/ \E env \in SUBSET {"env", "password"} : startAppend(p, env)
          \/ lockAuditLog(p) \/ lockIsStale(p) \/ reclaim(p) \/ lockTimeout(p)
          \/ readLastAuditHash(p) \/ resolveKey(p) \/ (\E big \in BOOLEAN : writeRecord(p, big)) \/ unlock(p)
          \/ AuditCrash(p)
    \/ Age \/ AuditOver

AuditSpec == AuditInit /\ [][AuditNext]_auditVars
-----------------------------------------------------------------------------
(* VerifyAuditChain: every line parses, every record's previous hash is    *)
(* the hash before it, and one key signed them all.                        *)
verifyAuditLines(lines, k) ==
    \A i \in DOMAIN lines :
        /\ lines[i].end \notin {"cut", "garbled"}
        /\ lines[i].key = k /\ lines[i].prev = (IF i = 1 THEN -1 ELSE lines[i - 1].n)
VerifyAuditChain(lines) == \E k \in Keys : verifyAuditLines(lines, k)

(* What the error about a torn tail asks the operator to keep.             *)
CompleteRecords == IF TornTail THEN SubSeq(log, 1, Len(log) - 1) ELSE log

(* Whichever processes append under whichever passwords, and crash where   *)
(* they may, the chain up to its last complete record still verifies: only *)
(* an operator's explicit key, a lock taken from a process that still ran, *)
(* a lost newline or a big record breaks it (auditKeyForAppend: "the key   *)
(* its LAST record was signed with wins").                                 *)
ChainVerifies == excuse = {} => VerifyAuditChain(CompleteRecords)
=============================================================================
