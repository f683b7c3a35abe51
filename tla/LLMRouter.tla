----------------------------- MODULE LLMRouter -----------------------------
(***************************************************************************)
(* The LLM router of internal/nodes: llm_router.go picks an ordered list   *)
(* of providers for a call and tries them in turn, router_circuit_breaker  *)
(* takes a failing provider out of the list and router_quota.go counts the *)
(* tokens of the day and keeps the count across restarts.                  *)
(*                                                                         *)
(* Calls run concurrently.  Everything done under statsMu is one action:   *)
(* choosing the candidates (getActiveProviders), recordSuccess and         *)
(* recordFailure.  Between them a call holds only its own candidate list,  *)
(* so the list may be stale when a provider is called.  The day by which   *)
(* the candidates are chosen is read before the lock, so a caller that     *)
(* waits for it over midnight works with the day before.  The saver        *)
(* goroutine takes the pending map in one step and writes the records one  *)
(* by one; the process may die between any two steps.                      *)
(*                                                                         *)
(* Latencies, success rates and the text of requests are not modelled:     *)
(* where an order depends on them every order is possible.                 *)
(***************************************************************************)
EXTENDS Integers, Sequences, FiniteSets, FiniteSetsExt

CONSTANTS
    ProviderList,         \* the enabled providers in configured order
    Priority, CostPer1K,  \* [provider -> number]
    QuotaDaily,           \* [provider -> tokens a day, 0 for no quota]
    Keyless,              \* providers without an API key (ollama excluded)
    Calls,                \* concurrent callers of Execute
    Strategies,           \* strategies the calls ask for
    Tokens,               \* sizes of a successful call
    MaxRetry,             \* providers tried per call
    FailureThreshold, OpenTimeout, HalfOpenMaxRequests, WindowSize,
    DayLength,            \* ticks in a day
    MaxTime,              \* bound on the clock
    MaxExecutes,          \* bound on the calls of Execute per caller
    MaxCrashes            \* bound on process crashes

Providers == Range(ProviderList)

\* The list names no provider twice, and no call is larger than some size.
ASSUME RouterAssumption ==
    /\ ProviderList \in Seq(Providers) /\ IsInjective(ProviderList)
    /\ QuotaDaily \in [Providers -> Nat]
    /\ IsFiniteSet(Calls)
    /\ Tokens \subseteq Nat /\ \E m \in Tokens : \A t \in Tokens : t <= m
    /\ DayLength \in Nat \ {0} /\ MaxRetry \in Nat /\ MaxExecutes \in Nat

NoRecord == [usage |-> 0, day |-> -1]        \* Load of a missing file
NoUpdate == [op |-> "none", usage |-> 0, day |-> -1]

VARIABLES
    now,        \* the clock
    breaker,    \* [provider -> CircuitBreaker]
    stats,      \* [provider -> [usage: DailyUsage, reset: LastResetDate]]
    rrCounter,  \* round-robin counter, modulo a common multiple of all lengths
    call,       \* [caller -> the locals of Execute]
    store,      \* [provider -> the persisted quotaRecord]
    pending,    \* quotaSaver.pending
    batch,      \* the updates a flush has taken and not yet written
    saver,      \* "running", "closing" (done closed) or "stopped"
    crashes,
    spent,      \* history: tokens really used today
    lost,       \* history: of those, the ones the counter no longer has
    setback     \* history: [provider -> today's count was begun again]

vars == <<now, breaker, stats, rrCounter, call, store, pending, batch, saver,
          crashes, spent, lost, setback>>
history == <<spent, lost, setback>>

Today == now \div DayLength

-----------------------------------------------------------------------------
(* The circuit breaker of one provider.                                    *)

NewCircuitBreaker ==
    [state |-> "closed", failures |-> <<>>, openedAt |-> 0,
     inFlight |-> 0, success |-> 0]

\* Mutant: an open breaker admits a request before its timeout.
AllowRequestEarly(b) ==
    IF b.state = "half_open" /\ b.inFlight >= HalfOpenMaxRequests THEN {} ELSE {b}

\* The breaker AllowRequest leaves behind when it admits a request, or the
\* empty set when it refuses it.
AllowRequest(b) ==
    CASE b.state = "closed" -> {b}
      [] b.state = "open" ->
            IF now - b.openedAt >= OpenTimeout
            THEN {[b EXCEPT !.state = "half_open", !.inFlight = 1, !.success = 0]}
            ELSE {}
      [] b.state = "half_open" ->
            IF b.inFlight < HalfOpenMaxRequests
            THEN {[b EXCEPT !.inFlight = @ + 1]}
            ELSE {}

RecordSuccess(b) ==
    CASE b.state = "closed" -> [b EXCEPT !.failures = <<>>]
      [] b.state = "half_open" ->
            IF b.success + 1 >= HalfOpenMaxRequests
            THEN [b EXCEPT !.state = "closed", !.failures = <<>>,
                           !.inFlight = 0, !.success = 0]
            ELSE [b EXCEPT !.success = @ + 1, !.inFlight = @ - 1]
      [] OTHER -> b

pruneFailures(fs) == SelectSeq(fs, LAMBDA t : t >= now - WindowSize)

RecordFailure(b) ==
    CASE b.state = "closed" ->
            LET fs == pruneFailures(Append(b.failures, now))
            IN  IF Len(fs) >= FailureThreshold
                THEN [b EXCEPT !.failures = fs, !.state = "open", !.openedAt = now]
                ELSE [b EXCEPT !.failures = fs]
      [] b.state = "half_open" ->
            [b EXCEPT !.state = "open", !.openedAt = now,
                      !.inFlight = 0, !.success = 0]
      [] OTHER -> b

-----------------------------------------------------------------------------
(* Quota bookkeeping.                                                      *)

\* Mutant: a restart begins the day again at zero.
loadNothing(p) == [usage |-> 0, reset |-> Today]

\* What loadQuotaLocked makes of a record it can read: today's usage, or zero.
loadQuotaLocked(p) ==
    [usage |-> IF store[p].day = Today THEN store[p].usage ELSE 0,
     reset |-> Today]

\* The day reset of getActiveProviders and recordSuccess, for what the caller
\* takes for today.
resetDay(s, today) ==
    IF s.reset # today THEN [usage |-> 0, reset |-> today] ELSE s

\* Mutant: the quota is not looked at.
noQuota(p, today) == TRUE

\* The quota check of getActiveProviders, after its day reset.
underQuota(p, today) ==
    QuotaDaily[p] > 0 => resetDay(stats[p], today).usage < QuotaDaily[p]

\* scheduleQuotaClearLocked and scheduleQuotaSaveLocked: the latest update of
\* a provider replaces the one pending; nothing is queued once closed.
enqueue(p, u, old) == IF saver = "running" THEN u ELSE old

clearUpdate == [op |-> "clear", usage |-> 0, day |-> -1]
saveUpdate(s) == [op |-> "save", usage |-> s.usage, day |-> s.reset]

-----------------------------------------------------------------------------
(* Orders of the candidates.                                               *)

listings(S) == Bijection(1 .. Cardinality(S), S)

\* Equal providers are ordered by measured success rates: any order of them.
sortByPriority(S) ==
    {s \in listings(S) : \A i, j \in DOMAIN s : Priority[s[i]] > Priority[s[j]] => i < j}

sortByCost(S) ==
    {s \in listings(S) : \A i, j \in DOMAIN s : CostPer1K[s[i]] < CostPer1K[s[j]] => i < j}

ConfiguredBefore(p, q) ==
    \E i, j \in DOMAIN ProviderList : i < j /\ ProviderList[i] = p /\ ProviderList[j] = q

\* Configured order, started at the counter's position.
roundRobin(S, counter) ==
    {r \in listings(S) : \E ps \in listings(S) :
        /\ \A i, j \in DOMAIN ps : i < j => ConfiguredBefore(ps[i], ps[j])
        /\ \A i \in DOMAIN r : r[i] = ps[((counter + i - 1) % Len(ps)) + 1]}

\* latency and pareto depend on measured floats, random on a shuffle.
orders(S, strategy) ==
    CASE strategy = "priority" -> sortByPriority(S)
      [] strategy = "cost" -> sortByCost(S)
      [] strategy = "round_robin" -> roundRobin(S, rrCounter + 1)
      [] OTHER -> listings(S)

\* The counter is read modulo the number of candidates only.
rrModulus == IF Len(ProviderList) <= 2 THEN 2 ELSE 6

-----------------------------------------------------------------------------
idleCall(left) ==
    [pc |-> "idle", day |-> 0, cands |-> <<>>, att |-> 1, since |-> 0, left |-> left]

Init ==
    /\ now = 0
    /\ breaker = [p \in Providers |-> NewCircuitBreaker]
    /\ stats = [p \in Providers |-> [usage |-> 0, reset |-> 0]]
    /\ rrCounter = 0
    /\ call = [c \in Calls |-> idleCall(MaxExecutes)]
    /\ store = [p \in Providers |-> NoRecord]
    /\ pending = [p \in Providers |-> NoUpdate]
    /\ batch = [p \in Providers |-> NoUpdate]
    /\ saver = "running"
    /\ crashes = 0
    /\ spent = [p \in Providers |-> 0]
    /\ lost = [p \in Providers |-> 0]
    /\ setback = [p \in Providers |-> FALSE]

\* Execute, up to where getActiveProviders has read the day.
readToday(c) ==
    /\ call[c].pc = "idle" /\ call[c].left > 0
    /\ call' = [call EXCEPT ![c].pc = "select", ![c].day = Today, ![c].left = @ - 1]
    /\ UNCHANGED <<now, breaker, stats, rrCounter, store, pending, batch, saver, crashes, history>>

returns(c) == call' = [call EXCEPT ![c] = idleCall(@.left)]

\* Execute, up to its first provider: getActiveProviders resets the counts of
\* another day, leaves out providers over quota and asks every other breaker
\* for a slot, whether or not the call will get as far as that provider.
selectProviders(c, strategy) ==
    /\ call[c].pc = "select"
    /\ LET today == call[c].day
           active == {p \in Providers :
                        underQuota(p, today) /\ AllowRequest(breaker[p]) # {}}
       IN  /\ stats' = [p \in Providers |-> resetDay(stats[p], today)]
           /\ pending' = [p \in Providers |->
                IF stats[p].reset # today
                THEN enqueue(p, clearUpdate, pending[p]) ELSE pending[p]]
           /\ breaker' = [p \in Providers |->
                IF p \in active
                THEN CHOOSE b \in AllowRequest(breaker[p]) : TRUE
                ELSE breaker[p]]
           /\ rrCounter' = IF strategy = "round_robin" /\ active # {}
                           THEN (rrCounter + 1) % rrModulus ELSE rrCounter
           /\ IF active = {}
              THEN returns(c)
              ELSE \E cands \in orders(active, strategy) :
                     call' = [call EXCEPT ![c] =
                        [pc |-> "next", day |-> 0, cands |-> cands, att |-> 1,
                         since |-> now, left |-> @.left]]
           /\ IF today # Today
              THEN /\ lost' = [p \in Providers |-> lost[p] + resetDay(stats[p], Today).usage]
                   /\ setback' = [p \in Providers |-> setback[p] \/ stats[p].reset = Today]
              ELSE UNCHANGED <<lost, setback>>
    /\ UNCHANGED <<now, store, batch, saver, crashes, spent>>

\* The head of the retry loop: the bound, the API-key check, and the start of
\* the request.
attempt(c) ==
    /\ call[c].pc = "next"
    /\ LET k == call[c]
           p == k.cands[k.att]
       IN  IF k.att > Min({MaxRetry, Len(k.cands)})
           THEN returns(c) /\ UNCHANGED breaker
           ELSE IF p \in Keyless
           THEN /\ breaker' = [breaker EXCEPT ![p] = RecordFailure(@)]
                /\ call' = [call EXCEPT ![c].att = @ + 1]
           ELSE /\ call' = [call EXCEPT ![c].pc = "calling"]
                /\ UNCHANGED breaker
    /\ UNCHANGED <<now, stats, rrCounter, store, pending, batch, saver,
                   crashes, history>>

\* callProvider succeeded: recordSuccess counts the tokens on today's count,
\* tells the breaker and queues the new count for the store.
recordSuccess(c, tokens) ==
    /\ call[c].pc = "calling"
    /\ LET p  == call[c].cands[call[c].att]
           s  == resetDay(stats[p], Today)
           s2 == [s EXCEPT !.usage = @ + tokens]
       IN  /\ stats' = [stats EXCEPT ![p] = s2]
           /\ breaker' = [breaker EXCEPT ![p] = RecordSuccess(@)]
           /\ pending' = [pending EXCEPT ![p] = enqueue(p, saveUpdate(s2), @)]
           /\ spent' = [spent EXCEPT ![p] = @ + tokens]
    /\ returns(c)
    /\ UNCHANGED <<now, rrCounter, store, batch, saver, crashes, lost, setback>>

\* callProvider failed or was cancelled: recordFailure tells the breaker only,
\* and the loop goes on with the next candidate.
recordFailure(c) ==
    /\ call[c].pc = "calling"
    /\ LET p == call[c].cands[call[c].att]
       IN  breaker' = [breaker EXCEPT ![p] = RecordFailure(@)]
    /\ call' = [call EXCEPT ![c].pc = "next", ![c].att = @ + 1]
    /\ UNCHANGED <<now, stats, rrCounter, store, pending, batch, saver,
                   crashes, history>>

\* The loop finds the caller's context done.  The context may end at any time
\* before; only this check and the provider call see it.
cancelled(c) ==
    /\ call[c].pc = "next"
    /\ call[c].att <= Min({MaxRetry, Len(call[c].cands)})
    /\ returns(c)
    /\ UNCHANGED <<now, breaker, stats, rrCounter, store, pending, batch,
                   saver, crashes, history>>

-----------------------------------------------------------------------------
(* The saver goroutine and the process.                                    *)

idleBatch == \A p \in Providers : batch[p] = NoUpdate

\* flush swaps the pending map for an empty one; the last flush of a closed
\* saver ends its goroutine when there is nothing to write.
flushTake ==
    /\ saver # "stopped" /\ idleBatch
    /\ batch' = pending
    /\ pending' = [p \in Providers |-> NoUpdate]
    /\ saver' = IF saver = "closing" /\ batch' = batch THEN "stopped" ELSE saver
    /\ batch' # batch \/ saver' # saver
    /\ UNCHANGED <<now, breaker, stats, rrCounter, call, store, crashes, history>>

\* One store call of the flush.  A failing Save or Clear is only logged.
flushWrite(p, ok) ==
    /\ batch[p] # NoUpdate
    /\ batch' = [batch EXCEPT ![p] = NoUpdate]
    /\ store' = [store EXCEPT ![p] =
            IF ~ok THEN @
            ELSE IF batch[p].op = "clear" THEN NoRecord
            ELSE [usage |-> batch[p].usage, day |-> batch[p].day]]
    /\ UNCHANGED <<now, breaker, stats, rrCounter, call, pending, saver,
                   crashes, history>>

\* CloseQuota: no update is queued any more; the loop flushes a last time.
CloseQuota ==
    /\ saver = "running"
    /\ saver' = "closing"
    /\ UNCHANGED <<now, breaker, stats, rrCounter, call, store, pending, batch,
                   crashes, history>>

\* The process dies and NewLLMRouter starts a new one from the store.  A record
\* that cannot be read counts as none and stays; the clear of an earlier day's
\* may fail.
Restart(unread, uncleared) ==
    LET onDisk(p) == IF p \notin unread /\ store[p].day = Today THEN store[p].usage ELSE 0
    IN  /\ crashes < MaxCrashes
        /\ \A p \in unread \cup uncleared : store[p] # NoRecord
        /\ crashes' = crashes + 1
        /\ breaker' = [p \in Providers |-> NewCircuitBreaker]
        /\ stats' = [p \in Providers |->
                IF p \in unread THEN [usage |-> 0, reset |-> Today] ELSE loadQuotaLocked(p)]
        /\ store' = [p \in Providers |->
                IF store[p].day = Today \/ p \in unread \cup uncleared THEN store[p] ELSE NoRecord]
        /\ lost' = [p \in Providers |-> lost[p] + resetDay(stats[p], Today).usage - onDisk(p)]
        /\ setback' = [p \in Providers |-> p \in unread]
        /\ rrCounter' = 0
        /\ call' = [c \in Calls |-> idleCall(call[c].left)]
        /\ pending' = [p \in Providers |-> NoUpdate]
        /\ batch' = [p \in Providers |-> NoUpdate]
        /\ saver' = "running"
        /\ UNCHANGED <<now, spent>>

Tick ==
    /\ now < MaxTime
    /\ now' = now + 1
    /\ IF now' \div DayLength # Today
       THEN /\ spent' = [p \in Providers |-> 0]
            /\ lost' = [p \in Providers |-> 0]
            /\ setback' = [p \in Providers |-> FALSE]
       ELSE UNCHANGED history
    /\ UNCHANGED <<breaker, stats, rrCounter, call, store, pending, batch,
                   saver, crashes>>

Next ==
    \/ \E c \in Calls : readToday(c)
    \/ \E c \in Calls, s \in Strategies : selectProviders(c, s)
    \/ \E c \in Calls : attempt(c)
    \/ \E c \in Calls, t \in Tokens : recordSuccess(c, t)
    \/ \E c \in Calls : recordFailure(c)
    \/ \E c \in Calls : cancelled(c)
    \/ flushTake
    \/ \E p \in Providers, ok \in BOOLEAN : flushWrite(p, ok)
    \/ CloseQuota
    \/ \E unread, uncleared \in SUBSET Providers : Restart(unread, uncleared)
    \/ Tick

Spec == Init /\ [][Next]_vars

-----------------------------------------------------------------------------
(* Properties.                                                             *)

\* The daily quota of a provider (llm_router.go:449) is checked when a call
\* chooses its candidates and the tokens are counted when it returns, so calls
\* in flight may exceed it: never by more than one call per concurrent caller,
\* whatever the day boundary and the restarts do, apart from the tokens of the
\* day that the counter lost: those a crash caught before the debounced write
\* (router_quota.go:441), those of a record that the next process could not
\* read (router_quota.go:811), and those taken back by a caller that read the
\* day before midnight and the counter after it (llm_router.go:422).
OverspendBounded ==
    \A p \in Providers :
        QuotaDaily[p] > 0 =>
            spent[p] - lost[p] < QuotaDaily[p] + Cardinality(Calls) * Max(Tokens)

\* Within a day the usage on disk only grows: no flush of an older update, no
\* clear of the day before and no restart takes back what was persisted
\* (router_quota.go:520, the M-6 race), unless the count itself was begun again
\* that day, by a caller with the date of the day before or by a process that
\* could not read the record.
PersistedNeverShrinks ==
    [][\A p \in Providers :
        store[p].day = Today /\ Today' = Today /\ ~setback'[p] =>
            store'[p].day = Today /\ store'[p].usage >= store[p].usage]_vars

\* A call may reach a provider whose breaker is open only with a candidate
\* list chosen no later than the breaker opened (llm_router.go:453): while it
\* is open no call that starts later gets through.
OpenBreakerShields ==
    \A c \in Calls :
        call[c].pc = "calling" =>
            LET b == breaker[call[c].cands[call[c].att]]
            IN  b.state = "open" => call[c].since <= b.openedAt

=============================================================================
