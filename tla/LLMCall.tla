------------------------------ MODULE LLMCall ------------------------------
(***************************************************************************)
(* One LLM node called concurrently (internal/nodes/core/llm_execute.go)   *)
(* with the response cache on (llm_cache.go over internal/cache): a call   *)
(* looks the request up in the cache, and on a miss joins the upstream     *)
(* request already in flight for the same key or starts one.               *)
(*                                                                         *)
(* A request is its cache key, a response the key it answers and the time  *)
(* it came back.  Streaming calls use neither the cache nor the flights    *)
(* and are left out.  golang.org/x/sync/singleflight is modelled from its  *)
(* use: DoChan joins or starts a flight, and a finished flight hands its   *)
(* result to every channel that joined it.                                 *)
(***************************************************************************)
EXTENDS Integers, Sequences, FiniteSets

CONSTANTS Callers, Keys,
          MaxEntries, TTL,   \* cache.Config
          MaxClock,          \* bound on the clock
          MaxRequests        \* bound on the calls of execute

ASSUME CallAssumption == MaxEntries \in Nat \ {0} /\ TTL \in Nat

VARIABLES
    clock,
    lru,      \* the cache entries, most recently used first
    flight,   \* [key -> the request in flight: its leader, members and result]
    caller,   \* [caller -> the locals of execute]
    requests  \* calls made so far

callVars == <<clock, lru, flight, caller, requests>>

NoFlight == [leader |-> "none", members |-> {}, ctxDone |-> FALSE,
             result |-> "none"]
idleCaller == [pc |-> "idle", key |-> "none", leader |-> "none", cancelled |-> FALSE,
               answer |-> "none", from |-> "none", age |-> 0]

entryOf(k) == {i \in DOMAIN lru : lru[i].key = k}

removeElement(s, i) == SubSeq(s, 1, i - 1) \o SubSeq(s, i + 1, Len(s))

\* The list once the element of the key, if there is one, is taken out.
without(k) == IF entryOf(k) = {} THEN lru ELSE removeElement(lru, CHOOSE i \in entryOf(k) : TRUE)

\* Mutant: the expiry time is ignored.
neverExpires(e) == FALSE
expired(e) == clock > e.expiresAt

\* cache.Get: the entry of the key, unless it has expired.
Get(k) == {i \in entryOf(k) : ~expired(lru[i])}

CallInit ==
    /\ clock = 0
    /\ lru = <<>>
    /\ flight = [k \in Keys |-> NoFlight]
    /\ caller = [c \in Callers |-> idleCaller]
    /\ requests = 0

\* The cache lookup of execute and its early return on a hit, which moves the
\* entry to the front; an expired entry is dropped.
checkLLMCache(c, k) ==
    /\ caller[c].pc \in {"idle", "returned"} /\ requests < MaxRequests
    /\ requests' = requests + 1
    /\ LET base == [idleCaller EXCEPT !.key = k]
       IN  IF Get(k) # {}
           THEN LET e == lru[CHOOSE i \in Get(k) : TRUE]
                IN  /\ lru' = <<e>> \o without(k)
                    /\ caller' = [caller EXCEPT ![c] =
                         [base EXCEPT !.pc = "returned", !.answer = "content",
                                      !.from = e.content.key, !.age = clock - e.content.born]]
           ELSE /\ lru' = without(k)
                /\ caller' = [caller EXCEPT ![c] = [base EXCEPT !.pc = "missed"]]
    /\ UNCHANGED <<clock, flight>>

newFlight(c) == [NoFlight EXCEPT !.leader = c, !.members = {c},
                                 !.ctxDone = caller[c].cancelled]

\* singleflight: the request in flight with one more member, or a new one.
joinFlight(f, c) ==
    IF f = NoFlight THEN newFlight(c) ELSE [f EXCEPT !.members = @ \cup {c}]

\* doUpstreamCallDeduped: join the flight of the key or lead a new one.
DoChan(c) ==
    /\ caller[c].pc = "missed"
    /\ LET f == joinFlight(flight[caller[c].key], c)
       IN  /\ flight' = [flight EXCEPT ![caller[c].key] = f]
           /\ caller' = [caller EXCEPT ![c].pc = "waiting", ![c].leader = f.leader]
    /\ UNCHANGED <<clock, lru, requests>>

\* cache.Set: refresh in place, or evict the least recently used when full.
Set(k, content) ==
    LET e == [key |-> k, content |-> content, expiresAt |-> clock + TTL]
    IN  IF entryOf(k) # {} THEN <<e>> \o without(k)
        ELSE IF Len(lru) >= MaxEntries THEN <<e>> \o SubSeq(lru, 1, Len(lru) - 1)
        ELSE <<e>> \o lru

\* doUpstreamCall ends: a response that fits is cached, a large one is not, an
\* error never is; with the leader's context done the request is cancelled.
doUpstreamCall(k, result) ==
    /\ flight[k] # NoFlight /\ flight[k].result = "none"
    /\ result = "canceled" => flight[k].ctxDone
    /\ flight' = [flight EXCEPT ![k].result = result]
    /\ lru' = IF result = "small" THEN Set(k, [key |-> k, born |-> clock]) ELSE lru
    /\ UNCHANGED <<clock, caller, requests>>

\* singleflight forgets the flight and sends the result to every member.
deliver(k) ==
    /\ flight[k].result # "none"
    /\ flight' = [flight EXCEPT ![k] = NoFlight]
    /\ caller' = [c \in Callers |->
            IF c \in flight[k].members
            THEN [caller[c] EXCEPT
                    !.pc = "returned",
                    !.answer = IF flight[k].result \in {"small", "large"}
                               THEN "content" ELSE flight[k].result,
                    !.from = k, !.leader = "none", !.cancelled = FALSE]
            ELSE caller[c]]
    /\ UNCHANGED <<clock, lru, requests>>

\* The caller's context ends.  execute sees it only while it waits; the
\* request of a flight runs under the context of its leader.
Cancel(c) ==
    /\ caller[c].pc \in {"missed", "waiting"} /\ ~caller[c].cancelled
    /\ caller' = [caller EXCEPT ![c].cancelled = TRUE]
    /\ flight' = [k \in Keys |->
            IF caller[c].pc = "waiting" /\ k = caller[c].key /\ caller[c].leader = c
            THEN [flight[k] EXCEPT !.ctxDone = TRUE] ELSE flight[k]]
    /\ UNCHANGED <<clock, lru, requests>>

\* The flight goes on without the caller, whose channel nobody reads.
leaveFlight(c) ==
    /\ caller[c].pc = "waiting" /\ caller[c].cancelled
    /\ caller' = [caller EXCEPT ![c].pc = "returned", ![c].answer = "canceled",
                                 ![c].leader = "none", ![c].cancelled = FALSE]
    /\ flight' = [flight EXCEPT ![caller[c].key].members = @ \ {c}]
    /\ UNCHANGED <<clock, lru, requests>>

\* The entries that have not expired, of the first ones of the list.
unexpired ==
    LET kept[i \in 0 .. Len(lru)] ==
            IF i = 0 THEN <<>>
            ELSE IF expired(lru[i]) THEN kept[i - 1] ELSE Append(kept[i - 1], lru[i])
    IN  kept

\* StartCleanup's tick drops every expired entry.
cleanupExpired ==
    /\ \E i \in DOMAIN lru : expired(lru[i])
    /\ lru' = unexpired[Len(lru)]
    /\ UNCHANGED <<clock, flight, caller, requests>>

ClockTick ==
    /\ clock < MaxClock
    /\ clock' = clock + 1
    /\ UNCHANGED <<lru, flight, caller, requests>>

CallNext ==
    \/ \E c \in Callers, k \in Keys : checkLLMCache(c, k)
    \/ \E c \in Callers : DoChan(c) \/ Cancel(c) \/ leaveFlight(c)
    \/ \E k \in Keys, r \in {"small", "large", "error", "canceled"} : doUpstreamCall(k, r)
    \/ \E k \in Keys : deliver(k)
    \/ cleanupExpired
    \/ ClockTick

CallSpec == CallInit /\ [][CallNext]_callVars

-----------------------------------------------------------------------------
(* Properties.                                                             *)

\* Content is returned only for the request it answers, and from the cache
\* only within the TTL of the upstream answer, however often the entry was
\* used in between (cache.go:96); the cache never outgrows MaxEntries and
\* holds each key once, so the list and the map of cache.go agree.
ServedIsFresh ==
    /\ \A c \in Callers :
        caller[c].answer = "content" =>
            caller[c].from = caller[c].key /\ caller[c].age <= TTL
    /\ Len(lru) <= MaxEntries
    /\ \A k \in Keys : Cardinality(entryOf(k)) <= 1

=============================================================================
