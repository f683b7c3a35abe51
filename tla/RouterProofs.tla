---------------------------- MODULE RouterProofs ----------------------------
(***************************************************************************)
(* The LLM router, for any list of providers, any quotas, any number of    *)
(* callers and any strategies: what its breakers, its daily quotas and its *)
(* debounced quota file keep.                                              *)
(***************************************************************************)
EXTENDS LLMRouter, FiniteSetTheorems, TLAPS

-----------------------------------------------------------------------------
(* Sequences *)

\* The empty sequence.
LEMMA EmptySeq ==
    ASSUME NEW S
    PROVE  <<>> \in Seq(S) /\ Len(<<>>) = 0 /\ \A q \in Seq(S) : q # <<>> => Len(q) \in Nat \ {0}
OBVIOUS

\* A sequence is a function on the numbers up to its length.
LEMMA LenProperties ==
    ASSUME NEW S, NEW q \in Seq(S)
    PROVE  Len(q) \in Nat /\ DOMAIN q = 1 .. Len(q) /\ q \in [1 .. Len(q) -> S]
OBVIOUS

\* A function on an initial segment is a sequence.
LEMMA IsASeq ==
    ASSUME NEW S, NEW n \in Nat, NEW e(_), \A i \in 1 .. n : e(i) \in S
    PROVE  [i \in 1 .. n |-> e(i)] \in Seq(S)
OBVIOUS

-----------------------------------------------------------------------------
(* Breakers                                                                *)

\* Days do not go back.
LEMMA DayOrder ==
    ASSUME NEW m \in Nat, NEW n \in Nat, m <= n
    PROVE  m \div DayLength \in Nat /\ n \div DayLength \in Nat /\ m \div DayLength <= n \div DayLength
<1>1. DayLength \in Nat \ {0}
  BY Zenon, RouterAssumption
<1>2. m \div DayLength \in Nat /\ n \div DayLength \in Nat
  BY <1>1
<1>3. m \div DayLength <= n \div DayLength
  BY <1>1
<1> QED BY Zenon, <1>2, <1>3

\* Today is a day.
LEMMA TodayIs == ASSUME now \in Nat PROVE Today \in Nat
BY DayOrder DEF Today

\* The configured providers are finitely many.
LEMMA ProvidersFinite == IsFiniteSet(Providers)
<1>1. ProviderList \in Seq(Providers)
  BY Zenon, RouterAssumption
<1>2. PICK n \in Nat : DOMAIN ProviderList = 1 .. n
  BY <1>1
<1>3. IsFiniteSet(1 .. n)
  BY FS_Interval
<1>4. ProviderList \in Surjection(1 .. n, Providers)
  BY <1>1, <1>2 DEF Surjection, Providers, Range
<1> QED BY Zenon, <1>3, <1>4, FS_Surjection

\* Whatever the strategy, the candidates are a list of the active providers.
LEMMA CandidatesAre ==
    ASSUME NEW S \in SUBSET Providers, NEW strategy, NEW cands \in orders(S, strategy)
    PROVE  cands \in Seq(S) /\ Len(cands) \in Nat
<1>1. cands \in listings(S)
  BY Zenon DEF orders, sortByPriority, sortByCost, roundRobin
<1>2. Cardinality(S) \in Nat
  BY Zenon, ProvidersFinite, FS_Subset, FS_CardinalityType
<1>3. cands \in [1 .. Cardinality(S) -> S]
  BY Zenon, <1>1 DEF listings, Bijection, Injection
<1>4. cands \in Seq(S)
  BY <1>2, <1>3, IsASeq
<1> QED BY Zenon, <1>4, LenProperties

-----------------------------------------------------------------------------
(* Breakers and calls *)

\* A breaker has its five fields and one of its three states.
BreakerOK(b) ==
    /\ b = [state |-> b.state, failures |-> b.failures, openedAt |-> b.openedAt,
            inFlight |-> b.inFlight, success |-> b.success]
    /\ b.state \in {"closed", "open", "half_open"}

\* A call of Route: its candidates, the attempt it is in, the time it chose.
CallRecords ==
    [pc : {"idle", "select", "next", "calling"}, day : Nat, cands : Seq(Providers), att : Nat \ {0},
     since : Nat, left : Int]

\* The types of the breakers and the calls; a call that calls a provider has
\* one, and no call is ahead of the day.
CallTypes ==
    /\ now \in Nat
    /\ DOMAIN breaker = Providers /\ \A p \in Providers : BreakerOK(breaker[p])
    /\ call \in [Calls -> CallRecords]
    /\ \A c \in Calls : /\ call[c].pc = "calling" => call[c].att \in 1 .. Len(call[c].cands)
                        /\ call[c].day <= Today

(* The breaker of no candidate is open since before the candidates were    *)
(* chosen.                                                                 *)
Shielded(k) ==
    /\ k.since <= now
    /\ \A i \in 1 .. Len(k.cands) :
          breaker[k.cands[i]].state = "open" => k.since <= breaker[k.cands[i]].openedAt

\* The inductive invariant of the breakers.
ShieldInv == CallTypes /\ \A c \in Calls : Shielded(call[c])

\* A breaker that admits a request is not open.
LEMMA AdmitsClosed ==
    ASSUME NEW b, BreakerOK(b), NEW a \in AllowRequest(b)
    PROVE  BreakerOK(a) /\ a.state # "open"
<1>1. CASE b.state = "closed"
  BY Zenon, <1>1 DEF AllowRequest, BreakerOK
<1>2. CASE b.state = "open"
  <2>1. a = [b EXCEPT !.state = "half_open", !.inFlight = 1, !.success = 0]
    BY Zenon, <1>2 DEF AllowRequest
  <2> QED BY Zenon, <2>1 DEF BreakerOK
<1>3. CASE b.state = "half_open"
  <2>1. a = [b EXCEPT !.inFlight = @ + 1]
    BY Zenon, <1>3 DEF AllowRequest
  <2> QED BY Zenon, <2>1, <1>3 DEF BreakerOK
<1> QED BY Zenon, <1>1, <1>2, <1>3 DEF BreakerOK

\* A success opens no breaker.
LEMMA SuccessOpensNone ==
    ASSUME NEW b, BreakerOK(b)
    PROVE  /\ BreakerOK(RecordSuccess(b))
           /\ RecordSuccess(b).state = "open" => RecordSuccess(b) = b
<1>1. CASE b.state = "closed"
  <2>1. RecordSuccess(b) = [b EXCEPT !.failures = <<>>]
    BY Zenon, <1>1 DEF RecordSuccess
  <2> QED BY Zenon, <2>1, <1>1 DEF BreakerOK
<1>2. CASE b.state = "open"
  <2>1. RecordSuccess(b) = b
    BY Zenon, <1>2 DEF RecordSuccess
  <2> QED BY Zenon, <2>1
<1>3. CASE b.state = "half_open"
  <2>1. CASE b.success + 1 >= HalfOpenMaxRequests
    <3>1. RecordSuccess(b) = [b EXCEPT !.state = "closed", !.failures = <<>>, !.inFlight = 0, !.success = 0]
      BY Zenon, <1>3, <2>1 DEF RecordSuccess
    <3> QED BY Zenon, <3>1 DEF BreakerOK
  <2>2. CASE ~(b.success + 1 >= HalfOpenMaxRequests)
    <3>1. RecordSuccess(b) = [b EXCEPT !.success = @ + 1, !.inFlight = @ - 1]
      BY Zenon, <1>3, <2>2 DEF RecordSuccess
    <3> QED BY Zenon, <3>1, <1>3 DEF BreakerOK
  <2> QED BY Zenon, <2>1, <2>2
<1> QED BY Zenon, <1>1, <1>2, <1>3 DEF BreakerOK

\* A failure opens a breaker now, or leaves an open one as it was.
LEMMA FailureOpensNow ==
    ASSUME NEW b, BreakerOK(b)
    PROVE  /\ BreakerOK(RecordFailure(b))
           /\ RecordFailure(b).state = "open" => RecordFailure(b) = b \/ RecordFailure(b).openedAt = now
<1>1. CASE b.state = "closed"
  <2> DEFINE fs == pruneFailures(Append(b.failures, now))
  <2>1. CASE Len(fs) >= FailureThreshold
    <3>1. RecordFailure(b) = [b EXCEPT !.failures = fs, !.state = "open", !.openedAt = now]
      BY Zenon, <1>1, <2>1 DEF RecordFailure
    <3> HIDE DEF fs
    <3> QED BY Zenon, <3>1 DEF BreakerOK
  <2>2. CASE ~(Len(fs) >= FailureThreshold)
    <3>1. RecordFailure(b) = [b EXCEPT !.failures = fs]
      BY Zenon, <1>1, <2>2 DEF RecordFailure
    <3> HIDE DEF fs
    <3> QED BY Zenon, <3>1, <1>1 DEF BreakerOK
  <2> QED BY Zenon, <2>1, <2>2
<1>2. CASE b.state = "open"
  <2>1. RecordFailure(b) = b
    BY Zenon, <1>2 DEF RecordFailure
  <2> QED BY Zenon, <2>1
<1>3. CASE b.state = "half_open"
  <2>1. RecordFailure(b) = [b EXCEPT !.state = "open", !.openedAt = now, !.inFlight = 0, !.success = 0]
    BY Zenon, <1>3 DEF RecordFailure
  <2> QED BY Zenon, <2>1 DEF BreakerOK
<1> QED BY Zenon, <1>1, <1>2, <1>3 DEF BreakerOK

\* A breaker that becomes open does so now.
BreakerStep ==
    /\ DOMAIN breaker' = Providers
    /\ \A p \in Providers : /\ BreakerOK(breaker'[p])
                            /\ breaker'[p].state = "open" =>
                                  breaker'[p] = breaker[p] \/ breaker'[p].openedAt = now

\* A call that keeps its candidates stays shielded when breakers open now.
LEMMA StaysShielded ==
    ASSUME ShieldInv, UNCHANGED now, BreakerStep, NEW k, Shielded(k), k.cands \in Seq(Providers)
    PROVE  Shielded(k)'
<1>1. \A i \in 1 .. Len(k.cands) : k.cands[i] \in Providers
  OBVIOUS
<1>2. k.since <= now
  BY Zenon DEF Shielded
<1>3. ASSUME NEW i \in 1 .. Len(k.cands), breaker'[k.cands[i]].state = "open"
      PROVE  k.since <= breaker'[k.cands[i]].openedAt
  <2>1. breaker'[k.cands[i]] = breaker[k.cands[i]] \/ breaker'[k.cands[i]].openedAt = now
    BY Zenon, <1>1, <1>3 DEF BreakerStep
  <2> QED BY Zenon, <2>1, <1>2, <1>3 DEF Shielded
<1> QED BY Zenon, <1>2, <1>3 DEF Shielded

\* One call takes a step.
LEMMA OneCall ==
    ASSUME ShieldInv, UNCHANGED now, BreakerStep, NEW c \in Calls, NEW r \in CallRecords,
           call' = [call EXCEPT ![c] = r],
           r.pc = "calling" => r.att \in 1 .. Len(r.cands), r.day <= Today, Shielded(r)'
    PROVE  ShieldInv'
<1>1. call \in [Calls -> CallRecords] /\ now \in Nat
  BY Zenon DEF ShieldInv, CallTypes
<1>2. call' \in [Calls -> CallRecords] /\ call'[c] = r /\ \A d \in Calls : d # c => call'[d] = call[d]
  BY Zenon, <1>1
<1>3. \A d \in Calls : /\ call'[d].pc = "calling" => call'[d].att \in 1 .. Len(call'[d].cands)
                       /\ call'[d].day <= Today'
  <2>1. Today' = Today BY Zenon DEF Today
  <2>2. \A d \in Calls : call[d].day <= Today /\ (call[d].pc = "calling" => call[d].att \in 1 .. Len(call[d].cands))
    BY Zenon DEF ShieldInv, CallTypes
  <2> QED BY Zenon, <1>2, <2>1, <2>2
<1>4. CallTypes'
  BY Zenon, <1>1, <1>2, <1>3 DEF CallTypes, BreakerStep, BreakerOK
<1>5. ASSUME NEW d \in Calls PROVE Shielded(call[d])'
  <2>1. CASE d = c
    <3>1. Shielded(r)' <=> Shielded(call[d])'
      BY Zenon, <2>1, <1>2 DEF Shielded
    <3> QED BY Zenon, <3>1
  <2>2. CASE d # c
    <3>1. call'[d] = call[d] /\ call[d].cands \in Seq(Providers)
      BY Zenon, <2>2, <1>1, <1>2 DEF CallRecords
    <3>2. PICK k : k = call[d]
      BY Zenon
    <3>3. Shielded(k)'
      BY Zenon, <3>1, <3>2, StaysShielded DEF ShieldInv
    <3> QED BY Zenon, <3>1, <3>2, <3>3 DEF Shielded
  <2> QED BY Zenon, <2>1, <2>2
<1> QED BY Zenon, <1>4, <1>5 DEF ShieldInv

\* A call that has returned has no candidates.
LEMMA IdleShielded ==
    ASSUME now \in Nat, NEW n \in Int
    PROVE  /\ idleCall(n) \in CallRecords /\ Shielded(idleCall(n)) /\ idleCall(n).pc = "idle"
           /\ idleCall(n).day <= Today
<1>1. <<>> \in Seq(Providers) /\ Len(<<>>) = 0
  BY Zenon, EmptySeq
<1>2. idleCall(n) \in CallRecords /\ idleCall(n).cands = <<>> /\ idleCall(n).since = 0 /\ idleCall(n).pc = "idle"
  BY <1>1 DEF idleCall, CallRecords
<1>3. Len(idleCall(n).cands) = 0
  BY Zenon, <1>1, <1>2
<1>4. idleCall(n).day <= Today
  <2>1. Today \in Nat BY Zenon, TodayIs
  <2>2. idleCall(n).day = 0 BY DEF idleCall
  <2> QED BY <2>1, <2>2
<1>5. Shielded(idleCall(n))
  BY <1>2, <1>3 DEF Shielded
<1> QED BY Zenon, <1>2, <1>4, <1>5

\* The call returns.
LEMMA ReturnsShielded ==
    ASSUME ShieldInv, UNCHANGED now, BreakerStep, NEW c \in Calls, returns(c)
    PROVE  ShieldInv'
<1>1. now' \in Nat /\ call[c].left \in Int
  BY Zenon DEF ShieldInv, CallTypes, CallRecords
<1>2. PICK n \in Int : n = call[c].left
  BY Zenon, <1>1
<1>3. call' = [call EXCEPT ![c] = idleCall(n)]
  BY Zenon, <1>2 DEF returns, idleCall
<1>4. /\ idleCall(n) \in CallRecords /\ Shielded(idleCall(n))' /\ idleCall(n).pc = "idle"
      /\ idleCall(n).day <= Today
  <2>1. /\ Shielded(idleCall(n)) /\ idleCall(n) \in CallRecords /\ idleCall(n).pc = "idle"
        /\ idleCall(n).day <= Today
    BY Zenon, IdleShielded DEF ShieldInv, CallTypes
  <2>2. idleCall(n).cands \in Seq(Providers)
    BY Zenon, <2>1 DEF CallRecords
  <2>3. PICK k : k = idleCall(n)
    BY Zenon
  <2>4. Shielded(k)'
    BY Zenon, <2>1, <2>2, <2>3, StaysShielded
  <2> QED BY Zenon, <2>1, <2>3, <2>4 DEF Shielded, idleCall
<1> QED BY Zenon, <1>3, <1>4, OneCall

\* Nothing of it changes.
LEMMA SameShield ==
    ASSUME ShieldInv, UNCHANGED <<now, breaker, call>>
    PROVE  ShieldInv'
<1>1. Today' = Today BY Zenon DEF Today
<1> QED BY Zenon, <1>1 DEF ShieldInv, CallTypes, Shielded, BreakerOK

\* The bound of the retry loop is within the list.
LEMMA WithinList ==
    ASSUME NEW a \in Nat \ {0}, NEW n \in Nat, ~(a > Min({MaxRetry, n}))
    PROVE  a \in 1 .. n
<1>1. MaxRetry \in Nat
  BY Zenon, RouterAssumption
<1>2. \E x \in {MaxRetry, n} : \A y \in {MaxRetry, n} : x <= y
  BY <1>1
<1>3. Min({MaxRetry, n}) \in {MaxRetry, n} /\ \A y \in {MaxRetry, n} : Min({MaxRetry, n}) <= y
  BY Zenon, <1>2 DEF Min
<1>4. PICK x \in Nat : x = Min({MaxRetry, n}) /\ x <= n
  BY Zenon, <1>1, <1>3
<1> QED BY <1>4

\* The provider a call is at is one of its candidates.
LEMMA CalledIsCandidate ==
    ASSUME ShieldInv, NEW c \in Calls, call[c].att \in 1 .. Len(call[c].cands)
    PROVE  call[c].cands[call[c].att] \in Providers
<1>1. call[c].cands \in Seq(Providers)
  BY Zenon DEF ShieldInv, CallTypes, CallRecords
<1> QED BY <1>1

\* One breaker changes.
LEMMA OneBreaker ==
    ASSUME ShieldInv, NEW p \in Providers, NEW b, BreakerOK(b),
           b.state = "open" => b = breaker[p] \/ b.openedAt = now, breaker' = [breaker EXCEPT ![p] = b]
    PROVE  BreakerStep
<1>1. DOMAIN breaker = Providers /\ \A q \in Providers : BreakerOK(breaker[q])
  BY Zenon DEF ShieldInv, CallTypes
<1>2. DOMAIN breaker' = Providers /\ breaker'[p] = b /\ \A q \in Providers : q # p => breaker'[q] = breaker[q]
  BY Zenon, <1>1
<1>3. ASSUME NEW q \in Providers
      PROVE  /\ BreakerOK(breaker'[q])
             /\ breaker'[q].state = "open" => breaker'[q] = breaker[q] \/ breaker'[q].openedAt = now
  <2>1. CASE q = p BY Zenon, <2>1, <1>2
  <2>2. CASE q # p BY Zenon, <2>2, <1>1, <1>2
  <2> QED BY Zenon, <2>1, <2>2
<1> QED BY Zenon, <1>2, <1>3 DEF BreakerStep

\* No breaker changes.
LEMMA NoBreaker ==
    ASSUME ShieldInv, UNCHANGED breaker
    PROVE  BreakerStep
BY Zenon DEF ShieldInv, CallTypes, BreakerStep

\* A failure of one provider.
LEMMA OneFailure ==
    ASSUME ShieldInv, NEW p \in Providers, breaker' = [breaker EXCEPT ![p] = RecordFailure(@)]
    PROVE  BreakerStep
<1>1. BreakerOK(breaker[p]) BY Zenon DEF ShieldInv, CallTypes
<1>2. PICK b : b = RecordFailure(breaker[p]) BY Zenon
<1>3. BreakerOK(b) /\ (b.state = "open" => b = breaker[p] \/ b.openedAt = now)
  BY Zenon, <1>1, <1>2, FailureOpensNow
<1>4. breaker' = [breaker EXCEPT ![p] = b] BY Zenon, <1>2
<1> QED BY Zenon, <1>3, <1>4, OneBreaker

\* A success of one provider.
LEMMA OneSuccess ==
    ASSUME ShieldInv, NEW p \in Providers, breaker' = [breaker EXCEPT ![p] = RecordSuccess(@)]
    PROVE  BreakerStep
<1>1. BreakerOK(breaker[p]) BY Zenon DEF ShieldInv, CallTypes
<1>2. PICK b : b = RecordSuccess(breaker[p]) BY Zenon
<1>3. BreakerOK(b) /\ (b.state = "open" => b = breaker[p])
  BY Zenon, <1>1, <1>2, SuccessOpensNone
<1>4. breaker' = [breaker EXCEPT ![p] = b] BY Zenon, <1>2
<1> QED BY Zenon, <1>3, <1>4, OneBreaker

\* A call changes its place in the retry loop only.
LEMMA LoopStep ==
    ASSUME ShieldInv, UNCHANGED now, BreakerStep, NEW c \in Calls,
           NEW pc \in {"next", "calling"}, NEW a \in Nat \ {0},
           call' = [call EXCEPT ![c] = [call[c] EXCEPT !.pc = pc, !.att = a]],
           pc = "calling" => a \in 1 .. Len(call[c].cands)
    PROVE  ShieldInv'
<1>1. call[c] \in CallRecords /\ Shielded(call[c]) /\ call[c].day <= Today
  BY Zenon DEF ShieldInv, CallTypes
<1>2. PICK k : k = call[c]
  BY Zenon
<1>3. PICK r : r = [k EXCEPT !.pc = pc, !.att = a]
  BY Zenon
<1>4. r \in CallRecords /\ r.pc = pc /\ r.att = a /\ r.cands = k.cands /\ r.since = k.since /\ r.day = k.day
  BY Zenon, <1>1, <1>2, <1>3 DEF CallRecords
<1>5. Shielded(k)'
  <2>1. k.cands \in Seq(Providers) BY Zenon, <1>1, <1>2 DEF CallRecords
  <2> QED BY Zenon, <2>1, <1>1, <1>2, StaysShielded
<1>6. Shielded(r)'
  BY Zenon, <1>4, <1>5 DEF Shielded
<1>7. call' = [call EXCEPT ![c] = r]
  BY Zenon, <1>2, <1>3
<1>8. r.day <= Today /\ (r.pc = "calling" => r.att \in 1 .. Len(r.cands))
  BY Zenon, <1>1, <1>2, <1>4
<1> QED BY Zenon, <1>4, <1>6, <1>7, <1>8, OneCall

\* The head of the retry loop.
LEMMA AttemptShielded ==
    ASSUME ShieldInv, NEW c \in Calls, attempt(c)
    PROVE  ShieldInv'
<1>0. call[c] \in CallRecords /\ call[c].att \in Nat \ {0} /\ Len(call[c].cands) \in Nat /\ UNCHANGED now /\ call[c].pc = "next"
  BY DEF ShieldInv, CallTypes, CallRecords, attempt
<1>1. CASE call[c].att > Min({MaxRetry, Len(call[c].cands)})
  <2>1. returns(c) /\ UNCHANGED breaker BY Zenon, <1>1 DEF attempt
  <2> QED BY Zenon, <2>1, <1>0, NoBreaker, ReturnsShielded
<1>2. CASE ~(call[c].att > Min({MaxRetry, Len(call[c].cands)}))
  <2>1. call[c].att \in 1 .. Len(call[c].cands)
    BY Zenon, <1>0, <1>2, WithinList
  <2> DEFINE p == call[c].cands[call[c].att]
  <2>2. p \in Providers BY Zenon, <2>1, CalledIsCandidate
  <2>3. CASE p \in Keyless
    <3>1. breaker' = [breaker EXCEPT ![p] = RecordFailure(@)] /\ call' = [call EXCEPT ![c].att = @ + 1]
      BY Zenon, <1>2, <2>3 DEF attempt
    <3>2. BreakerStep
      <4> HIDE DEF p
      <4> QED BY Zenon, <2>2, <3>1, OneFailure
    <3>3. PICK a \in Nat \ {0} : a = call[c].att + 1 BY <1>0
    <3>4. call' = [call EXCEPT ![c] = [call[c] EXCEPT !.pc = "next", !.att = a]]
      <4>1. [call[c] EXCEPT !.att = a] = [call[c] EXCEPT !.pc = "next", !.att = a]
        BY Zenon, <1>0 DEF CallRecords
      <4> QED BY Zenon, <4>1, <3>1, <3>3
    <3> QED BY Zenon, <3>2, <3>4, <1>0, LoopStep
  <2>4. CASE p \notin Keyless
    <3>1. UNCHANGED breaker /\ call' = [call EXCEPT ![c].pc = "calling"]
      BY Zenon, <1>2, <2>4 DEF attempt
    <3>2. PICK a \in Nat \ {0} : a = call[c].att BY Zenon, <1>0
    <3>3. call' = [call EXCEPT ![c] = [call[c] EXCEPT !.pc = "calling", !.att = a]]
      <4>1. [call[c] EXCEPT !.pc = "calling"] = [call[c] EXCEPT !.pc = "calling", !.att = a]
        BY Zenon, <1>0, <3>2 DEF CallRecords
      <4> QED BY Zenon, <4>1, <3>1
    <3>4. a \in 1 .. Len(call[c].cands) BY Zenon, <2>1, <3>2
    <3> QED BY Zenon, <3>1, <3>3, <3>4, <1>0, LoopStep, NoBreaker
  <2> QED BY Zenon, <2>3, <2>4
<1> QED BY Zenon, <1>1, <1>2

\* A call of a provider ends.
LEMMA EndShielded ==
    ASSUME ShieldInv, NEW c \in Calls, (\E t \in Tokens : recordSuccess(c, t)) \/ recordFailure(c)
    PROVE  ShieldInv'
<1>0. call[c] \in CallRecords /\ call[c].att \in Nat \ {0} /\ call[c].att \in 1 .. Len(call[c].cands) /\ UNCHANGED now
  BY Zenon DEF ShieldInv, CallTypes, CallRecords, recordSuccess, recordFailure
<1>1. PICK p \in Providers : p = call[c].cands[call[c].att]
  BY Zenon, <1>0, CalledIsCandidate
<1>2. CASE \E t \in Tokens : recordSuccess(c, t)
  <2>1. breaker' = [breaker EXCEPT ![p] = RecordSuccess(@)] /\ returns(c)
    BY Zenon, <1>1, <1>2 DEF recordSuccess
  <2> QED BY ZenonT(40), <2>1, <1>0, OneSuccess, ReturnsShielded
<1>3. CASE recordFailure(c)
  <2>1. breaker' = [breaker EXCEPT ![p] = RecordFailure(@)] /\ call' = [call EXCEPT ![c].pc = "next", ![c].att = @ + 1]
    BY Zenon, <1>1, <1>3 DEF recordFailure
  <2>2. PICK a \in Nat \ {0} : a = call[c].att + 1 BY <1>0
  <2>3. call' = [call EXCEPT ![c] = [call[c] EXCEPT !.pc = "next", !.att = a]]
    <3>1. call \in [Calls -> CallRecords] BY Zenon DEF ShieldInv, CallTypes
    <3> QED BY Zenon, <3>1, <2>1, <2>2 DEF CallRecords
  <2> QED BY Zenon, <2>1, <2>3, <1>0, OneFailure, LoopStep
<1> QED BY Zenon, <1>2, <1>3

\* A call reads the day.
LEMMA ReadShielded ==
    ASSUME ShieldInv, NEW c \in Calls, readToday(c)
    PROVE  ShieldInv'
<1>1. /\ UNCHANGED <<now, breaker>> /\ now \in Nat /\ call[c] \in CallRecords /\ Shielded(call[c])
      /\ call' = [call EXCEPT ![c].pc = "select", ![c].day = Today, ![c].left = @ - 1]
  BY Zenon DEF readToday, ShieldInv, CallTypes
<1>2. PICK n \in Int : n = call[c].left - 1
  BY <1>1 DEF CallRecords
<1>3. PICK k : k = call[c]
  BY Zenon
<1>4. PICK d \in Nat : d = Today
  BY Zenon, <1>1, TodayIs
<1>5. PICK r : r = [k EXCEPT !.pc = "select", !.day = d, !.left = n]
  BY Zenon
<1>6. r \in CallRecords /\ r.pc = "select" /\ r.cands = k.cands /\ r.since = k.since /\ r.day = d
  BY Zenon, <1>1, <1>3, <1>5 DEF CallRecords
<1>7. BreakerStep
  BY Zenon, <1>1, NoBreaker
<1>8. Shielded(k)'
  <2>1. k.cands \in Seq(Providers) BY Zenon, <1>1, <1>3 DEF CallRecords
  <2> QED BY Zenon, <2>1, <1>1, <1>3, <1>7, StaysShielded
<1>9. Shielded(r)'
  BY Zenon, <1>6, <1>8 DEF Shielded
<1>10. call' = [call EXCEPT ![c] = r]
  <2>1. call' = [call EXCEPT ![c] = [k EXCEPT !.pc = "select", !.day = d, !.left = n]]
    BY Zenon, <1>1, <1>2, <1>3, <1>4
  <2> QED BY Zenon, <2>1, <1>5
<1>11. r.day <= Today
  BY <1>4, <1>6
<1>12. r.pc # "calling"
  BY <1>6
<1> QED BY Zenon, <1>1, <1>6, <1>7, <1>9, <1>10, <1>11, <1>12, OneCall

\* The providers a call may choose from.
Admitted(c) == {p \in Providers : underQuota(p, call[c].day) /\ AllowRequest(breaker[p]) # {}}

\* What getActiveProviders does to the breakers: an admitted one is not open.
LEMMA ChoiceOpensNone ==
    ASSUME ShieldInv, NEW c \in Calls, NEW s, selectProviders(c, s)
    PROVE  BreakerStep /\ \A p \in Admitted(c) : breaker'[p].state # "open"
<1>1. breaker' = [p \in Providers |->
                    IF p \in Admitted(c) THEN CHOOSE b \in AllowRequest(breaker[p]) : TRUE ELSE breaker[p]]
  BY Zenon DEF selectProviders, Admitted
<1>2. \A p \in Providers : BreakerOK(breaker[p])
  BY Zenon DEF ShieldInv, CallTypes
<1>3. ASSUME NEW p \in Admitted(c) PROVE BreakerOK(breaker'[p]) /\ breaker'[p].state # "open"
  <2>1. p \in Providers /\ AllowRequest(breaker[p]) # {} BY Zenon DEF Admitted
  <2>2. breaker'[p] \in AllowRequest(breaker[p]) BY Zenon, <2>1, <1>1
  <2> QED BY Zenon, <2>1, <2>2, <1>2, AdmitsClosed
<1>4. \A p \in Providers : p \notin Admitted(c) => breaker'[p] = breaker[p]
  BY Zenon, <1>1
<1>5. DOMAIN breaker' = Providers
  BY Zenon, <1>1
<1>6. BreakerStep
  BY Zenon, <1>2, <1>3, <1>4, <1>5 DEF BreakerStep
<1> QED BY Zenon, <1>3, <1>6

\* A call chooses its candidates.
LEMMA SelectShielded ==
    ASSUME ShieldInv, NEW c \in Calls, NEW s, selectProviders(c, s)
    PROVE  ShieldInv'
<1>0. BreakerStep /\ \A p \in Admitted(c) : breaker'[p].state # "open"
  BY Zenon, ChoiceOpensNone
<1>1. UNCHANGED now /\ now \in Nat /\ call[c] \in CallRecords /\ Shielded(call[c]) /\ call \in [Calls -> CallRecords]
  BY Zenon DEF selectProviders, ShieldInv, CallTypes
<1>2. PICK n \in Int : n = call[c].left
  BY Zenon, <1>1 DEF CallRecords
<1>3. CASE Admitted(c) = {}
  <2>1. returns(c)
    BY Zenon, <1>3 DEF selectProviders, Admitted
  <2> QED BY Zenon, <1>0, <1>1, <2>1, ReturnsShielded
<1>4. CASE Admitted(c) # {}
  <2>1. PICK cands \in orders(Admitted(c), s) :
           call' = [call EXCEPT ![c] = [pc |-> "next", day |-> 0, cands |-> cands, att |-> 1,
                                         since |-> now, left |-> @.left]]
    BY Zenon, <1>4 DEF selectProviders, Admitted
  <2>2. cands \in Seq(Admitted(c))
    <3>1. Admitted(c) \in SUBSET Providers BY Zenon DEF Admitted
    <3> QED BY Zenon, <3>1, CandidatesAre
  <2>3. cands \in Seq(Providers) /\ \A i \in 1 .. Len(cands) : cands[i] \in Admitted(c)
    <3>1. Admitted(c) \subseteq Providers BY Zenon DEF Admitted
    <3> QED BY <2>2, <3>1
  <2>4. PICK r : r = [pc |-> "next", day |-> 0, cands |-> cands, att |-> 1, since |-> now, left |-> n]
    BY Zenon
  <2>5. r \in CallRecords /\ r.pc = "next" /\ r.cands = cands /\ r.since = now /\ r.day = 0
    BY <1>1, <2>3, <2>4 DEF CallRecords
  <2>6. Shielded(r)'
    <3>1. r.since <= now' BY <1>1, <2>5
    <3> QED BY Zenon, <3>1, <2>3, <2>5, <1>0 DEF Shielded
  <2>7. call' = [call EXCEPT ![c] = r]
    BY Zenon, <2>1, <2>4, <1>2
  <2>8. r.day <= Today
    <3>1. Today \in Nat BY Zenon, <1>1, TodayIs
    <3> QED BY <2>5, <3>1
  <2>9. r.pc # "calling" BY <2>5
  <2> QED BY Zenon, <1>0, <1>1, <2>5, <2>6, <2>7, <2>8, <2>9, OneCall
<1> QED BY Zenon, <1>3, <1>4

\* A new process has no calls and closed breakers.
LEMMA RestartShielded ==
    ASSUME ShieldInv, NEW unread, NEW uncleared, Restart(unread, uncleared)
    PROVE  ShieldInv'
<1>1. now' \in Nat /\ call \in [Calls -> CallRecords]
  BY Zenon DEF ShieldInv, CallTypes, Restart
<1>2. call' = [c \in Calls |-> idleCall(call[c].left)]
  BY Zenon DEF Restart
<1>3. breaker' = [p \in Providers |-> NewCircuitBreaker]
  BY Zenon DEF Restart
<1>4. DOMAIN breaker' = Providers /\ \A p \in Providers : BreakerOK(breaker'[p]) /\ breaker'[p].state = "closed"
  BY Zenon, <1>3 DEF NewCircuitBreaker, BreakerOK
<1>5. ASSUME NEW c \in Calls
      PROVE  /\ call'[c] \in CallRecords /\ call'[c].pc = "idle" /\ Shielded(call[c])'
             /\ call'[c].day <= Today'
  <2>1. PICK n \in Int : n = call[c].left BY Zenon, <1>1 DEF CallRecords
  <2>2. call'[c] = idleCall(n) BY Zenon, <1>2, <2>1
  <2>3. idleCall(n) \in CallRecords /\ idleCall(n).pc = "idle" /\ idleCall(n).day <= Today
    BY Zenon, IdleShielded DEF ShieldInv, CallTypes
  <2>4. \A i \in 1 .. Len(call'[c].cands) : call'[c].cands[i] \in Providers
    BY <2>2, <2>3 DEF CallRecords
  <2>5. call'[c].since = 0 BY <2>2 DEF idleCall
  <2>6. Today' = Today BY Zenon DEF Restart, Today
  <2>7. call'[c].day <= Today' BY Zenon, <2>2, <2>3, <2>6
  <2> QED BY <2>2, <2>3, <2>4, <2>5, <2>7, <1>1, <1>4 DEF Shielded
<1>6. call' \in [Calls -> CallRecords]
  BY Zenon, <1>2, <1>5
<1>7. CallTypes'
  BY Zenon, <1>1, <1>4, <1>5, <1>6 DEF CallTypes
<1> QED BY Zenon, <1>5, <1>7 DEF ShieldInv

\* Time passes.
LEMMA TickShielded ==
    ASSUME ShieldInv, Tick
    PROVE  ShieldInv'
<1>1. now \in Nat /\ now' = now + 1 /\ UNCHANGED <<breaker, call>>
  BY Zenon DEF ShieldInv, CallTypes, Tick
<1>2. ASSUME NEW c \in Calls PROVE call[c].since <= now'
  <2>1. call[c].since \in Nat /\ call[c].since <= now
    BY Zenon DEF ShieldInv, CallTypes, CallRecords, Shielded
  <2> QED BY <2>1, <1>1
<1>3. \A c \in Calls : Shielded(call[c])'
  BY Zenon, <1>1, <1>2 DEF ShieldInv, Shielded
<1>4. Today \in Nat /\ Today' \in Nat /\ Today <= Today'
  <2>1. now' \in Nat /\ now <= now' BY <1>1
  <2> QED BY Zenon, <1>1, <2>1, DayOrder DEF Today
<1>5. ASSUME NEW c \in Calls PROVE call[c].day <= Today'
  <2>1. call[c].day \in Nat /\ call[c].day <= Today
    BY Zenon DEF ShieldInv, CallTypes, CallRecords
  <2> QED BY <2>1, <1>4
<1>6. now' \in Nat
  BY <1>1
<1>7. CallTypes'
  BY Zenon, <1>1, <1>5, <1>6 DEF ShieldInv, CallTypes
<1> QED BY Zenon, <1>3, <1>7 DEF ShieldInv

\* The initial states.
LEMMA ShieldInitial == Init => ShieldInv
<1> SUFFICES ASSUME Init PROVE ShieldInv BY Zenon
<1>1. now = 0 /\ call = [c \in Calls |-> idleCall(MaxExecutes)] /\ breaker = [p \in Providers |-> NewCircuitBreaker]
  BY Zenon DEF Init
<1>2. MaxExecutes \in Int
  BY RouterAssumption
<1>3. DOMAIN breaker = Providers /\ \A p \in Providers : BreakerOK(breaker[p])
  BY Zenon, <1>1 DEF NewCircuitBreaker, BreakerOK
<1>4. \A c \in Calls : /\ call[c] \in CallRecords /\ Shielded(call[c]) /\ call[c].pc = "idle"
                       /\ call[c].day <= Today
  <2>1. /\ idleCall(MaxExecutes) \in CallRecords /\ Shielded(idleCall(MaxExecutes))
        /\ idleCall(MaxExecutes).pc = "idle" /\ idleCall(MaxExecutes).day <= Today
    BY Zenon, <1>1, <1>2, IdleShielded
  <2> QED BY Zenon, <2>1, <1>1
<1>5. call \in [Calls -> CallRecords]
  BY Zenon, <1>1, <1>4
<1> QED BY Zenon, <1>1, <1>3, <1>4, <1>5 DEF ShieldInv, CallTypes

\* Every step keeps the calls shielded.
LEMMA ShieldNext ==
    ASSUME ShieldInv, [Next]_vars
    PROVE  ShieldInv'
<1>1. CASE \E c \in Calls, s \in Strategies : selectProviders(c, s)
  BY Zenon, <1>1, SelectShielded
<1>2. CASE \E c \in Calls : attempt(c)
  BY Zenon, <1>2, AttemptShielded
<1>3. CASE (\E c \in Calls, t \in Tokens : recordSuccess(c, t)) \/ (\E c \in Calls : recordFailure(c))
  BY Zenon, <1>3, EndShielded
<1>4. CASE \E c \in Calls : cancelled(c)
  <2>1. PICK c \in Calls : cancelled(c) BY Zenon, <1>4
  <2>2. UNCHANGED <<now, breaker>> /\ returns(c) BY Zenon, <2>1 DEF cancelled
  <2> QED BY Zenon, <2>2, NoBreaker, ReturnsShielded
<1>5. CASE flushTake \/ (\E p \in Providers, ok \in BOOLEAN : flushWrite(p, ok)) \/ CloseQuota \/ UNCHANGED vars
  <2>1. UNCHANGED <<now, breaker, call>> BY Zenon, <1>5 DEF flushTake, flushWrite, CloseQuota, vars
  <2> QED BY Zenon, <2>1, SameShield
<1>6. CASE \E unread, uncleared \in SUBSET Providers : Restart(unread, uncleared)
  BY Zenon, <1>6, RestartShielded
<1>7. CASE Tick BY Zenon, <1>7, TickShielded
<1>8. CASE \E c \in Calls : readToday(c) BY Zenon, <1>8, ReadShielded
<1> QED BY Zenon, <1>1, <1>2, <1>3, <1>4, <1>5, <1>6, <1>7, <1>8 DEF Next

\* For any providers, callers and strategies: a provider is called while its
\* breaker is open only by a call that had chosen it before the breaker
\* opened (AllowRequest, RecordFailure, buildProviderList).
THEOREM OpenBreakersShield == Spec => []OpenBreakerShields
<1>1. ShieldInv => OpenBreakerShields
  <2> SUFFICES ASSUME ShieldInv, NEW c \in Calls, call[c].pc = "calling",
                      breaker[call[c].cands[call[c].att]].state = "open"
               PROVE  call[c].since <= breaker[call[c].cands[call[c].att]].openedAt
    BY Zenon DEF OpenBreakerShields
  <2>1. call[c].att \in 1 .. Len(call[c].cands) /\ Shielded(call[c])
    BY Zenon DEF ShieldInv, CallTypes
  <2> QED BY Zenon, <2>1 DEF Shielded
<1> QED BY <1>1, ShieldInitial, ShieldNext, PTL DEF Spec

-----------------------------------------------------------------------------
(* The quota counters and the quota file                                   *)

\* A provider's counter, its record in the quota file and an update of it.
Counts == [usage : Nat, reset : Nat]
Records == [usage : Nat, day : Int]
Updates == [op : {"none", "clear", "save"}, usage : Nat, day : Int]

(* No copy of a provider's count is ahead of the day.                      *)
DayOK(x, day) == /\ x.op = "none" => x = NoUpdate
                 /\ x.op = "save" => x.day <= day
Days(s, r, b, q, day) == s.reset <= day /\ r.day <= day /\ DayOK(b, day) /\ DayOK(q, day)

(* The counter is today's and at least u.                                  *)
Covers(s, u, day) == s.reset = day /\ u <= s.usage

(* An update that would be written over today's record takes nothing back. *)
Follows(x, u, day) == /\ x.op = "save" => x.day = day /\ u <= x.usage
                      /\ x.op # "clear"

(* Today's copies of a provider's count, from the oldest to the newest:    *)
(* the store, the update being written, the pending one and the counter.   *)
Book(s, r, b, q, day) ==
    /\ r.day = day => /\ Covers(s, r.usage, day)
                      /\ Follows(b, r.usage, day) /\ Follows(q, r.usage, day)
    /\ b.op = "save" /\ b.day = day => Covers(s, b.usage, day) /\ Follows(q, b.usage, day)
    /\ q.op = "save" /\ q.day = day => Covers(s, q.usage, day)

\* Today's counter may grow.
LEMMA BookGrows ==
    ASSUME NEW s \in Counts, NEW r \in Records, NEW b \in Updates, NEW q \in Updates,
           NEW day \in Nat, Book(s, r, b, q, day),
           NEW t \in Counts, t.reset = day, s.reset = day => s.usage <= t.usage
    PROVE  Book(t, r, b, q, day)
<1>1. s.usage \in Nat /\ r.usage \in Nat /\ t.usage \in Nat /\ b.usage \in Nat /\ q.usage \in Nat
  BY Zenon DEF Counts, Records, Updates
<1>2. ASSUME NEW u \in Nat, Covers(s, u, day) PROVE Covers(t, u, day)
  BY <1>1, <1>2 DEF Covers
<1> QED BY Zenon, <1>1, <1>2 DEF Book

\* The update of a new count of today replaces the pending one.
LEMMA BookSave ==
    ASSUME NEW s \in Counts, NEW r \in Records, NEW b \in Updates, NEW q \in Updates,
           NEW day \in Nat, Book(s, r, b, q, day), s.reset = day
    PROVE  /\ saveUpdate(s) \in Updates /\ DayOK(saveUpdate(s), day)
           /\ Book(s, r, b, saveUpdate(s), day)
<1>1. s.reset \in Nat /\ s.usage \in Nat
  BY Zenon DEF Counts
<1>2. PICK x \in Updates : x = saveUpdate(s) /\ x.op = "save" /\ x.usage = s.usage /\ x.day = day
  <2>1. saveUpdate(s) = [op |-> "save", usage |-> s.usage, day |-> s.reset] BY Zenon DEF saveUpdate
  <2>2. saveUpdate(s) \in Updates BY <2>1, <1>1 DEF Updates
  <2>3. saveUpdate(s).op = "save" /\ saveUpdate(s).usage = s.usage /\ saveUpdate(s).day = s.reset BY <2>1
  <2> QED BY Zenon, <2>2, <2>3
<1>3. DayOK(x, day) /\ Covers(s, x.usage, day)
  BY <1>1, <1>2 DEF DayOK, Covers
<1>4. ASSUME NEW u, Covers(s, u, day) PROVE Follows(x, u, day)
  BY Zenon, <1>2, <1>4 DEF Covers, Follows
<1>5. Book(s, r, b, x, day)
  BY Zenon, <1>2, <1>3, <1>4 DEF Book
<1> QED BY Zenon, <1>2, <1>3, <1>5

\* While the counter is of another day there is no copy of today.
LEMMA BookOtherDay ==
    ASSUME NEW s \in Counts, NEW r \in Records, NEW b \in Updates, NEW q \in Updates,
           NEW day \in Nat, Book(s, r, b, q, day), s.reset # day,
           NEW x, x = q \/ x.op # "save", NEW t
    PROVE  Book(t, r, b, x, day)
<1>1. r.day # day /\ ~(b.op = "save" /\ b.day = day) /\ ~(q.op = "save" /\ q.day = day)
  BY Zenon DEF Book, Covers
<1> QED BY Zenon, <1>1 DEF Book

\* The clear of a day's start.
LEMMA ClearIs == clearUpdate \in Updates /\ clearUpdate.op = "clear" /\ \A day : DayOK(clearUpdate, day)
<1>1. clearUpdate = [op |-> "clear", usage |-> 0, day |-> -1] BY Zenon DEF clearUpdate
<1>2. clearUpdate \in Updates /\ clearUpdate.op = "clear" BY <1>1 DEF Updates
<1> QED BY Zenon, <1>2 DEF DayOK

\* No update at all.
LEMMA NoUpdateIs == NoUpdate \in Updates /\ NoUpdate.op = "none" /\ \A day : DayOK(NoUpdate, day)
<1>1. NoUpdate = [op |-> "none", usage |-> 0, day |-> -1] BY Zenon DEF NoUpdate
<1>2. NoUpdate \in Updates /\ NoUpdate.op = "none" BY <1>1 DEF Updates
<1> QED BY Zenon, <1>2 DEF DayOK

\* No record at all.
LEMMA NoRecordIs == NoRecord \in Records /\ \A day \in Nat : NoRecord.day # day /\ NoRecord.day <= day
<1>1. NoRecord = [usage |-> 0, day |-> -1] BY Zenon DEF NoRecord
<1>2. NoRecord \in Records /\ NoRecord.day = -1 BY <1>1 DEF Records
<1>3. \A day \in Nat : -1 # day /\ -1 <= day OBVIOUS
<1> QED BY Zenon, <1>2, <1>3

\* What a store call may leave behind.
Written(r, b, new) ==
    \/ new = r
    \/ b.op = "clear" /\ new = NoRecord
    \/ b.op = "save" /\ new = [usage |-> b.usage, day |-> b.day]

\* A write of the flush leaves a record of a day.
LEMMA WriteDays ==
    ASSUME NEW r \in Records, NEW b \in Updates, NEW day \in Nat, r.day <= day, DayOK(b, day),
           NEW new, Written(r, b, new)
    PROVE  new \in Records /\ new.day <= day
<1>1. CASE new = r BY Zenon, <1>1
<1>2. CASE new = NoRecord BY Zenon, <1>2, NoRecordIs
<1>3. CASE b.op = "save" /\ new = [usage |-> b.usage, day |-> b.day]
  <2>1. b.day \in Int /\ b.usage \in Nat BY Zenon DEF Updates
  <2>2. new \in Records /\ new.day = b.day BY Zenon, <1>3, <2>1 DEF Records
  <2> QED BY Zenon, <1>3, <2>2 DEF DayOK
<1> QED BY Zenon, <1>1, <1>2, <1>3 DEF Written

\* A write of the flush.
LEMMA BookWrite ==
    ASSUME NEW s \in Counts, NEW r \in Records, NEW b \in Updates, NEW q \in Updates,
           NEW day \in Nat, Book(s, r, b, q, day), NEW new, Written(r, b, new)
    PROVE  Book(s, new, NoUpdate, q, day)
<1>1. NoUpdate.op = "none"
  BY Zenon, NoUpdateIs
<1>2. \A u : Follows(NoUpdate, u, day)
  BY <1>1 DEF Follows
<1>3. new.day = day => Covers(s, new.usage, day) /\ Follows(q, new.usage, day)
  <2>1. CASE new = r BY Zenon, <2>1 DEF Book
  <2>2. CASE new = NoRecord BY Zenon, <2>2, NoRecordIs
  <2>3. CASE b.op = "save" /\ new = [usage |-> b.usage, day |-> b.day]
    <3>1. new.day = b.day /\ new.usage = b.usage BY Zenon, <2>3
    <3> QED BY Zenon, <3>1, <2>3 DEF Book
  <2> QED BY Zenon, <2>1, <2>2, <2>3 DEF Written
<1>4. NoUpdate.op # "save"
  BY <1>1
<1> QED BY Zenon, <1>2, <1>3, <1>4 DEF Book

\* What a write of the flush makes of today's record.
LEMMA WriteGrows ==
    ASSUME NEW s \in Counts, NEW r \in Records, NEW b \in Updates, NEW q \in Updates,
           NEW day \in Nat, Book(s, r, b, q, day), NEW new, r.day = day, Written(r, b, new)
    PROVE  new.day = day /\ new.usage >= r.usage
<1>1. r.usage \in Nat /\ b.usage \in Nat
  BY Zenon DEF Records, Updates
<1>2. Follows(b, r.usage, day)
  BY Zenon DEF Book
<1>3. CASE new = r BY <1>1, <1>3
<1>4. CASE b.op = "save" /\ new = [usage |-> b.usage, day |-> b.day]
  <2>1. b.day = day /\ r.usage <= b.usage BY Zenon, <1>2, <1>4 DEF Follows
  <2>2. new.day = b.day /\ new.usage = b.usage BY Zenon, <1>4
  <2> QED BY Zenon, <2>1, <2>2, <1>1
<1> QED BY Zenon, <1>2, <1>3, <1>4 DEF Written, Follows

\* The types of the four copies of the counts.
LedgerTypes ==
    /\ now \in Nat
    /\ stats \in [Providers -> Counts] /\ store \in [Providers -> Records]
    /\ pending \in [Providers -> Updates] /\ batch \in [Providers -> Updates]
    /\ spent \in [Providers -> Int] /\ lost \in [Providers -> Int]
    /\ setback \in [Providers -> BOOLEAN]

(* What was spent today and is not lost is what the counter says.          *)
Accounted(p) == spent[p] - lost[p] = resetDay(stats[p], Today).usage

\* The inductive invariant of the quota: the counter has what was not lost,
\* and unless it was begun again today all copies agree in their order.
LedgerInv ==
    /\ LedgerTypes
    /\ \A p \in Providers :
          /\ Days(stats[p], store[p], batch[p], pending[p], Today)
          /\ Accounted(p)
          /\ setback[p] \/ Book(stats[p], store[p], batch[p], pending[p], Today)

\* The day reset of a counter.
LEMMA ResetIs ==
    ASSUME NEW s \in Counts, NEW day \in Nat
    PROVE  /\ resetDay(s, day) \in Counts /\ resetDay(s, day).reset = day
           /\ resetDay(s, day).usage \in Nat
           /\ s.reset = day => resetDay(s, day) = s
           /\ s.reset # day => resetDay(s, day).usage = 0
<1>1. s.reset \in Nat /\ s.usage \in Nat
  BY Zenon DEF Counts
<1>2. CASE s.reset = day
  <2>1. resetDay(s, day) = s BY Zenon, <1>2 DEF resetDay
  <2> QED BY Zenon, <2>1, <1>1, <1>2
<1>3. CASE s.reset # day
  <2>1. PICK t : t = [usage |-> 0, reset |-> day] BY Zenon
  <2>2. t \in Counts /\ t.usage = 0 /\ t.reset = day /\ t.usage \in Nat BY Zenon, <2>1 DEF Counts
  <2>3. resetDay(s, day) = t BY Zenon, <1>3, <2>1 DEF resetDay
  <2> QED BY Zenon, <2>2, <2>3, <1>3
<1> QED BY Zenon, <1>2, <1>3

\* The facts of one provider.
LEMMA OneBook ==
    ASSUME LedgerInv, NEW p \in Providers
    PROVE  /\ stats[p] \in Counts /\ store[p] \in Records /\ batch[p] \in Updates /\ pending[p] \in Updates
           /\ Days(stats[p], store[p], batch[p], pending[p], Today) /\ Today \in Nat
           /\ stats[p].reset <= Today /\ Accounted(p) /\ now \in Nat
           /\ spent[p] \in Int /\ lost[p] \in Int
           /\ setback[p] \/ Book(stats[p], store[p], batch[p], pending[p], Today)
<1>1. now \in Nat BY Zenon DEF LedgerInv, LedgerTypes
<1>2. Today \in Nat BY Zenon, <1>1, TodayIs
<1>3. /\ Days(stats[p], store[p], batch[p], pending[p], Today) /\ Accounted(p)
      /\ setback[p] \/ Book(stats[p], store[p], batch[p], pending[p], Today)
  BY Zenon DEF LedgerInv
<1>4. stats[p].reset <= Today BY Zenon, <1>3 DEF Days
<1> QED BY Zenon, <1>1, <1>2, <1>3, <1>4 DEF LedgerInv, LedgerTypes

\* The numbers of one provider.
LEMMA UsageIs ==
    ASSUME LedgerInv, NEW p \in Providers
    PROVE  /\ resetDay(stats[p], Today).usage \in Nat
           /\ spent[p] - lost[p] = resetDay(stats[p], Today).usage
<1>1. stats[p] \in Counts /\ Today \in Nat /\ Accounted(p) BY Zenon, OneBook
<1> QED BY Zenon, <1>1, ResetIs DEF Accounted

\* Choosing candidates starts the caller's day for every counter.
LEMMA SelectLedger ==
    ASSUME ShieldInv, LedgerInv, NEW c \in Calls, NEW s, selectProviders(c, s)
    PROVE  LedgerInv'
<1>0. PICK day \in Nat : day = call[c].day /\ day <= Today
  BY Zenon DEF ShieldInv, CallTypes, CallRecords
<1>1. /\ stats' = [p \in Providers |-> resetDay(stats[p], day)]
      /\ pending' = [p \in Providers |->
                IF stats[p].reset # day THEN enqueue(p, clearUpdate, pending[p]) ELSE pending[p]]
      /\ UNCHANGED <<now, store, batch, spent>>
  BY Zenon, <1>0 DEF selectProviders
<1>2. Today' = Today
  BY Zenon, <1>1 DEF Today
<1>3. /\ day = Today => UNCHANGED <<lost, setback>>
      /\ day # Today =>
            /\ lost' = [p \in Providers |-> lost[p] + resetDay(stats[p], Today).usage]
            /\ setback' = [p \in Providers |-> setback[p] \/ stats[p].reset = Today]
  BY Zenon, <1>0 DEF selectProviders
<1>4. ASSUME NEW p \in Providers
      PROVE  /\ stats'[p] \in Counts /\ pending'[p] \in Updates /\ lost'[p] \in Int
             /\ Days(stats'[p], store[p], batch[p], pending'[p], Today)
             /\ spent[p] - lost'[p] = resetDay(stats'[p], Today).usage
             /\ setback'[p] \/ Book(stats'[p], store[p], batch[p], pending'[p], Today)
  <2>1. /\ stats[p] \in Counts /\ store[p] \in Records /\ batch[p] \in Updates /\ pending[p] \in Updates
        /\ Days(stats[p], store[p], batch[p], pending[p], Today) /\ Today \in Nat
        /\ spent[p] \in Int /\ lost[p] \in Int
        /\ setback[p] \/ Book(stats[p], store[p], batch[p], pending[p], Today)
    BY Zenon, OneBook
  <2>2. PICK t \in Counts : /\ t = resetDay(stats[p], day) /\ t.reset = day
                            /\ stats[p].reset = day => t = stats[p]
                            /\ stats[p].reset # day => t.usage = 0
    BY Zenon, <2>1, ResetIs
  <2>3. stats'[p] = t
    BY Zenon, <1>1, <2>2
  <2>4. PICK x : x = pending'[p]
    BY Zenon
  <2>5. x = pending[p] \/ (x = clearUpdate /\ stats[p].reset # day)
    BY Zenon, <1>1, <2>4 DEF enqueue
  <2>6. x \in Updates /\ (x = pending[p] \/ x.op # "save") /\ DayOK(x, Today)
    <3>1. CASE x = pending[p] BY Zenon, <3>1, <2>1 DEF Days
    <3>2. CASE x = clearUpdate
      <4>1. x.op # "save" BY <3>2, ClearIs
      <4> QED BY Zenon, <3>2, <4>1, ClearIs
    <3> QED BY Zenon, <2>5, <3>1, <3>2
  <2>7. Days(t, store[p], batch[p], x, Today)
    BY Zenon, <1>0, <2>1, <2>2, <2>6 DEF Days
  <2>8. PICK u \in Nat : u = resetDay(stats[p], Today).usage /\ spent[p] - lost[p] = u
    BY Zenon, UsageIs
  <2>9. CASE day = Today
    <3>1. resetDay(t, Today) = t BY Zenon, <2>2, <2>9 DEF resetDay
    <3>2. lost'[p] = lost[p] /\ setback'[p] = setback[p] BY Zenon, <1>3, <2>9
    <3>3. spent[p] - lost'[p] = resetDay(t, Today).usage BY Zenon, <2>2, <2>8, <2>9, <3>1, <3>2
    <3>4. ASSUME Book(stats[p], store[p], batch[p], pending[p], Today)
          PROVE  Book(t, store[p], batch[p], x, Today)
      <4>1. CASE stats[p].reset = Today BY Zenon, <3>4, <4>1, <2>2, <2>5, <2>9
      <4>2. CASE stats[p].reset # Today BY Zenon, <3>4, <4>2, <2>1, <2>6, BookOtherDay
      <4> QED BY Zenon, <4>1, <4>2
    <3> QED BY Zenon, <2>1, <2>3, <2>4, <2>6, <2>7, <3>2, <3>3, <3>4
  <2>10. CASE day # Today
    <3>1. lost'[p] = lost[p] + u /\ setback'[p] = (setback[p] \/ stats[p].reset = Today)
      BY Zenon, <1>3, <2>8, <2>10
    <3>2. resetDay(t, Today).usage = 0
      BY Zenon, <2>1, <2>2, <2>10, ResetIs
    <3>3. lost'[p] \in Int /\ spent[p] - lost'[p] = 0
      BY <2>1, <2>8, <3>1
    <3>4. ASSUME ~setback'[p] PROVE Book(t, store[p], batch[p], x, Today)
      <4>1. stats[p].reset # Today /\ Book(stats[p], store[p], batch[p], pending[p], Today)
        BY Zenon, <3>1, <3>4, <2>1
      <4> QED BY Zenon, <4>1, <2>1, <2>6, BookOtherDay
    <3> QED BY Zenon, <2>3, <2>4, <2>6, <2>7, <3>2, <3>3, <3>4
  <2> QED BY Zenon, <2>9, <2>10
<1>5. stats' \in [Providers -> Counts] /\ pending' \in [Providers -> Updates]
  BY Zenon, <1>1, <1>4
<1>6. lost' \in [Providers -> Int] /\ setback' \in [Providers -> BOOLEAN]
  <2>1. CASE day = Today BY Zenon, <2>1, <1>3 DEF LedgerInv, LedgerTypes
  <2>2. CASE day # Today
    <3>1. lost' = [p \in Providers |-> lost'[p]] BY Zenon, <2>2, <1>3
    <3>2. setback' = [p \in Providers |-> setback[p] \/ stats[p].reset = Today] BY Zenon, <2>2, <1>3
    <3>3. lost' \in [Providers -> Int] BY Zenon, <3>1, <1>4
    <3>4. setback' \in [Providers -> BOOLEAN] BY Zenon, <3>2
    <3> QED BY Zenon, <3>3, <3>4
  <2> QED BY Zenon, <2>1, <2>2
<1>7. LedgerTypes'
  BY Zenon, <1>1, <1>5, <1>6 DEF LedgerInv, LedgerTypes
<1>8. \A p \in Providers : /\ Days(stats'[p], store'[p], batch'[p], pending'[p], Today')
                           /\ Accounted(p)'
                           /\ setback'[p] \/ Book(stats'[p], store'[p], batch'[p], pending'[p], Today')
  BY Zenon, <1>1, <1>2, <1>4 DEF Accounted
<1> QED BY Zenon, <1>7, <1>8 DEF LedgerInv

\* A successful call is counted, and its count queued.
LEMMA SuccessLedger ==
    ASSUME LedgerInv, NEW c \in Calls, NEW n \in Tokens, recordSuccess(c, n),
           call[c].cands[call[c].att] \in Providers
    PROVE  LedgerInv'
<1>0. PICK p \in Providers : p = call[c].cands[call[c].att]
  BY Zenon
<1>1. /\ stats[p] \in Counts /\ store[p] \in Records /\ batch[p] \in Updates /\ pending[p] \in Updates
      /\ Days(stats[p], store[p], batch[p], pending[p], Today) /\ Today \in Nat
      /\ spent[p] \in Int /\ lost[p] \in Int
      /\ setback[p] \/ Book(stats[p], store[p], batch[p], pending[p], Today)
  BY Zenon, OneBook
<1>2. PICK t \in Counts : /\ t = resetDay(stats[p], Today) /\ t.reset = Today
                          /\ stats[p].reset = Today => t = stats[p]
  BY Zenon, <1>1, ResetIs
<1>3. PICK u : u = [t EXCEPT !.usage = @ + n]
  BY ZenonT(40)
<1>4. n \in Nat
  BY Zenon, RouterAssumption
<1>5. u \in Counts /\ u.reset = Today /\ u.usage = t.usage + n /\ t.usage \in Nat
  BY <1>2, <1>3, <1>4 DEF Counts
<1>6. stats[p].reset = Today => stats[p].usage <= u.usage
  <2>1. t.usage <= u.usage BY <1>4, <1>5
  <2> QED BY Zenon, <2>1, <1>2
<1>7. PICK y \in Updates : y = saveUpdate(u) /\ DayOK(y, Today)
  <2>1. u.usage \in Nat BY <1>4, <1>5
  <2>2. saveUpdate(u) = [op |-> "save", usage |-> u.usage, day |-> Today] BY Zenon, <1>5 DEF saveUpdate
  <2>3. saveUpdate(u) \in Updates /\ DayOK(saveUpdate(u), Today) BY <2>1, <2>2, <1>1 DEF Updates, DayOK
  <2> QED BY Zenon, <2>3
<1>8. PICK x \in {y, pending[p]} : pending' = [pending EXCEPT ![p] = x]
  BY ZenonT(40), <1>0, <1>2, <1>3, <1>7 DEF recordSuccess, enqueue
<1>9. ASSUME Book(stats[p], store[p], batch[p], pending[p], Today)
      PROVE  Book(u, store[p], batch[p], x, Today)
  <2>1. Book(u, store[p], batch[p], pending[p], Today) BY Zenon, <1>1, <1>5, <1>6, <1>9, BookGrows
  <2>2. Book(u, store[p], batch[p], y, Today) BY Zenon, <1>1, <1>5, <1>7, <2>1, BookSave
  <2> QED BY Zenon, <2>1, <2>2, <1>8
<1>10. /\ stats' = [stats EXCEPT ![p] = u] /\ spent' = [spent EXCEPT ![p] = @ + n]
       /\ UNCHANGED <<now, store, batch, lost, setback>>
  BY Zenon, <1>0, <1>2, <1>3 DEF recordSuccess
<1>11. x \in Updates /\ DayOK(x, Today) /\ Days(u, store[p], batch[p], x, Today)
  <2>1. DayOK(pending[p], Today) /\ store[p].day <= Today /\ DayOK(batch[p], Today) BY Zenon, <1>1 DEF Days
  <2>2. x \in Updates /\ DayOK(x, Today) BY Zenon, <1>1, <1>7, <1>8, <2>1
  <2>3. u.reset <= Today BY <1>1, <1>5
  <2> QED BY Zenon, <2>1, <2>2, <2>3 DEF Days
<1>12. Today' = Today
  BY Zenon, <1>10 DEF Today
<1>13. spent \in [Providers -> Int] /\ stats \in [Providers -> Counts] /\ pending \in [Providers -> Updates]
  BY Zenon DEF LedgerInv, LedgerTypes
<1>14. stats' \in [Providers -> Counts] /\ pending' \in [Providers -> Updates] /\ spent' \in [Providers -> Int]
  BY <1>5, <1>8, <1>10, <1>11, <1>13, <1>4
<1>15. LedgerTypes'
  BY Zenon, <1>10, <1>14 DEF LedgerInv, LedgerTypes
<1>16. ASSUME NEW q \in Providers
       PROVE  /\ Days(stats'[q], store'[q], batch'[q], pending'[q], Today') /\ Accounted(q)'
              /\ setback'[q] \/ Book(stats'[q], store'[q], batch'[q], pending'[q], Today')
  <2>1. CASE q = p
    <3>1. stats'[q] = u /\ pending'[q] = x /\ spent'[q] = spent[p] + n /\ lost'[q] = lost[p]
      BY Zenon, <2>1, <1>8, <1>10, <1>13
    <3>2. resetDay(stats[q], Today)' = u
      BY Zenon, <3>1, <1>5, <1>12 DEF resetDay
    <3>3. spent[p] - lost[p] = t.usage
      BY Zenon, <1>2, UsageIs
    <3>4. spent'[q] - lost'[q] = u.usage
      BY <3>1, <3>3, <1>1, <1>4, <1>5
    <3>5. Accounted(q)'
      BY Zenon, <3>2, <3>4 DEF Accounted
    <3> QED BY Zenon, <2>1, <3>1, <3>5, <1>1, <1>9, <1>10, <1>11, <1>12
  <2>2. CASE q # p
    <3>1. stats'[q] = stats[q] /\ pending'[q] = pending[q] /\ spent'[q] = spent[q]
      BY ZenonT(40), <2>2, <1>8, <1>10, <1>13
    <3>2. resetDay(stats[q], Today)' = resetDay(stats[q], Today)
      BY Zenon, <3>1, <1>12
    <3>3. Accounted(q)'
      BY Zenon, <3>1, <3>2, <1>10, OneBook DEF Accounted
    <3> QED BY ZenonT(40), <3>1, <3>3, <1>10, <1>12, OneBook
  <2> QED BY Zenon, <2>1, <2>2
<1> QED BY Zenon, <1>15, <1>16 DEF LedgerInv

\* A flush takes the pending updates.
LEMMA TakeLedger ==
    ASSUME LedgerInv, flushTake
    PROVE  LedgerInv'
<1>1. /\ batch' = pending /\ pending' = [p \in Providers |-> NoUpdate]
      /\ UNCHANGED <<now, stats, store, spent, lost, setback>>
  BY Zenon DEF flushTake, history
<1>2. Today' = Today
  BY Zenon, <1>1 DEF Today
<1>3. PICK x \in Updates : x = NoUpdate /\ x.op = "none" /\ DayOK(x, Today)
  BY Zenon, NoUpdateIs
<1>4. LedgerTypes'
  BY Zenon, <1>1, <1>3 DEF LedgerInv, LedgerTypes
<1>5. ASSUME NEW p \in Providers
      PROVE  /\ Days(stats'[p], store'[p], batch'[p], pending'[p], Today') /\ Accounted(p)'
             /\ setback'[p] \/ Book(stats'[p], store'[p], batch'[p], pending'[p], Today')
  <2>1. /\ Days(stats[p], store[p], batch[p], pending[p], Today) /\ Accounted(p)
        /\ setback[p] \/ Book(stats[p], store[p], batch[p], pending[p], Today)
    BY Zenon, OneBook
  <2>2. pending'[p] = x /\ batch'[p] = pending[p] BY Zenon, <1>1, <1>3
  <2>3. Days(stats[p], store[p], pending[p], x, Today)
    BY Zenon, <2>1, <1>3 DEF Days
  <2>4. ASSUME Book(stats[p], store[p], batch[p], pending[p], Today)
        PROVE  Book(stats[p], store[p], pending[p], x, Today)
    <3>1. x.op # "save" /\ x.op # "clear" BY <1>3
    <3>2. \A u : Follows(x, u, Today) BY Zenon, <3>1 DEF Follows
    <3> QED BY Zenon, <2>4, <3>1, <3>2 DEF Book
  <2>5. Accounted(p)'
    BY Zenon, <1>1, <1>2, <2>1 DEF Accounted, resetDay
  <2> QED BY Zenon, <2>1, <2>2, <2>3, <2>4, <2>5, <1>1, <1>2
<1> QED BY Zenon, <1>4, <1>5 DEF LedgerInv

\* What one store call of the flush leaves behind.
LEMMA WriteIs ==
    ASSUME LedgerInv, NEW p \in Providers, NEW ok \in BOOLEAN, flushWrite(p, ok)
    PROVE  \E new : store' = [store EXCEPT ![p] = new] /\ Written(store[p], batch[p], new)
<1>1. batch[p] # NoUpdate /\ batch[p] \in Updates /\ DayOK(batch[p], Today)
  BY Zenon, OneBook DEF flushWrite, Days
<1>2. batch[p].op \in {"clear", "save"}
  BY Zenon, <1>1 DEF DayOK, Updates
<1>3. CASE ~ok
  <2>1. store' = [store EXCEPT ![p] = store[p]] BY Zenon, <1>3 DEF flushWrite
  <2> QED BY Zenon, <2>1 DEF Written
<1>4. CASE ok /\ batch[p].op = "clear"
  <2>1. store' = [store EXCEPT ![p] = NoRecord] BY Zenon, <1>4 DEF flushWrite
  <2> QED BY Zenon, <2>1, <1>4 DEF Written
<1>5. CASE ok /\ batch[p].op = "save"
  <2>1. store' = [store EXCEPT ![p] = [usage |-> batch[p].usage, day |-> batch[p].day]] BY Zenon, <1>5 DEF flushWrite
  <2> QED BY Zenon, <2>1, <1>5 DEF Written
<1> QED BY Zenon, <1>2, <1>3, <1>4, <1>5

\* One store call of a flush.
LEMMA WriteLedger ==
    ASSUME LedgerInv, NEW p \in Providers, NEW ok \in BOOLEAN, flushWrite(p, ok)
    PROVE  LedgerInv'
<1>1. PICK new : store' = [store EXCEPT ![p] = new] /\ Written(store[p], batch[p], new)
  BY Zenon, WriteIs
<1>2. batch' = [batch EXCEPT ![p] = NoUpdate] /\ UNCHANGED <<now, stats, pending, spent, lost, setback>>
  BY Zenon DEF flushWrite, history
<1>3. Today' = Today
  BY Zenon, <1>2 DEF Today
<1>4. /\ stats[p] \in Counts /\ store[p] \in Records /\ batch[p] \in Updates /\ pending[p] \in Updates
      /\ Today \in Nat /\ Days(stats[p], store[p], batch[p], pending[p], Today)
      /\ setback[p] \/ Book(stats[p], store[p], batch[p], pending[p], Today)
  BY Zenon, OneBook
<1>5. new \in Records /\ new.day <= Today
  BY Zenon, <1>1, <1>4, WriteDays DEF Days
<1>6. store \in [Providers -> Records] /\ batch \in [Providers -> Updates]
  BY Zenon DEF LedgerInv, LedgerTypes
<1>7. store' \in [Providers -> Records] /\ batch' \in [Providers -> Updates]
  BY Zenon, <1>1, <1>2, <1>5, <1>6, NoUpdateIs
<1>8. LedgerTypes'
  BY Zenon, <1>2, <1>7 DEF LedgerInv, LedgerTypes
<1>9. ASSUME NEW q \in Providers
      PROVE  /\ Days(stats'[q], store'[q], batch'[q], pending'[q], Today') /\ Accounted(q)'
             /\ setback'[q] \/ Book(stats'[q], store'[q], batch'[q], pending'[q], Today')
  <2>1. Accounted(q)'
    BY Zenon, <1>2, <1>3, OneBook DEF Accounted, resetDay
  <2>2. CASE q = p
    <3>1. store'[q] = new /\ batch'[q] = NoUpdate BY Zenon, <2>2, <1>1, <1>2, <1>6
    <3>2. Days(stats[p], new, NoUpdate, pending[p], Today) BY Zenon, <1>4, <1>5, NoUpdateIs DEF Days
    <3>3. setback[p] \/ Book(stats[p], new, NoUpdate, pending[p], Today) BY Zenon, <1>1, <1>4, BookWrite
    <3> QED BY Zenon, <2>1, <2>2, <3>1, <3>2, <3>3, <1>2, <1>3
  <2>3. CASE q # p
    <3>1. store'[q] = store[q] /\ batch'[q] = batch[q] BY Zenon, <2>3, <1>1, <1>2, <1>6
    <3> QED BY Zenon, <2>1, <3>1, <1>2, <1>3, OneBook
  <2> QED BY Zenon, <2>2, <2>3
<1> QED BY Zenon, <1>8, <1>9 DEF LedgerInv

\* What a new process has for a provider.
LEMMA LoadIs ==
    ASSUME LedgerInv, NEW unread, NEW uncleared, Restart(unread, uncleared), NEW p \in Providers
    PROVE  \E t \in Counts :
             /\ stats'[p] = t /\ t.reset = Today
             /\ t.usage = 0 \/ (store[p].day = Today /\ t.usage = store[p].usage)
             /\ lost'[p] = lost[p] + resetDay(stats[p], Today).usage - t.usage
             /\ store'[p] = store[p] \/ store'[p] = NoRecord
             /\ store[p].day = Today => store'[p] = store[p]
             /\ ~setback'[p] /\ store[p].day = Today => t.usage = store[p].usage
<1>1. store[p] \in Records /\ Today \in Nat
  BY Zenon, OneBook
<1>2. store[p].usage \in Nat
  BY Zenon, <1>1 DEF Records
<1>3. /\ stats'[p] = IF p \in unread THEN [usage |-> 0, reset |-> Today] ELSE loadQuotaLocked(p)
      /\ store'[p] = IF store[p].day = Today \/ p \in unread \cup uncleared THEN store[p] ELSE NoRecord
      /\ setback'[p] = (p \in unread)
      /\ lost'[p] = lost[p] + resetDay(stats[p], Today).usage
                      - (IF p \notin unread /\ store[p].day = Today THEN store[p].usage ELSE 0)
  BY Zenon DEF Restart
<1>4. /\ store'[p] = store[p] \/ store'[p] = NoRecord
      /\ store[p].day = Today => store'[p] = store[p]
  BY Zenon, <1>3
<1>5. CASE p \notin unread /\ store[p].day = Today
  <2>1. PICK t : t = [usage |-> store[p].usage, reset |-> Today] BY Zenon
  <2>2. loadQuotaLocked(p) = t BY Zenon, <1>5, <2>1 DEF loadQuotaLocked
  <2>3. t \in Counts /\ t.reset = Today /\ t.usage = store[p].usage BY Zenon, <2>1, <1>1, <1>2 DEF Counts
  <2>4. stats'[p] = t BY Zenon, <1>3, <1>5, <2>2
  <2>5. lost'[p] = lost[p] + resetDay(stats[p], Today).usage - t.usage BY Zenon, <1>3, <1>5, <2>3
  <2> QED BY Zenon, <2>3, <2>4, <2>5, <1>4, <1>5
<1>6. CASE p \in unread \/ store[p].day # Today
  <2>1. PICK t : t = [usage |-> 0, reset |-> Today] BY Zenon
  <2>2. p \notin unread => loadQuotaLocked(p) = t BY Zenon, <1>6, <2>1 DEF loadQuotaLocked
  <2>3. t \in Counts /\ t.reset = Today /\ t.usage = 0 BY Zenon, <2>1, <1>1 DEF Counts
  <2>4. stats'[p] = t BY Zenon, <1>3, <2>1, <2>2
  <2>5. lost'[p] = lost[p] + resetDay(stats[p], Today).usage - t.usage BY Zenon, <1>3, <1>6, <2>3
  <2>6. ~(~setback'[p] /\ store[p].day = Today) BY Zenon, <1>3, <1>6
  <2> QED BY Zenon, <2>3, <2>4, <2>5, <2>6, <1>4
<1> QED BY Zenon, <1>5, <1>6

\* A new process.
LEMMA RestartLedger ==
    ASSUME LedgerInv, NEW unread, NEW uncleared, Restart(unread, uncleared)
    PROVE  LedgerInv'
<1>1. /\ pending' = [p \in Providers |-> NoUpdate] /\ batch' = [p \in Providers |-> NoUpdate]
      /\ UNCHANGED <<now, spent>>
  BY Zenon DEF Restart
<1>2. Today' = Today
  BY Zenon, <1>1 DEF Today
<1>3. PICK x \in Updates : x = NoUpdate /\ x.op = "none" /\ DayOK(x, Today)
  BY Zenon, NoUpdateIs
<1>4. ASSUME NEW p \in Providers
      PROVE  /\ stats'[p] \in Counts /\ store'[p] \in Records /\ lost'[p] \in Int
             /\ Days(stats'[p], store'[p], batch'[p], pending'[p], Today') /\ Accounted(p)'
             /\ setback'[p] \/ Book(stats'[p], store'[p], batch'[p], pending'[p], Today')
  <2>1. PICK t \in Counts :
             /\ stats'[p] = t /\ t.reset = Today
             /\ lost'[p] = lost[p] + resetDay(stats[p], Today).usage - t.usage
             /\ store'[p] = store[p] \/ store'[p] = NoRecord
             /\ store[p].day = Today => store'[p] = store[p]
             /\ ~setback'[p] /\ store[p].day = Today => t.usage = store[p].usage
    BY Zenon, LoadIs
  <2>2. /\ store[p] \in Records /\ Today \in Nat /\ t.usage \in Nat /\ store[p].day <= Today
        /\ spent[p] \in Int /\ lost[p] \in Int
    BY Zenon, OneBook DEF Counts, Days
  <2>3. PICK r : r = store'[p] BY Zenon
  <2>4. r \in Records /\ r.day <= Today
    BY Zenon, <2>1, <2>2, <2>3, NoRecordIs
  <2>5. stats'[p] = t /\ batch'[p] = x /\ pending'[p] = x
    BY Zenon, <1>1, <1>3, <2>1
  <2>6. Days(t, r, x, x, Today)
    <3>1. t.reset <= Today BY <2>1, <2>2
    <3> QED BY Zenon, <3>1, <2>4, <1>3 DEF Days
  <2>7. ASSUME ~setback'[p] PROVE Book(t, r, x, x, Today)
    <3>1. x.op # "save" /\ x.op # "clear" BY <1>3
    <3>2. \A u : Follows(x, u, Today) BY Zenon, <3>1 DEF Follows
    <3>3. r.day = Today => r.usage = t.usage BY Zenon, <2>1, <2>2, <2>3, <2>7, NoRecordIs
    <3>4. Covers(t, t.usage, Today) BY <2>1, <2>2 DEF Covers
    <3> QED BY Zenon, <3>1, <3>2, <3>3, <3>4 DEF Book
  <2>8. PICK u \in Nat : u = resetDay(stats[p], Today).usage /\ spent[p] - lost[p] = u
    BY Zenon, UsageIs
  <2>9. lost'[p] = lost[p] + u - t.usage
    BY Zenon, <2>1, <2>8
  <2>10. lost'[p] \in Int /\ spent[p] - lost'[p] = t.usage
    BY <2>2, <2>8, <2>9
  <2>11. resetDay(stats[p], Today)' = t
    BY Zenon, <2>1, <2>5, <1>2 DEF resetDay
  <2>12. Accounted(p)'
    BY Zenon, <2>10, <2>11, <1>1 DEF Accounted
  <2> QED BY Zenon, <2>3, <2>4, <2>5, <2>6, <2>7, <2>10, <2>12, <1>2
<1>5. /\ stats' = [p \in Providers |-> stats'[p]] /\ store' = [p \in Providers |-> store'[p]]
      /\ lost' = [p \in Providers |-> lost'[p]] /\ setback' = [p \in Providers |-> p \in unread]
  BY Zenon DEF Restart
<1>6. /\ stats' \in [Providers -> Counts] /\ store' \in [Providers -> Records]
      /\ lost' \in [Providers -> Int]
  BY Zenon, <1>4, <1>5
<1>7. pending' \in [Providers -> Updates] /\ batch' \in [Providers -> Updates]
  BY Zenon, <1>1, <1>3
<1>8. setback' \in [Providers -> BOOLEAN]
  BY <1>5
<1>9. LedgerTypes'
  BY Zenon, <1>1, <1>6, <1>7, <1>8 DEF LedgerInv, LedgerTypes
<1> QED BY Zenon, <1>4, <1>9 DEF LedgerInv

\* On a later day the copies are still of no day to come, and none is of that day.
LEMMA NextDay ==
    ASSUME NEW s \in Counts, NEW r \in Records, NEW b \in Updates, NEW q \in Updates,
           NEW day \in Nat, NEW e \in Nat, day <= e, Days(s, r, b, q, day)
    PROVE  Days(s, r, b, q, e) /\ (day # e => s.reset # e /\ Book(s, r, b, q, e))
<1>1. s.reset \in Nat /\ r.day \in Int /\ b.day \in Int /\ q.day \in Int
  BY Zenon DEF Counts, Records, Updates
<1>2. s.reset <= day /\ r.day <= day /\ DayOK(b, day) /\ DayOK(q, day)
  BY Zenon DEF Days
<1>3. s.reset <= e /\ r.day <= e /\ DayOK(b, e) /\ DayOK(q, e)
  BY <1>1, <1>2 DEF DayOK
<1>4. ASSUME day # e
      PROVE  /\ s.reset # e /\ r.day # e
             /\ ~(b.op = "save" /\ b.day = e) /\ ~(q.op = "save" /\ q.day = e)
  BY <1>1, <1>2, <1>4 DEF DayOK
<1> QED BY Zenon, <1>3, <1>4 DEF Days, Book

\* Time passes, and perhaps a day.
LEMMA TickLedger ==
    ASSUME LedgerInv, Tick
    PROVE  LedgerInv'
<1>1. now \in Nat /\ now' = now + 1 /\ UNCHANGED <<stats, store, pending, batch>>
  BY Zenon DEF LedgerInv, LedgerTypes, Tick
<1>2. Today \in Nat /\ Today' \in Nat /\ Today <= Today' /\ now' \in Nat
  <2>1. now' \in Nat /\ now <= now' BY <1>1
  <2> QED BY Zenon, <1>1, <2>1, DayOrder DEF Today
<1>3. ASSUME NEW p \in Providers
      PROVE  /\ Days(stats[p], store[p], batch[p], pending[p], Today')
             /\ Today # Today' => /\ stats[p].reset # Today'
                                  /\ Book(stats[p], store[p], batch[p], pending[p], Today')
  BY Zenon, <1>2, OneBook, NextDay
<1>4. CASE Today' = Today
  <2>1. UNCHANGED <<spent, lost, setback>>
    BY Zenon, <1>1, <1>4 DEF Tick, Today, history
  <2>2. \A p \in Providers : Accounted(p)'
    BY Zenon, <1>1, <1>4, <2>1, OneBook DEF Accounted, resetDay
  <2>3. LedgerTypes'
    BY Zenon, <1>1, <1>2, <2>1 DEF LedgerInv, LedgerTypes
  <2>4. \A p \in Providers : setback'[p] \/ Book(stats'[p], store'[p], batch'[p], pending'[p], Today')
    BY Zenon, <1>1, <1>4, <2>1, OneBook
  <2> QED BY Zenon, <1>1, <1>3, <2>2, <2>3, <2>4 DEF LedgerInv
<1>5. CASE Today' # Today
  <2>1. /\ spent' = [p \in Providers |-> 0] /\ lost' = [p \in Providers |-> 0]
        /\ setback' = [p \in Providers |-> FALSE]
    BY Zenon, <1>1, <1>5 DEF Tick, Today
  <2>2. ASSUME NEW p \in Providers PROVE Accounted(p)'
    <3>1. resetDay(stats[p], Today)' = [usage |-> 0, reset |-> Today'] BY Zenon, <1>1, <1>3, <1>5 DEF resetDay
    <3>2. resetDay(stats[p], Today)'.usage = 0 BY <3>1
    <3>3. spent'[p] - lost'[p] = 0 BY <2>1
    <3> QED BY Zenon, <3>2, <3>3 DEF Accounted
  <2>3. spent' \in [Providers -> Int] /\ lost' \in [Providers -> Int] /\ setback' \in [Providers -> BOOLEAN]
    BY <2>1
  <2>4. LedgerTypes'
    BY Zenon, <1>1, <1>2, <2>3 DEF LedgerInv, LedgerTypes
  <2> QED BY Zenon, <1>1, <1>3, <1>5, <2>2, <2>4 DEF LedgerInv
<1> QED BY Zenon, <1>4, <1>5

\* The counters of a new router.
LEMMA LedgerInitial == Init => LedgerInv
<1> SUFFICES ASSUME Init PROVE LedgerInv BY Zenon
<1>1. /\ now = 0 /\ stats = [p \in Providers |-> [usage |-> 0, reset |-> 0]]
      /\ store = [p \in Providers |-> NoRecord]
      /\ pending = [p \in Providers |-> NoUpdate] /\ batch = [p \in Providers |-> NoUpdate]
      /\ spent = [p \in Providers |-> 0] /\ lost = [p \in Providers |-> 0]
      /\ setback = [p \in Providers |-> FALSE]
  BY Zenon DEF Init
<1>2. Today = 0 /\ Today \in Nat
  <2>1. DayLength \in Nat \ {0} BY Zenon, RouterAssumption
  <2>2. 0 \div DayLength = 0 BY <2>1
  <2>3. Today = 0 BY Zenon, <2>2, <1>1 DEF Today
  <2> QED BY <2>3
<1>3. PICK t : t = [usage |-> 0, reset |-> 0] BY Zenon
<1>4. t \in Counts /\ t.usage = 0 /\ t.reset = 0 BY Zenon, <1>3 DEF Counts
<1>5. PICK r \in Records : r = NoRecord /\ r.day # Today /\ r.day <= Today BY Zenon, <1>2, NoRecordIs
<1>6. PICK x \in Updates : x = NoUpdate /\ x.op = "none" /\ DayOK(x, Today) BY Zenon, NoUpdateIs
<1>7. Book(t, r, x, x, Today)
  <2>1. x.op # "save" BY <1>6
  <2> QED BY Zenon, <2>1, <1>5 DEF Book
<1>8. Days(t, r, x, x, Today)
  <2>1. t.reset <= Today BY <1>2, <1>4
  <2> QED BY Zenon, <2>1, <1>5, <1>6 DEF Days
<1>9. LedgerTypes
  <2>1. now \in Nat /\ spent \in [Providers -> Int] /\ lost \in [Providers -> Int] BY <1>1
  <2>2. stats \in [Providers -> Counts] BY Zenon, <1>1, <1>3, <1>4
  <2>3. store \in [Providers -> Records] BY Zenon, <1>1, <1>5
  <2>4. pending \in [Providers -> Updates] /\ batch \in [Providers -> Updates] BY Zenon, <1>1, <1>6
  <2>5. setback \in [Providers -> BOOLEAN] BY Zenon, <1>1
  <2> QED BY Zenon, <2>1, <2>2, <2>3, <2>4, <2>5 DEF LedgerTypes
<1>10. ASSUME NEW p \in Providers
       PROVE  /\ Days(stats[p], store[p], batch[p], pending[p], Today) /\ Accounted(p)
              /\ Book(stats[p], store[p], batch[p], pending[p], Today)
  <2>1. stats[p] = t /\ store[p] = r /\ batch[p] = x /\ pending[p] = x /\ spent[p] = 0 /\ lost[p] = 0
    BY Zenon, <1>1, <1>3, <1>5, <1>6
  <2>2. resetDay(t, Today) = t BY Zenon, <1>2, <1>4 DEF resetDay
  <2>3. Accounted(p) BY <2>1, <2>2, <1>4 DEF Accounted
  <2> QED BY Zenon, <2>1, <2>3, <1>7, <1>8
<1> QED BY Zenon, <1>9, <1>10 DEF LedgerInv

\* Steps that touch no counter.
LEMMA SameLedger ==
    ASSUME LedgerInv, UNCHANGED <<now, stats, store, pending, batch, spent, lost, setback>>
    PROVE  LedgerInv'
<1>1. Today' = Today BY Zenon DEF Today
<1>2. \A p \in Providers : resetDay(stats[p], Today)' = resetDay(stats[p], Today) BY Zenon, <1>1
<1>3. \A p \in Providers : Accounted(p)' BY Zenon, <1>2 DEF LedgerInv, Accounted
<1>4. \A p \in Providers : /\ Days(stats'[p], store'[p], batch'[p], pending'[p], Today')
                           /\ setback'[p] \/ Book(stats'[p], store'[p], batch'[p], pending'[p], Today')
  BY Zenon, <1>1 DEF LedgerInv
<1> QED BY Zenon, <1>3, <1>4 DEF LedgerInv, LedgerTypes

\* A call that succeeds calls one of its candidates.
LEMMA SuccessCandidate ==
    ASSUME ShieldInv, NEW c \in Calls, call[c].pc = "calling"
    PROVE  call[c].cands[call[c].att] \in Providers /\ call[c].att \in 1 .. Len(call[c].cands)
<1>1. call[c].att \in 1 .. Len(call[c].cands) BY Zenon DEF ShieldInv, CallTypes
<1> QED BY Zenon, <1>1, CalledIsCandidate

\* Every step keeps the books.
LEMMA LedgerNext ==
    ASSUME ShieldInv, LedgerInv, [Next]_vars
    PROVE  LedgerInv'
<1>1. CASE \E c \in Calls, s \in Strategies : selectProviders(c, s)
  BY Zenon, <1>1, SelectLedger
<1>2. CASE \E c \in Calls, t \in Tokens : recordSuccess(c, t)
  <2>1. PICK c \in Calls, t \in Tokens : recordSuccess(c, t) BY Zenon, <1>2
  <2>2. call[c].pc = "calling" BY Zenon, <2>1 DEF recordSuccess
  <2> QED BY Zenon, <2>1, <2>2, SuccessCandidate, SuccessLedger
<1>3. CASE (\E c \in Calls : readToday(c) \/ attempt(c) \/ recordFailure(c) \/ cancelled(c)) \/ CloseQuota \/ UNCHANGED vars
  <2>1. UNCHANGED <<now, stats, store, pending, batch, spent, lost, setback>>
    BY Zenon, <1>3 DEF readToday, attempt, recordFailure, cancelled, CloseQuota, vars, history
  <2> QED BY Zenon, <2>1, SameLedger
<1>4. CASE flushTake BY Zenon, <1>4, TakeLedger
<1>5. CASE \E p \in Providers, ok \in BOOLEAN : flushWrite(p, ok) BY Zenon, <1>5, WriteLedger
<1>6. CASE \E unread, uncleared \in SUBSET Providers : Restart(unread, uncleared)
  BY Zenon, <1>6, RestartLedger
<1>7. CASE Tick BY Zenon, <1>7, TickLedger
<1> QED BY Zenon, <1>1, <1>2, <1>3, <1>4, <1>5, <1>6, <1>7 DEF Next

\* What a step leaves on disk for a provider with a record of today.
LEMMA StoreGrows ==
    ASSUME LedgerInv, Next, NEW p \in Providers, store[p].day = Today, ~setback'[p]
    PROVE  store'[p].day = Today /\ store'[p].usage >= store[p].usage
<1>0. store[p] \in Records /\ store[p].usage \in Nat /\ store \in [Providers -> Records]
  BY Zenon, OneBook DEF LedgerInv, LedgerTypes, Records
<1>1. CASE UNCHANGED store
  BY <1>0, <1>1
<1>2. CASE \E unread, uncleared \in SUBSET Providers : Restart(unread, uncleared)
  <2>1. store'[p] = store[p] BY Zenon, <1>2, LoadIs
  <2> QED BY <1>0, <2>1
<1>3. CASE \E q \in Providers, ok \in BOOLEAN : flushWrite(q, ok)
  <2>1. PICK q \in Providers, ok \in BOOLEAN : flushWrite(q, ok) BY Zenon, <1>3
  <2>2. PICK new : store' = [store EXCEPT ![q] = new] /\ Written(store[q], batch[q], new)
    BY Zenon, <2>1, WriteIs
  <2>3. CASE q = p
    <3>1. store'[p] = new BY Zenon, <2>2, <2>3, <1>0
    <3>2. ~setback[p] BY Zenon, <2>1 DEF flushWrite, history
    <3>3. /\ Book(stats[p], store[p], batch[p], pending[p], Today) /\ Today \in Nat
          /\ stats[p] \in Counts /\ batch[p] \in Updates /\ pending[p] \in Updates
      BY Zenon, <3>2, OneBook
    <3>4. Written(store[p], batch[p], new) BY Zenon, <2>2, <2>3
    <3>5. new.day = Today /\ new.usage >= store[p].usage BY <1>0, <3>3, <3>4, WriteGrows
    <3> QED BY Zenon, <3>1, <3>5
  <2>4. CASE q # p
    <3>1. store'[p] = store[p] BY <2>2, <2>4
    <3> QED BY <1>0, <3>1
  <2> QED BY Zenon, <2>3, <2>4
<1>4. CASE \/ \E c \in Calls, s \in Strategies : selectProviders(c, s)
           \/ \E c \in Calls, t \in Tokens : recordSuccess(c, t)
           \/ \E c \in Calls : readToday(c) \/ attempt(c) \/ recordFailure(c) \/ cancelled(c)
           \/ flushTake \/ CloseQuota \/ Tick
  <2>1. UNCHANGED store
    BY Zenon, <1>4 DEF readToday, selectProviders, recordSuccess, attempt, recordFailure, cancelled, flushTake, CloseQuota, Tick
  <2> QED BY Zenon, <2>1, <1>1
<1> QED BY Zenon, <1>2, <1>3, <1>4 DEF Next

\* The debounced writes of the quota file never take back tokens already on
\* disk for the day, whatever calls, day changes, failed writes, flushes and
\* restarts interleave (router_quota.go:520), as long as nothing began the
\* day's count again: neither a caller late over midnight (llm_router.go:422)
\* nor a process that could not read the record (router_quota.go:811).
THEOREM PersistedUsageGrows == Spec => PersistedNeverShrinks
<1>1. ShieldInv /\ LedgerInv /\ [Next]_vars =>
        [\A p \in Providers : store[p].day = Today /\ Today' = Today /\ ~setback'[p] =>
            store'[p].day = Today /\ store'[p].usage >= store[p].usage]_vars
  BY Zenon, StoreGrows
<1> QED BY <1>1, ShieldInitial, ShieldNext, LedgerInitial, LedgerNext, PTL DEF Spec, PersistedNeverShrinks

-----------------------------------------------------------------------------
(* The daily quota                                                         *)

\* The calls that may still count tokens for a provider.
InFlight(p) == {c \in Calls : /\ call[c].pc \in {"next", "calling"}
                              /\ \E i \in 1 .. Len(call[c].cands) : call[c].cands[i] = p}

\* Below the quota q, or above it with room for a largest call m of each of
\* the k calls in flight, of n callers.
Room(u, k, q, n, m) == u < q \/ u + k * m < q + n * m

\* The room a provider has for the calls in flight.
QuotaInv ==
    \A p \in Providers : QuotaDaily[p] > 0 =>
        Room(resetDay(stats[p], Today).usage, Cardinality(InFlight(p)), QuotaDaily[p], Cardinality(Calls), Max(Tokens))

\* Below the bound: a largest call over the quota for every caller.
Bounded(p, u) == u < QuotaDaily[p] + Cardinality(Calls) * Max(Tokens)

\* So is every copy of today's count: after a setback the file may have more
\* than the counter, and a new process starts from it.
CopyInv ==
    \A p \in Providers : QuotaDaily[p] > 0 =>
        /\ store[p].day = Today => Bounded(p, store[p].usage)
        /\ batch[p].op = "save" /\ batch[p].day = Today => Bounded(p, batch[p].usage)
        /\ pending[p].op = "save" /\ pending[p].day = Today => Bounded(p, pending[p].usage)

\* Less used and fewer calls leave at least as much room.
LEMMA RoomLess ==
    ASSUME NEW u \in Nat, NEW v \in Nat, NEW k \in Nat, NEW j \in Nat, NEW q \in Nat, NEW n \in Nat, NEW m \in Nat,
           v <= u, j <= k, Room(u, k, q, n, m)
    PROVE  Room(v, j, q, n, m)
<1>1. j * m <= k * m
  <2>1. PICK d \in Nat : k = j + d
    <3>1. k - j \in Nat /\ k = j + (k - j) OBVIOUS
    <3> QED BY Zenon, <3>1
  <2>2. k * m = j * m + d * m BY <2>1
  <2>3. d * m \in Nat /\ j * m \in Nat OBVIOUS
  <2> QED BY <2>2, <2>3
<1>2. k * m \in Nat /\ j * m \in Nat /\ n * m \in Nat OBVIOUS
<1>3. PICK a \in Nat, b \in Nat, c \in Nat : a = k * m /\ b = j * m /\ c = n * m BY Zenon, <1>2
<1>4. u < q \/ u + a < q + c BY Zenon, <1>3 DEF Room
<1>5. v < q \/ v + b < q + c BY <1>1, <1>3, <1>4
<1> QED BY Zenon, <1>3, <1>5 DEF Room

\* A call in flight that ends within the largest size uses its own room.
LEMMA RoomSpend ==
    ASSUME NEW u \in Nat, NEW t \in Nat, NEW k \in Nat, NEW q \in Nat, NEW n \in Nat, NEW m \in Nat,
           t <= m, k + 1 <= n, Room(u, k + 1, q, n, m)
    PROVE  Room(u + t, k, q, n, m)
<1>1. (k + 1) * m = k * m + m OBVIOUS
<1>2. (k + 1) * m <= n * m
  <2>1. PICK d \in Nat : n = k + 1 + d
    <3>1. n - (k + 1) \in Nat /\ n = k + 1 + (n - (k + 1)) OBVIOUS
    <3> QED BY Zenon, <3>1
  <2>2. n * m = (k + 1) * m + d * m BY <2>1
  <2>3. d * m \in Nat /\ (k + 1) * m \in Nat OBVIOUS
  <2> QED BY <2>2, <2>3
<1>3. PICK a \in Nat, c \in Nat : a = k * m /\ c = n * m
  <2>1. k * m \in Nat /\ n * m \in Nat OBVIOUS
  <2> QED BY Zenon, <2>1
<1>4. a + m <= c BY Zenon, <1>1, <1>2, <1>3
<1>5. u < q \/ u + (a + m) < q + c BY Zenon, <1>1, <1>3 DEF Room
<1>6. u + t + a < q + c BY <1>4, <1>5
<1> QED BY Zenon, <1>3, <1>6 DEF Room

\* Within the room the quota is exceeded by less than a call per caller.
LEMMA RoomBound ==
    ASSUME NEW u \in Nat, NEW k \in Nat, NEW q \in Nat, NEW n \in Nat, NEW m \in Nat, Room(u, k, q, n, m)
    PROVE  u < q + n * m
<1>1. PICK a \in Nat, c \in Nat : a = k * m /\ c = n * m
  <2>1. k * m \in Nat /\ n * m \in Nat OBVIOUS
  <2> QED BY Zenon, <2>1
<1>2. u < q \/ u + a < q + c BY Zenon, <1>1 DEF Room
<1> QED BY <1>1, <1>2

\* The largest call.
LEMMA LargestCall == Max(Tokens) \in Nat /\ \A t \in Tokens : t \in Nat /\ t <= Max(Tokens)
<1>1. Tokens \subseteq Nat /\ \E m \in Tokens : \A t \in Tokens : t <= m
  BY Zenon, RouterAssumption
<1>2. PICK m \in Tokens : \A t \in Tokens : t <= m
  BY Zenon, <1>1
<1>3. \A t \in Tokens : m >= t
  BY Zenon, <1>1, <1>2
<1>4. Max(Tokens) \in Tokens /\ \A t \in Tokens : Max(Tokens) >= t
  BY Zenon, <1>2, <1>3 DEF Max
<1> QED BY Zenon, <1>1, <1>4

\* There are finitely many calls in flight, of those there are.
LEMMA FewCalls ==
    ASSUME NEW S \in SUBSET Calls
    PROVE  /\ IsFiniteSet(S) /\ Cardinality(S) \in Nat /\ Cardinality(Calls) \in Nat
           /\ Cardinality(S) <= Cardinality(Calls)
           /\ \A T \in SUBSET S : Cardinality(T) \in Nat /\ Cardinality(T) <= Cardinality(S)
<1>1. IsFiniteSet(Calls) BY Zenon, RouterAssumption
<1>2. IsFiniteSet(S) /\ Cardinality(S) <= Cardinality(Calls) BY Zenon, <1>1, FS_Subset
<1>3. \A T \in SUBSET S : IsFiniteSet(T) /\ Cardinality(T) <= Cardinality(S) BY Zenon, <1>2, FS_Subset
<1> QED BY Zenon, <1>1, <1>2, <1>3, FS_CardinalityType

\* A step after which nothing more is used and no further call is in flight.
LEMMA StillRoom ==
    ASSUME NEW p \in Providers, NEW u \in Nat, NEW v \in Nat, v <= u, NEW S \in SUBSET Calls, NEW T \in SUBSET S,
           Room(u, Cardinality(S), QuotaDaily[p], Cardinality(Calls), Max(Tokens))
    PROVE  Room(v, Cardinality(T), QuotaDaily[p], Cardinality(Calls), Max(Tokens))
<1>1. Cardinality(S) \in Nat /\ Cardinality(T) \in Nat /\ Cardinality(Calls) \in Nat /\ Cardinality(T) <= Cardinality(S)
  BY Zenon, FewCalls
<1>2. QuotaDaily[p] \in Nat BY Zenon, RouterAssumption
<1>3. Max(Tokens) \in Nat BY Zenon, LargestCall
<1> QED BY Zenon, <1>1, <1>2, <1>3, RoomLess

\* Below the quota there is room whatever is in flight.
LEMMA BelowQuota ==
    ASSUME NEW u, NEW k, NEW q, NEW n, NEW m, u < q
    PROVE  Room(u, k, q, n, m)
BY Zenon DEF Room

\* A step of one call that keeps the counters and adds no candidate.
LEMMA QuotaFrame ==
    ASSUME LedgerInv, QuotaInv, UNCHANGED <<now, stats>>,
           \A p \in Providers : InFlight(p)' \subseteq InFlight(p)
    PROVE  QuotaInv'
<1> SUFFICES ASSUME NEW p \in Providers, QuotaDaily[p] > 0
             PROVE  Room(resetDay(stats[p], Today)'.usage, Cardinality(InFlight(p)'), QuotaDaily[p], Cardinality(Calls), Max(Tokens))
  BY Zenon DEF QuotaInv
<1>1. resetDay(stats[p], Today)' = resetDay(stats[p], Today)
  BY Zenon DEF resetDay, Today
<1>2. PICK u \in Nat : u = resetDay(stats[p], Today).usage
  BY Zenon, UsageIs
<1>3. PICK S \in SUBSET Calls : S = InFlight(p)
  BY Zenon DEF InFlight
<1>4. PICK T \in SUBSET S : T = InFlight(p)'
  BY Zenon, <1>3
<1>5. Room(u, Cardinality(S), QuotaDaily[p], Cardinality(Calls), Max(Tokens))
  BY Zenon, <1>2, <1>3 DEF QuotaInv
<1>6. u <= u
  OBVIOUS
<1>7. Room(u, Cardinality(T), QuotaDaily[p], Cardinality(Calls), Max(Tokens))
  BY Zenon, <1>5, <1>6, StillRoom
<1> QED BY ZenonT(40), <1>1, <1>2, <1>4, <1>7

\* A call that is idle now is in nobody's way.
LEMMA ReturnInFlight ==
    ASSUME ShieldInv, NEW c \in Calls, returns(c)
    PROVE  \A p \in Providers : InFlight(p)' = InFlight(p) \ {c}
<1>1. PICK r : r = idleCall(call[c].left) BY Zenon
<1>2. r.pc \notin {"next", "calling"}
  <2>1. r.pc = "idle" BY Zenon, <1>1 DEF idleCall
  <2> QED BY <2>1
<1>3. call' = [call EXCEPT ![c] = r] /\ DOMAIN call = Calls
  BY Zenon, <1>1 DEF returns, ShieldInv, CallTypes
<1>4. call'[c].pc \notin {"next", "calling"} /\ \A d \in Calls \ {c} : call'[d] = call[d]
  BY Zenon, <1>2, <1>3
<1> QED BY Zenon, <1>4 DEF InFlight

\* The loop of Execute keeps its list.
LEMMA LoopInFlight ==
    ASSUME ShieldInv, NEW c \in Calls, call[c].pc \in {"next", "calling"}, NEW r, r.cands = call[c].cands,
           call' = [call EXCEPT ![c] = r]
    PROVE  \A p \in Providers : InFlight(p)' \subseteq InFlight(p)
<1>1. DOMAIN call = Calls BY Zenon DEF ShieldInv, CallTypes
<1>2. call'[c].cands = call[c].cands /\ \A d \in Calls \ {c} : call'[d] = call[d]
  BY Zenon, <1>1
<1> QED BY Zenon, <1>2 DEF InFlight

\* Retries, failures and cancelled calls.
LEMMA LoopQuota ==
    ASSUME ShieldInv, LedgerInv, QuotaInv, NEW c \in Calls, attempt(c) \/ recordFailure(c) \/ cancelled(c)
    PROVE  QuotaInv'
<1>1. UNCHANGED <<now, stats>> /\ call[c].pc \in {"next", "calling"}
  BY Zenon DEF attempt, recordFailure, cancelled
<1>2. \/ returns(c)
      \/ call' = [call EXCEPT ![c].att = @ + 1]
      \/ call' = [call EXCEPT ![c].pc = "calling"]
      \/ call' = [call EXCEPT ![c].pc = "next", ![c].att = @ + 1]
  BY Zenon DEF attempt, recordFailure, cancelled
<1>3. call[c] \in CallRecords
  BY Zenon DEF ShieldInv, CallTypes
<1>4. CASE returns(c)
  <2>1. \A p \in Providers : InFlight(p)' \subseteq InFlight(p) BY Zenon, <1>4, ReturnInFlight
  <2> QED BY Zenon, <1>1, <2>1, QuotaFrame
<1>5. CASE ~returns(c)
  <2>1. PICK r \in {[call[c] EXCEPT !.att = @ + 1], [call[c] EXCEPT !.pc = "calling"],
                    [call[c] EXCEPT !.pc = "next", !.att = @ + 1]} : call' = [call EXCEPT ![c] = r]
    <3>1. CASE call' = [call EXCEPT ![c].att = @ + 1] BY Zenon, <3>1
    <3>2. CASE call' = [call EXCEPT ![c].pc = "calling"] BY Zenon, <3>2
    <3>3. CASE call' = [call EXCEPT ![c].pc = "next", ![c].att = @ + 1]
      <4>1. call' = [call EXCEPT ![c] = [call[c] EXCEPT !.pc = "next", !.att = @ + 1]] BY Zenon, <3>3
      <4> QED BY Zenon, <4>1
    <3> QED BY Zenon, <1>2, <1>5, <3>1, <3>2, <3>3
  <2>2. r.cands = call[c].cands BY Zenon, <1>3, <2>1 DEF CallRecords
  <2>3. \A p \in Providers : InFlight(p)' \subseteq InFlight(p) BY ZenonT(40), <1>1, <2>1, <2>2, LoopInFlight
  <2> QED BY Zenon, <1>1, <2>3, QuotaFrame
<1> QED BY Zenon, <1>4, <1>5

\* A call reads the day.
LEMMA ReadQuota ==
    ASSUME ShieldInv, LedgerInv, QuotaInv, NEW c \in Calls, readToday(c)
    PROVE  QuotaInv'
<1>1. /\ call' = [call EXCEPT ![c].pc = "select", ![c].day = Today, ![c].left = @ - 1]
      /\ UNCHANGED <<now, stats>> /\ call \in [Calls -> CallRecords]
  BY Zenon DEF readToday, ShieldInv, CallTypes
<1>2. call'[c].pc = "select" /\ \A d \in Calls \ {c} : call'[d] = call[d]
  BY Zenon, <1>1 DEF CallRecords
<1>3. call'[c].pc \notin {"next", "calling"}
  BY <1>2
<1>4. \A p \in Providers : InFlight(p)' \subseteq InFlight(p)
  BY Zenon, <1>2, <1>3 DEF InFlight
<1> QED BY Zenon, <1>1, <1>4, QuotaFrame

\* A provider over its quota gets no further call.
LEMMA NotAdmitted ==
    ASSUME ShieldInv, NEW c \in Calls, NEW s, selectProviders(c, s),
           NEW p \in Providers, ~underQuota(p, call[c].day)
    PROVE  InFlight(p)' \subseteq InFlight(p)
<1>1. p \notin Admitted(c) BY ZenonT(40) DEF Admitted
<1>2. DOMAIN call = Calls BY Zenon DEF ShieldInv, CallTypes
<1>3. CASE Admitted(c) = {}
  <2>1. returns(c) BY Zenon, <1>3 DEF selectProviders, Admitted
  <2> QED BY Zenon, <2>1, ReturnInFlight
<1>4. CASE Admitted(c) # {}
  <2>1. PICK cands \in orders(Admitted(c), s) :
           call' = [call EXCEPT ![c] = [pc |-> "next", day |-> 0, cands |-> cands, att |-> 1,
                                        since |-> now, left |-> @.left]]
    BY Zenon, <1>4 DEF selectProviders, Admitted
  <2>2. Admitted(c) \in SUBSET Providers BY Zenon DEF Admitted
  <2>3. cands \in Seq(Admitted(c)) BY Zenon, <2>2, CandidatesAre
  <2>4. PICK S : S = Admitted(c) BY Zenon
  <2>5. \A i \in 1 .. Len(cands) : cands[i] # p
    <3>1. cands \in Seq(S) /\ p \notin S BY Zenon, <2>3, <2>4, <1>1
    <3> QED BY <3>1
  <2>6. call'[c].cands = cands BY Zenon, <1>2, <2>1
  <2>7. \A d \in Calls \ {c} : call'[d] = call[d] BY Zenon, <1>2, <2>1
  <2> QED BY Zenon, <2>5, <2>6, <2>7 DEF InFlight
<1> QED BY Zenon, <1>3, <1>4

\* A call is admitted for a provider only below its quota; what a caller of
\* the day before makes of the counter is not of today.
LEMMA SelectQuota ==
    ASSUME ShieldInv, LedgerInv, QuotaInv, NEW c \in Calls, NEW s, selectProviders(c, s)
    PROVE  QuotaInv'
<1> SUFFICES ASSUME NEW p \in Providers, QuotaDaily[p] > 0
             PROVE  Room(resetDay(stats[p], Today)'.usage, Cardinality(InFlight(p)'), QuotaDaily[p], Cardinality(Calls), Max(Tokens))
  BY Zenon DEF QuotaInv
<1>0. PICK day \in Nat : day = call[c].day
  BY Zenon DEF ShieldInv, CallTypes, CallRecords
<1>1. stats'[p] = resetDay(stats[p], day) /\ Today' = Today
  BY Zenon, <1>0 DEF selectProviders, Today
<1>2. stats[p] \in Counts /\ Today \in Nat
  BY Zenon, OneBook
<1>3. PICK u \in Nat : u = resetDay(stats[p], Today).usage
  BY Zenon, UsageIs
<1>4. CASE day # Today
  <2>1. PICK t \in Counts : t = resetDay(stats[p], day) /\ t.reset = day BY Zenon, <1>2, ResetIs
  <2>2. resetDay(t, Today).usage = 0 BY Zenon, <2>1, <1>2, <1>4, ResetIs
  <2>3. resetDay(stats[p], Today)'.usage = 0 BY Zenon, <2>1, <2>2, <1>1
  <2> QED BY Zenon, <2>3, BelowQuota
<1>5. CASE day = Today
  <2>0. resetDay(stats[p], Today)' = resetDay(stats[p], Today)
    <3>1. PICK t \in Counts : t = resetDay(stats[p], Today) /\ t.reset = Today BY Zenon, <1>2, ResetIs
    <3>2. resetDay(t, Today) = t BY Zenon, <3>1 DEF resetDay
    <3> QED BY Zenon, <3>1, <3>2, <1>1, <1>5
  <2>1. CASE underQuota(p, day)
    <3>1. u < QuotaDaily[p] BY ZenonT(40), <1>3, <1>5, <2>1 DEF underQuota
    <3> QED BY ZenonT(40), <2>0, <1>3, <3>1, BelowQuota
  <2>2. CASE ~underQuota(p, day)
    <3>1. InFlight(p)' \subseteq InFlight(p)
      BY Zenon, <1>0, <2>2, NotAdmitted
    <3>4. PICK S \in SUBSET Calls : S = InFlight(p) BY Zenon DEF InFlight
    <3>5. PICK T \in SUBSET S : T = InFlight(p)' BY Zenon, <3>1, <3>4
    <3>6. Room(u, Cardinality(S), QuotaDaily[p], Cardinality(Calls), Max(Tokens))
      BY Zenon, <1>3, <3>4 DEF QuotaInv
    <3>7. u <= u OBVIOUS
    <3>8. Room(u, Cardinality(T), QuotaDaily[p], Cardinality(Calls), Max(Tokens))
      BY Zenon, <3>6, <3>7, StillRoom
    <3> QED BY ZenonT(40), <2>0, <1>3, <3>5, <3>8
  <2> QED BY Zenon, <2>1, <2>2
<1> QED BY Zenon, <1>4, <1>5

\* A call that succeeds leaves the calls in flight, and counts no more than
\* the room it had.
LEMMA SuccessQuota ==
    ASSUME ShieldInv, LedgerInv, QuotaInv, NEW c \in Calls, NEW n \in Tokens, recordSuccess(c, n)
    PROVE  QuotaInv'
<1>0. call[c].pc = "calling" /\ returns(c) /\ UNCHANGED now
  BY Zenon DEF recordSuccess
<1>1. /\ call[c].cands[call[c].att] \in Providers /\ call[c].att \in 1 .. Len(call[c].cands)
  BY Zenon, <1>0, SuccessCandidate
<1>2. PICK q \in Providers : q = call[c].cands[call[c].att]
  BY Zenon, <1>1
<1>3. c \in InFlight(q)
  BY Zenon, <1>0, <1>1, <1>2 DEF InFlight
<1>4. Today' = Today
  BY Zenon, <1>0 DEF Today
<1> SUFFICES ASSUME NEW p \in Providers, QuotaDaily[p] > 0
             PROVE  Room(resetDay(stats[p], Today)'.usage, Cardinality(InFlight(p)'), QuotaDaily[p], Cardinality(Calls), Max(Tokens))
  BY Zenon DEF QuotaInv
<1>5. PICK S \in SUBSET Calls : S = InFlight(p)
  BY ZenonT(40) DEF InFlight
<1>6. InFlight(p)' = S \ {c}
  BY Zenon, <1>0, <1>5, ReturnInFlight
<1>7. PICK u \in Nat : u = resetDay(stats[p], Today).usage
  BY Zenon, UsageIs
<1>8. Room(u, Cardinality(S), QuotaDaily[p], Cardinality(Calls), Max(Tokens))
  BY Zenon, <1>5, <1>7 DEF QuotaInv
<1>9. DOMAIN stats = Providers
  BY Zenon DEF LedgerInv, LedgerTypes
<1>10. CASE p # q
  <2>1. stats'[p] = stats[p] BY ZenonT(40), <1>2, <1>9, <1>10 DEF recordSuccess
  <2>2. resetDay(stats[p], Today)' = resetDay(stats[p], Today) BY <2>1, <1>4 DEF resetDay
  <2>3. u <= u OBVIOUS
  <2>4. S \ {c} \in SUBSET S BY Zenon
  <2>5. Room(u, Cardinality(S \ {c}), QuotaDaily[p], Cardinality(Calls), Max(Tokens))
    BY Zenon, <1>8, <2>3, <2>4, StillRoom
  <2> QED BY Zenon, <1>6, <1>7, <2>2, <2>5
<1>11. CASE p = q
  <2>1. stats[p] \in Counts /\ stats[p].reset <= Today /\ Today \in Nat BY Zenon, OneBook
  <2>2. PICK t \in Counts : t = resetDay(stats[p], Today) /\ t.reset = Today BY Zenon, <2>1, ResetIs
  <2>3. n \in Nat /\ n <= Max(Tokens) /\ Max(Tokens) \in Nat BY Zenon, LargestCall
  <2>4. stats'[p] = [t EXCEPT !.usage = @ + n] BY Zenon, <1>2, <1>9, <1>11, <2>2 DEF recordSuccess
  <2>5. stats'[p].reset = Today /\ stats'[p].usage = u + n BY Zenon, <1>7, <2>2, <2>4 DEF Counts
  <2>6. resetDay(stats[p], Today)' = stats'[p] BY Zenon, <1>4, <2>5 DEF resetDay
  <2>7. IsFiniteSet(S) /\ Cardinality(S) \in Nat /\ Cardinality(S) <= Cardinality(Calls) /\ Cardinality(Calls) \in Nat
    BY Zenon, FewCalls
  <2>8. PICK k \in Nat : k = Cardinality(S \ {c}) /\ Cardinality(S) = k + 1
    <3>1. c \in S BY Zenon, <1>3, <1>5, <1>11
    <3>2. IsFiniteSet(S \ {c}) /\ Cardinality(S \ {c}) = Cardinality(S) - 1 BY Zenon, <2>7, <3>1, FS_RemoveElement
    <3>3. Cardinality(S \ {c}) \in Nat BY Zenon, <3>2, FS_CardinalityType
    <3> QED BY <2>7, <3>2, <3>3
  <2>9. QuotaDaily[p] \in Nat BY Zenon, RouterAssumption
  <2>10. k + 1 <= Cardinality(Calls) BY Zenon, <2>7, <2>8
  <2>11. Room(u, k + 1, QuotaDaily[p], Cardinality(Calls), Max(Tokens)) BY Zenon, <1>8, <2>8
  <2>12. Room(u + n, k, QuotaDaily[p], Cardinality(Calls), Max(Tokens))
    BY Zenon, <2>3, <2>7, <2>9, <2>10, <2>11, RoomSpend
  <2> QED BY Zenon, <1>6, <2>5, <2>6, <2>8, <2>12
<1> QED BY ZenonT(40), <1>10, <1>11

\* A new process has no calls in flight.
LEMMA RestartInFlight ==
    ASSUME NEW unread, NEW uncleared, Restart(unread, uncleared), NEW p \in Providers
    PROVE  InFlight(p)' = {}
<1> SUFFICES ASSUME NEW c \in Calls PROVE call'[c].pc \notin {"next", "calling"}
  BY Zenon DEF InFlight
<1>1. PICK r : r = idleCall(call[c].left) BY Zenon
<1>2. r.pc = "idle" BY Zenon, <1>1 DEF idleCall
<1>3. call'[c] = r BY Zenon, <1>1 DEF Restart
<1> QED BY <1>2, <1>3

\* A new process has no calls in flight and reads no more than a bounded copy.
LEMMA RestartQuota ==
    ASSUME LedgerInv, CopyInv, NEW unread, NEW uncleared, Restart(unread, uncleared)
    PROVE  QuotaInv'
<1> SUFFICES ASSUME NEW p \in Providers, QuotaDaily[p] > 0
             PROVE  Room(resetDay(stats[p], Today)'.usage, Cardinality(InFlight(p)'), QuotaDaily[p], Cardinality(Calls), Max(Tokens))
  BY Zenon DEF QuotaInv
<1>1. PICK t \in Counts : /\ stats'[p] = t /\ t.reset = Today
                          /\ t.usage = 0 \/ (store[p].day = Today /\ t.usage = store[p].usage)
  BY Zenon, LoadIs
<1>2. Today' = Today
  BY Zenon DEF Restart, Today
<1>3. resetDay(stats[p], Today)' = t
  BY Zenon, <1>1, <1>2 DEF resetDay
<1>4. InFlight(p)' = {}
  BY Zenon, RestartInFlight
<1>5. CASE t.usage = 0
  BY Zenon, <1>3, <1>5, BelowQuota
<1>6. CASE store[p].day = Today /\ t.usage = store[p].usage
  <2>1. t.usage < QuotaDaily[p] + Cardinality(Calls) * Max(Tokens)
    BY ZenonT(40), <1>6 DEF CopyInv, Bounded
  <2>2. Room(t.usage, 0, QuotaDaily[p], Cardinality(Calls), Max(Tokens))
    <3>1. t.usage \in Nat BY Zenon DEF Counts
    <3>2. Max(Tokens) \in Nat BY Zenon, LargestCall
    <3>3. t.usage + 0 * Max(Tokens) = t.usage BY <3>1, <3>2
    <3> QED BY Zenon, <2>1, <3>3 DEF Room
  <2>3. Cardinality({}) = 0 BY Zenon, FS_EmptySet
  <2> QED BY Zenon, <1>3, <1>4, <2>2, <2>3
<1> QED BY Zenon, <1>1, <1>5, <1>6

\* Time passes; on a new day nothing is used.
LEMMA TickQuota ==
    ASSUME ShieldInv, LedgerInv, QuotaInv, Tick
    PROVE  QuotaInv'
<1>1. UNCHANGED <<stats, call>>
  BY Zenon DEF Tick
<1> SUFFICES ASSUME NEW p \in Providers, QuotaDaily[p] > 0
             PROVE  Room(resetDay(stats[p], Today)'.usage, Cardinality(InFlight(p)'), QuotaDaily[p], Cardinality(Calls), Max(Tokens))
  BY Zenon DEF QuotaInv
<1>2. InFlight(p)' = InFlight(p)
  BY Zenon, <1>1 DEF InFlight
<1>3. CASE Today' = Today
  <2>1. resetDay(stats[p], Today)' = resetDay(stats[p], Today) BY Zenon, <1>1, <1>3 DEF resetDay
  <2> QED BY Zenon, <1>2, <2>1 DEF QuotaInv
<1>4. CASE Today' # Today
  <2>1. stats[p] \in Counts /\ stats[p].reset <= Today /\ Today \in Nat /\ now \in Nat BY Zenon, OneBook
  <2>2. Today <= Today' /\ Today' \in Nat
    <3>1. now' = now + 1 BY Zenon DEF Tick
    <3>2. now' \in Nat /\ now <= now' BY <2>1, <3>1
    <3> QED BY Zenon, <2>1, <3>2, DayOrder DEF Today
  <2>3. stats[p].reset # Today' BY <2>1, <2>2, <1>4 DEF Counts
  <2>4. resetDay(stats[p], Today)' = [usage |-> 0, reset |-> Today'] BY Zenon, <1>1, <2>3 DEF resetDay
  <2>5. resetDay(stats[p], Today)'.usage = 0 BY <2>4
  <2> QED BY Zenon, <2>5, BelowQuota
<1> QED BY Zenon, <1>3, <1>4

\* Every step keeps the room.
LEMMA QuotaNext ==
    ASSUME ShieldInv, LedgerInv, QuotaInv, CopyInv, [Next]_vars
    PROVE  QuotaInv'
<1>1. CASE \E c \in Calls, s \in Strategies : selectProviders(c, s)
  BY Zenon, <1>1, SelectQuota
<1>2. CASE \E c \in Calls, t \in Tokens : recordSuccess(c, t)
  BY Zenon, <1>2, SuccessQuota
<1>3. CASE \E c \in Calls : attempt(c) \/ recordFailure(c) \/ cancelled(c)
  BY Zenon, <1>3, LoopQuota
<1>4. CASE flushTake \/ (\E p \in Providers, ok \in BOOLEAN : flushWrite(p, ok)) \/ CloseQuota \/ UNCHANGED vars
  <2>1. UNCHANGED <<now, stats, call>> BY Zenon, <1>4 DEF flushTake, flushWrite, CloseQuota, vars
  <2>2. \A p \in Providers : InFlight(p)' \subseteq InFlight(p) BY Zenon, <2>1 DEF InFlight
  <2> QED BY Zenon, <2>1, <2>2, QuotaFrame
<1>5. CASE \E unread, uncleared \in SUBSET Providers : Restart(unread, uncleared)
  BY Zenon, <1>5, RestartQuota
<1>6. CASE Tick BY Zenon, <1>6, TickQuota
<1>7. CASE \E c \in Calls : readToday(c) BY Zenon, <1>7, ReadQuota
<1> QED BY Zenon, <1>1, <1>2, <1>3, <1>4, <1>5, <1>6, <1>7 DEF Next

\* A usage with room for the calls in flight is within the bound.
LEMMA RoomedIsBounded ==
    ASSUME NEW p \in Providers, NEW u \in Nat, NEW S \in SUBSET Calls,
           Room(u, Cardinality(S), QuotaDaily[p], Cardinality(Calls), Max(Tokens))
    PROVE  Bounded(p, u)
<1>1. Cardinality(S) \in Nat /\ Cardinality(Calls) \in Nat BY Zenon, FewCalls
<1>2. QuotaDaily[p] \in Nat BY Zenon, RouterAssumption
<1>3. Max(Tokens) \in Nat BY Zenon, LargestCall
<1>4. u < QuotaDaily[p] + Cardinality(Calls) * Max(Tokens) BY Zenon, <1>1, <1>2, <1>3, RoomBound
<1> QED BY Zenon, <1>4 DEF Bounded

\* A step that changes no counter copies a copy.
LEMMA CopyFrame ==
    ASSUME LedgerInv, CopyInv, Today' = Today,
           \A p \in Providers :
              /\ \/ store'[p] = store[p] \/ store'[p] = NoRecord
                 \/ batch[p].op = "save" /\ store'[p] = [usage |-> batch[p].usage, day |-> batch[p].day]
              /\ batch'[p] \in {batch[p], pending[p], NoUpdate}
              /\ pending'[p] \in {pending[p], clearUpdate, NoUpdate}
    PROVE  CopyInv'
<1> SUFFICES ASSUME NEW p \in Providers, QuotaDaily[p] > 0
             PROVE  /\ store'[p].day = Today => Bounded(p, store'[p].usage)
                    /\ batch'[p].op = "save" /\ batch'[p].day = Today => Bounded(p, batch'[p].usage)
                    /\ pending'[p].op = "save" /\ pending'[p].day = Today => Bounded(p, pending'[p].usage)
  BY Zenon DEF CopyInv, Bounded
<1>1. /\ store[p].day = Today => Bounded(p, store[p].usage)
      /\ batch[p].op = "save" /\ batch[p].day = Today => Bounded(p, batch[p].usage)
      /\ pending[p].op = "save" /\ pending[p].day = Today => Bounded(p, pending[p].usage)
  BY Zenon DEF CopyInv
<1>2. NoUpdate.op # "save" /\ clearUpdate.op # "save" /\ NoRecord.day # Today
  <2>1. NoUpdate.op = "none" /\ clearUpdate.op = "clear" BY Zenon, NoUpdateIs, ClearIs
  <2>2. NoRecord.day # Today BY Zenon, NoRecordIs, OneBook
  <2> QED BY <2>1, <2>2
<1>3. batch'[p].op = "save" /\ batch'[p].day = Today => Bounded(p, batch'[p].usage)
  BY Zenon, <1>1, <1>2
<1>4. pending'[p].op = "save" /\ pending'[p].day = Today => Bounded(p, pending'[p].usage)
  BY Zenon, <1>1, <1>2
<1>5. store'[p].day = Today => Bounded(p, store'[p].usage)
  <2>1. CASE batch[p].op = "save" /\ store'[p] = [usage |-> batch[p].usage, day |-> batch[p].day]
    <3>1. store'[p].usage = batch[p].usage /\ store'[p].day = batch[p].day BY <2>1
    <3> QED BY Zenon, <1>1, <2>1, <3>1
  <2>2. CASE store'[p] = store[p] \/ store'[p] = NoRecord BY Zenon, <1>1, <1>2, <2>2
  <2> QED BY Zenon, <2>1, <2>2
<1> QED BY Zenon, <1>3, <1>4, <1>5

\* A counted call queues a bounded count.
LEMMA CopySuccess ==
    ASSUME LedgerInv, CopyInv, LedgerInv', QuotaInv', NEW c \in Calls, NEW n \in Tokens, recordSuccess(c, n),
           call[c].cands[call[c].att] \in Providers
    PROVE  CopyInv'
<1>1. PICK q \in Providers : q = call[c].cands[call[c].att]
  BY Zenon
<1>2. Today' = Today /\ UNCHANGED <<store, batch>>
  BY Zenon DEF recordSuccess, Today
<1>3. stats \in [Providers -> Counts] /\ pending \in [Providers -> Updates]
  BY Zenon DEF LedgerInv, LedgerTypes
<1>4. \A p \in Providers \ {q} : pending'[p] = pending[p]
  BY ZenonT(40), <1>1, <1>3 DEF recordSuccess
<1>5. pending'[q] = pending[q] \/ pending'[q] = saveUpdate(stats'[q])
  BY ZenonT(40), <1>1, <1>3 DEF recordSuccess, enqueue
<1>6. ASSUME NEW p \in Providers, QuotaDaily[p] > 0, pending'[p].op = "save", pending'[p].day = Today
      PROVE  Bounded(p, pending'[p].usage)
  <2>1. CASE pending'[p] = pending[p]
    BY Zenon, <1>6, <2>1 DEF CopyInv
  <2>2. CASE p = q /\ pending'[q] = saveUpdate(stats'[q])
    <3>1. PICK t \in Counts : t = stats'[p] BY Zenon DEF LedgerInv, LedgerTypes
    <3>2. pending'[p] = [op |-> "save", usage |-> t.usage, day |-> t.reset] BY Zenon, <2>2, <3>1 DEF saveUpdate
    <3>3. pending'[p].usage = t.usage /\ pending'[p].day = t.reset BY <3>2
    <3>4. resetDay(stats[p], Today)' = t BY Zenon, <3>1, <3>3, <1>2, <1>6 DEF resetDay
    <3>5. t.usage \in Nat BY Zenon DEF Counts
    <3>6. PICK S \in SUBSET Calls : S = InFlight(p)' BY Zenon DEF InFlight
    <3>7. Room(t.usage, Cardinality(S), QuotaDaily[p], Cardinality(Calls), Max(Tokens))
      BY Zenon, <1>6, <3>4, <3>6 DEF QuotaInv
    <3> QED BY Zenon, <3>3, <3>5, <3>7, RoomedIsBounded
  <2> QED BY Zenon, <2>1, <2>2, <1>4, <1>5
<1> QED BY Zenon, <1>2, <1>6 DEF CopyInv, Bounded

\* Of a later day there is no copy yet.
LEMMA CopyTick ==
    ASSUME LedgerInv, CopyInv, Tick
    PROVE  CopyInv'
<1>1. now \in Nat /\ now' = now + 1 /\ UNCHANGED <<store, pending, batch>>
  BY Zenon DEF LedgerInv, LedgerTypes, Tick
<1>2. Today \in Nat /\ Today' \in Nat /\ Today <= Today'
  <2>1. now' \in Nat /\ now <= now' BY <1>1
  <2> QED BY Zenon, <1>1, <2>1, DayOrder DEF Today
<1>3. CASE Today' = Today
  BY Zenon, <1>1, <1>3 DEF CopyInv, Bounded
<1>4. CASE Today' # Today
  <2>1. ASSUME NEW p \in Providers
        PROVE  /\ store[p].day # Today' /\ ~(batch[p].op = "save" /\ batch[p].day = Today')
               /\ ~(pending[p].op = "save" /\ pending[p].day = Today')
    <3>1. /\ Days(stats[p], store[p], batch[p], pending[p], Today) /\ store[p] \in Records
          /\ batch[p] \in Updates /\ pending[p] \in Updates
      BY Zenon, OneBook
    <3>2. store[p].day \in Int /\ batch[p].day \in Int /\ pending[p].day \in Int
      BY Zenon, <3>1 DEF Records, Updates
    <3> QED BY <3>1, <3>2, <1>2, <1>4 DEF Days, DayOK
  <2> QED BY Zenon, <1>1, <2>1 DEF CopyInv
<1> QED BY Zenon, <1>3, <1>4

\* Every step keeps the copies bounded.
LEMMA CopyNext ==
    ASSUME ShieldInv, LedgerInv, CopyInv, LedgerInv', QuotaInv', [Next]_vars
    PROVE  CopyInv'
<1>1. CASE \E c \in Calls, s \in Strategies : selectProviders(c, s)
  <2>1. Today' = Today /\ UNCHANGED <<store, batch>> BY Zenon, <1>1 DEF selectProviders, Today
  <2>2. \A p \in Providers : pending'[p] \in {pending[p], clearUpdate}
    BY ZenonT(40), <1>1 DEF selectProviders, enqueue
  <2> QED BY Zenon, <2>1, <2>2, CopyFrame
<1>2. CASE \E c \in Calls, t \in Tokens : recordSuccess(c, t)
  <2>1. PICK c \in Calls, t \in Tokens : recordSuccess(c, t) BY Zenon, <1>2
  <2>2. call[c].pc = "calling" BY Zenon, <2>1 DEF recordSuccess
  <2> QED BY Zenon, <2>1, <2>2, SuccessCandidate, CopySuccess
<1>3. CASE (\E c \in Calls : readToday(c) \/ attempt(c) \/ recordFailure(c) \/ cancelled(c)) \/ CloseQuota \/ UNCHANGED vars
  <2>1. Today' = Today /\ UNCHANGED <<store, pending, batch>>
    BY Zenon, <1>3 DEF readToday, attempt, recordFailure, cancelled, CloseQuota, vars, Today
  <2> QED BY Zenon, <2>1, CopyFrame
<1>4. CASE flushTake
  <2>1. /\ Today' = Today /\ UNCHANGED store /\ batch' = pending
        /\ \A p \in Providers : pending'[p] = NoUpdate
    BY Zenon, <1>4 DEF flushTake, Today
  <2> QED BY Zenon, <2>1, CopyFrame
<1>5. CASE \E p \in Providers, ok \in BOOLEAN : flushWrite(p, ok)
  <2>1. PICK p \in Providers, ok \in BOOLEAN : flushWrite(p, ok) BY Zenon, <1>5
  <2>2. PICK new : store' = [store EXCEPT ![p] = new] /\ Written(store[p], batch[p], new)
    BY Zenon, <2>1, WriteIs
  <2>3. Today' = Today /\ UNCHANGED pending /\ batch' = [batch EXCEPT ![p] = NoUpdate]
    BY Zenon, <2>1 DEF flushWrite, Today
  <2>4. store \in [Providers -> Records] /\ batch \in [Providers -> Updates]
    BY Zenon DEF LedgerInv, LedgerTypes
  <2>5. \A q \in Providers : batch'[q] \in {batch[q], NoUpdate} BY Zenon, <2>3, <2>4
  <2>6. \A q \in Providers : \/ store'[q] = store[q] \/ store'[q] = NoRecord
                             \/ batch[q].op = "save" /\ store'[q] = [usage |-> batch[q].usage, day |-> batch[q].day]
    BY Zenon, <2>2, <2>4 DEF Written
  <2> QED BY Zenon, <2>3, <2>5, <2>6, CopyFrame
<1>6. CASE \E unread, uncleared \in SUBSET Providers : Restart(unread, uncleared)
  <2>1. /\ Today' = Today
        /\ \A p \in Providers : batch'[p] = NoUpdate /\ pending'[p] = NoUpdate
    BY Zenon, <1>6 DEF Restart, Today
  <2>2. \A p \in Providers : store'[p] = store[p] \/ store'[p] = NoRecord
    BY Zenon, <1>6, LoadIs
  <2> QED BY Zenon, <2>1, <2>2, CopyFrame
<1>7. CASE Tick BY Zenon, <1>7, CopyTick
<1> QED BY Zenon, <1>1, <1>2, <1>3, <1>4, <1>5, <1>6, <1>7 DEF Next

\* There are no copies at first.
LEMMA CopyInitial == Init => CopyInv
<1> SUFFICES ASSUME Init, NEW p \in Providers
             PROVE  store[p].day # Today /\ batch[p].op # "save" /\ pending[p].op # "save"
  BY Zenon DEF CopyInv
<1>1. store[p] = NoRecord /\ batch[p] = NoUpdate /\ pending[p] = NoUpdate /\ now = 0 BY Zenon DEF Init
<1>2. now \in Nat BY <1>1
<1>3. store[p].day # Today BY Zenon, <1>1, <1>2, TodayIs, NoRecordIs
<1>4. NoUpdate.op = "none" BY Zenon, NoUpdateIs
<1> QED BY <1>1, <1>3, <1>4

\* Nothing is used at first.
LEMMA QuotaInitial == Init => QuotaInv
<1> SUFFICES ASSUME Init, NEW p \in Providers, QuotaDaily[p] > 0
             PROVE  Room(resetDay(stats[p], Today).usage, Cardinality(InFlight(p)), QuotaDaily[p], Cardinality(Calls), Max(Tokens))
  BY Zenon DEF QuotaInv
<1>1. stats[p] = [usage |-> 0, reset |-> 0] BY Zenon DEF Init
<1>2. resetDay(stats[p], Today).usage = 0
  <2>1. CASE stats[p].reset # Today
    <3>1. resetDay(stats[p], Today) = [usage |-> 0, reset |-> Today] BY Zenon, <2>1 DEF resetDay
    <3> QED BY <3>1
  <2>2. CASE stats[p].reset = Today
    <3>1. resetDay(stats[p], Today) = stats[p] BY Zenon, <2>2 DEF resetDay
    <3> QED BY <1>1, <3>1
  <2> QED BY Zenon, <2>1, <2>2
<1> QED BY Zenon, <1>2, BelowQuota

\* For any quotas, strategies and number of callers: the tokens a provider
\* is charged in a day exceed its daily quota by less than one largest call
\* for every caller, apart from those the counter lost: to a crash before the
\* debounced write, to a record the next process could not read, or to a
\* caller that came late over midnight.  The quota is read before a call and
\* added to after it (llm_router.go:449, router_quota.go:441).
THEOREM QuotaOverspendBounded == Spec => []OverspendBounded
<1>1. ASSUME LedgerInv, QuotaInv PROVE OverspendBounded
  <2> SUFFICES ASSUME NEW p \in Providers, QuotaDaily[p] > 0
               PROVE  spent[p] - lost[p] < QuotaDaily[p] + Cardinality(Calls) * Max(Tokens)
    BY Zenon DEF OverspendBounded
  <2>1. PICK u \in Nat : u = resetDay(stats[p], Today).usage /\ spent[p] - lost[p] = u BY Zenon, <1>1, UsageIs
  <2>2. PICK S \in SUBSET Calls : S = InFlight(p) BY Zenon DEF InFlight
  <2>3. Room(u, Cardinality(S), QuotaDaily[p], Cardinality(Calls), Max(Tokens)) BY Zenon, <1>1, <2>1, <2>2 DEF QuotaInv
  <2> QED BY Zenon, <2>1, <2>3, RoomedIsBounded DEF Bounded
<1> QED
  BY <1>1, ShieldInitial, ShieldNext, LedgerInitial, LedgerNext, QuotaInitial, QuotaNext, CopyInitial, CopyNext, PTL
     DEF Spec
=============================================================================
