-------------------------- MODULE StructureProofs ---------------------------
(***************************************************************************)
(* The structure of a workflow: the fan-out of a step over its items, and  *)
(* the search for cycles in its graph.                                     *)
(***************************************************************************)
EXTENDS FanOut, DepGraph, FiniteSetTheorems, TLAPS

-----------------------------------------------------------------------------
(* Sequences *)

\* An element of a sequence.
LEMMA ElementOfSeq ==
    ASSUME NEW S, NEW q \in Seq(S), NEW i \in 1 .. Len(q)
    PROVE  q[i] \in S
OBVIOUS

\* The empty sequence.
LEMMA EmptySeq ==
    ASSUME NEW S
    PROVE  <<>> \in Seq(S) /\ Len(<<>>) = 0 /\ \A q \in Seq(S) : q # <<>> => Len(q) \in Nat \ {0}
OBVIOUS

\* A sequence is a function on the numbers up to its length.
LEMMA LenProperties ==
    ASSUME NEW S, NEW q \in Seq(S)
    PROVE  Len(q) \in Nat /\ DOMAIN q = 1 .. Len(q) /\ q \in [1 .. Len(q) -> S]
OBVIOUS

\* What SubSeq does.
LEMMA SubSeqProperties ==
    ASSUME NEW S, NEW q, NEW m \in Int, NEW n \in Int, \A i \in m .. n : q[i] \in S
    PROVE  /\ SubSeq(q, m, n) \in Seq(S) /\ Len(SubSeq(q, m, n)) = IF m <= n THEN n - m + 1 ELSE 0
           /\ \A i \in 1 .. n - m + 1 : SubSeq(q, m, n)[i] = q[m + i - 1]
OBVIOUS

\* What Head and Tail do.
LEMMA HeadTailProperties ==
    ASSUME NEW S, NEW q \in Seq(S), q # <<>>
    PROVE  /\ Head(q) \in S /\ Tail(q) \in Seq(S) /\ Len(Tail(q)) = Len(q) - 1
           /\ \A i \in 1 .. Len(Tail(q)) : Tail(q)[i] = q[i + 1]
OBVIOUS

\* What Append does.
LEMMA AppendProperties ==
    ASSUME NEW S, NEW q \in Seq(S), NEW e \in S
    PROVE  /\ Append(q, e) \in Seq(S) /\ Append(q, e) # <<>> /\ Len(Append(q, e)) = Len(q) + 1
           /\ Append(q, e)[Len(q) + 1] = e /\ \A i \in 1 .. Len(q) : Append(q, e)[i] = q[i]
OBVIOUS

-----------------------------------------------------------------------------
(* Fan-out                                                                 *)

\* Where an item of a fan-out can be.
UnitStates == {"new", "queued", "waiting", "running", "ok", "failed", "panicked", "dropped"}

\* The types of the fan-outs.
FanTypes ==
    /\ shape \in ShapeType /\ slots \in Int
    /\ DOMAIN unit = Fans /\ \A f \in Fans : unit[f] \in [ItemsOf(f) -> UnitStates]
    /\ next \in [Fans -> Nat \ {0}]
    /\ DOMAIN queue = Fans /\ \A f \in Fans : queue[f] \in Seq(ItemsOf(f))
    /\ result \in [Fans -> {"none", "ok", "failed", "panic"}]

(* The producer has submitted the items before its next one and no other;  *)
(* a queue holds the queued items, each once; only the workers of a        *)
(* concurrent step wait for a slot; and a step that has returned had       *)
(* collected everything.                                                   *)
Produced(f) == \A i \in ItemsOf(f) : unit[f][i] = "new" <=> i >= next[f]
\* An item is in the channel of its fan-out.
InQueue(f, i) == \E k \in 1 .. Len(queue[f]) : queue[f][k] = i
\* The channel holds the queued items, each once.
Queued(f) ==
    /\ \A i \in ItemsOf(f) : unit[f][i] = "queued" <=> InQueue(f, i)
    /\ \A k, l \in 1 .. Len(queue[f]) : queue[f][k] = queue[f][l] => k = l
\* The items of a sequential fan-out never wait for a slot of the limiter.
WaitForSlot(f) == \A i \in ItemsOf(f) : unit[f][i] \in {"queued", "waiting"} => ~Sequential(f)
\* A fan-out returns once everything is collected.
Ended(f) == result[f] # "none" => Collected(f)

\* What every fan-out keeps.
FanGood(f) == Produced(f) /\ Queued(f) /\ WaitForSlot(f) /\ Ended(f)

\* The inductive invariant of the fan-outs and the limiter they share.
FanInv ==
    /\ FanTypes
    /\ \A f \in Fans : FanGood(f)
    /\ SlotsAccounted

\* The items of a fan-out are numbered from 1.
LEMMA ItemNumbers ==
    ASSUME NEW f \in Fans
    PROVE  /\ Cardinality(ItemsOf(f)) \in Nat /\ ItemsOf(f) = 1 .. Cardinality(ItemsOf(f))
           /\ ItemsOf(f) \subseteq Items \cup SubItems /\ IsFiniteSet(ItemsOf(f))
<1>1. IsFiniteSet(Items) /\ IsFiniteSet(SubItems)
  BY Zenon, ItemsAssumption
<1>2. Items = 1 .. Cardinality(Items) /\ SubItems = 1 .. Cardinality(SubItems)
  BY Zenon, ItemsAssumption
<1>3. Cardinality(Items) \in Nat /\ Cardinality(SubItems) \in Nat
  BY Zenon, <1>1, FS_CardinalityType
<1>4. CASE f = 0
  <2>1. ItemsOf(f) = Items BY Zenon, <1>4 DEF ItemsOf
  <2> QED BY Zenon, <2>1, <1>1, <1>2, <1>3
<1>5. CASE f # 0
  <2>1. ItemsOf(f) = SubItems BY Zenon, <1>5 DEF ItemsOf
  <2> QED BY Zenon, <2>1, <1>1, <1>2, <1>3
<1> QED BY Zenon, <1>4, <1>5

\* The slot holders are finitely many.
LEMMA HoldersFinite == IsFiniteSet(SlotHolders) /\ Cardinality(SlotHolders) \in Nat
<1>1. IsFiniteSet(Items) /\ IsFiniteSet(SubItems)
  BY Zenon, ItemsAssumption
<1>2. IsFiniteSet({0})
  BY Zenon, FS_Singleton
<1>3. IsFiniteSet(Fans) /\ IsFiniteSet(Items \cup SubItems)
  BY Zenon, <1>1, <1>2, FS_Union DEF Fans
<1>4. IsFiniteSet(Fans \X (Items \cup SubItems))
  BY Zenon, <1>3, FS_Product
<1>5. SlotHolders \subseteq Fans \X (Items \cup SubItems)
  BY Zenon DEF SlotHolders
<1>6. IsFiniteSet(SlotHolders)
  BY Zenon, <1>4, <1>5, FS_Subset
<1> QED BY Zenon, <1>6, FS_CardinalityType

\* Who holds a slot.
LEMMA HolderIs ==
    ASSUME NEW f \in Fans, NEW i \in ItemsOf(f)
    PROVE  <<f, i>> \in SlotHolders <=> ~Sequential(f) /\ unit[f][i] = "running"
<1>1. <<f, i>> \in Fans \X (Items \cup SubItems)
  BY Zenon, ItemNumbers
<1> QED BY Zenon, <1>1 DEF SlotHolders

\* Holders are pairs of a fan-out and one of its items.
LEMMA HolderShape ==
    ASSUME NEW u \in SlotHolders
    PROVE  \E f \in Fans : \E i \in ItemsOf(f) : u = <<f, i>>
<1>1. u \in Fans \X (Items \cup SubItems) /\ u[2] \in ItemsOf(u[1])
  BY Zenon DEF SlotHolders
<1>2. PICK f \in Fans, i \in Items \cup SubItems : u = <<f, i>>
  BY <1>1
<1>3. u[1] = f /\ u[2] = i
  BY Zenon, <1>2
<1> QED BY Zenon, <1>1, <1>2, <1>3

\* A step that changes one item: the others stay.
LEMMA OneItem ==
    ASSUME FanTypes, NEW f \in Fans, NEW i \in ItemsOf(f), NEW v \in UnitStates,
           unit' = [unit EXCEPT ![f][i] = v]
    PROVE  /\ DOMAIN unit' = Fans /\ \A g \in Fans : unit'[g] \in [ItemsOf(g) -> UnitStates]
           /\ unit'[f][i] = v
           /\ \A j \in ItemsOf(f) : j # i => unit'[f][j] = unit[f][j]
           /\ \A g \in Fans : g # f => unit'[g] = unit[g]
<1>1. DOMAIN unit = Fans /\ unit[f] \in [ItemsOf(f) -> UnitStates]
  BY Zenon DEF FanTypes
<1>2. unit' = [unit EXCEPT ![f] = [unit[f] EXCEPT ![i] = v]]
  BY Zenon
<1>3. DOMAIN unit' = Fans /\ unit'[f] = [unit[f] EXCEPT ![i] = v] /\ \A g \in Fans : g # f => unit'[g] = unit[g]
  BY Zenon, <1>1, <1>2
<1>4. /\ unit'[f] \in [ItemsOf(f) -> UnitStates] /\ unit'[f][i] = v
      /\ \A j \in ItemsOf(f) : j # i => unit'[f][j] = unit[f][j]
  BY Zenon, <1>1, <1>3
<1>5. ASSUME NEW g \in Fans PROVE unit'[g] \in [ItemsOf(g) -> UnitStates]
  <2>1. CASE g = f BY Zenon, <2>1, <1>4
  <2>2. CASE g # f BY Zenon, <2>2, <1>3 DEF FanTypes
  <2> QED BY Zenon, <2>1, <2>2
<1> QED BY Zenon, <1>3, <1>4, <1>5

\* The configuration of a fan-out does not change.
LEMMA SameConfig ==
    ASSUME UNCHANGED shape, NEW f \in Fans
    PROVE  /\ Sequential(f)' = Sequential(f) /\ Config(f)' = Config(f) /\ Stops(f)' = Stops(f)
           /\ Nests(f)' = Nests(f)
BY Zenon DEF Sequential, Config, Stops, Nests

\* A fan-out no component of which changes stays good.
LEMMA Untouched ==
    ASSUME FanInv, UNCHANGED shape, NEW g \in Fans,
           unit'[g] = unit[g], next'[g] = next[g], queue'[g] = queue[g], result'[g] = result[g]
    PROVE  FanGood(g)'
<1>1. FanGood(g)
  BY Zenon DEF FanInv
<1>2. Produced(g)' /\ Queued(g)' /\ WaitForSlot(g)'
  BY <1>1, SameConfig DEF FanGood, Produced, Queued, InQueue, WaitForSlot
<1>3. Collected(g)' <=> Collected(g)
  BY Zenon, SameConfig DEF Collected, Busy, InState, StoppedEarly
<1>4. Ended(g)'
  BY Zenon, <1>1, <1>3 DEF FanGood, Ended
<1> QED BY Zenon, <1>2, <1>4 DEF FanGood

\* A step of one fan-out leaves the others good.
LEMMA OnlyOne ==
    ASSUME FanInv, UNCHANGED shape, NEW f \in Fans, FanGood(f)',
           \A g \in Fans : g # f => /\ unit'[g] = unit[g] /\ next'[g] = next[g]
                                    /\ queue'[g] = queue[g] /\ result'[g] = result[g]
    PROVE  \A g \in Fans : FanGood(g)'
<1> SUFFICES ASSUME NEW g \in Fans PROVE FanGood(g)' BY ZenonT(40)
<1>1. CASE g = f BY Zenon, <1>1
<1>2. CASE g # f BY Zenon, <1>2, Untouched
<1> QED BY ZenonT(40), <1>1, <1>2

\* No worker takes or gives back a slot.
LEMMA SameHolders ==
    ASSUME FanInv, UNCHANGED <<shape, slots>>,
           \A f \in Fans : \A i \in ItemsOf(f) :
               ~Sequential(f) => (unit'[f][i] = "running" <=> unit[f][i] = "running")
    PROVE  SlotsAccounted'
<1>1. ASSUME NEW u \in Fans \X (Items \cup SubItems), u[2] \in ItemsOf(u[1]), ~Sequential(u[1])
      PROVE  unit'[u[1]][u[2]] = "running" <=> unit[u[1]][u[2]] = "running"
  <2>1. u[1] \in Fans BY Zenon
  <2> QED BY Zenon, <1>1, <2>1
<1>2. \A f \in Fans : Sequential(f)' = Sequential(f)
  BY Zenon, SameConfig
<1>3. \A u \in Fans \X (Items \cup SubItems) : u[1] \in Fans
  BY Zenon
<1>4. SlotHolders' = SlotHolders
  BY Zenon, <1>1, <1>2, <1>3 DEF SlotHolders
<1> QED BY Zenon, <1>4 DEF SlotsAccounted, FanInv

\* A step of one item leaves the slots of the others alone.
LEMMA OtherHolders ==
    ASSUME FanInv, UNCHANGED shape, NEW f \in Fans, NEW i \in ItemsOf(f), NEW v \in UnitStates,
           unit' = [unit EXCEPT ![f][i] = v]
    PROVE  \A u \in Fans \X (Items \cup SubItems) : u # <<f, i>> => (u \in SlotHolders' <=> u \in SlotHolders)
<1> SUFFICES ASSUME NEW u \in Fans \X (Items \cup SubItems), u # <<f, i>>
             PROVE  u \in SlotHolders' <=> u \in SlotHolders BY Zenon
<1>1. /\ \A j \in ItemsOf(f) : j # i => unit'[f][j] = unit[f][j]
      /\ \A g \in Fans : g # f => unit'[g] = unit[g]
  BY OneItem DEF FanInv
<1>2. u[1] \in Fans /\ u = <<u[1], u[2]>> OBVIOUS
<1>3. Sequential(u[1])' = Sequential(u[1]) BY Zenon, <1>2, SameConfig
<1>4. ASSUME u[2] \in ItemsOf(u[1]) PROVE unit'[u[1]][u[2]] = unit[u[1]][u[2]]
  <2>1. CASE u[1] = f
    <3>1. u[2] # i BY Zenon, <1>2, <2>1
    <3> QED BY Zenon, <3>1, <2>1, <1>4, <1>1
  <2>2. CASE u[1] # f BY Zenon, <1>2, <2>2, <1>1
  <2> QED BY Zenon, <2>1, <2>2
<1> QED BY Zenon, <1>2, <1>3, <1>4 DEF SlotHolders

\* The slot of one item is taken.
LEMMA HolderAdded ==
    ASSUME FanInv, UNCHANGED shape, NEW f \in Fans, NEW i \in ItemsOf(f), ~Sequential(f),
           unit' = [unit EXCEPT ![f][i] = "running"], unit[f][i] # "running",
           slots < shape.limit, slots' = slots + 1
    PROVE  SlotsAccounted'
<1>1. unit'[f][i] = "running"
  BY Zenon, OneItem DEF FanInv, UnitStates
<1>2. \A g \in Fans : Sequential(g)' = Sequential(g)
  BY Zenon, SameConfig
<1>3. <<f, i>> \in Fans \X (Items \cup SubItems)
  BY Zenon, ItemNumbers
<1>4. SlotHolders' = SlotHolders \cup {<<f, i>>}
  <2>2. \A u \in Fans \X (Items \cup SubItems) : u # <<f, i>> => (u \in SlotHolders' <=> u \in SlotHolders)
    BY Zenon, OtherHolders DEF UnitStates
  <2>3. <<f, i>> \in SlotHolders'
    BY Zenon, <1>1, <1>2, <1>3 DEF SlotHolders
  <2>4. SlotHolders' \subseteq Fans \X (Items \cup SubItems) /\ SlotHolders \subseteq Fans \X (Items \cup SubItems)
    BY Zenon DEF SlotHolders
  <2> QED BY Zenon, <2>2, <2>3, <2>4
<1>5. <<f, i>> \notin SlotHolders
  BY Zenon, HolderIs
<1>6. Cardinality(SlotHolders') = Cardinality(SlotHolders) + 1
  BY Zenon, <1>4, <1>5, HoldersFinite, FS_AddElement
<1>7. slots = Cardinality(SlotHolders) /\ slots \in Int /\ shape.limit \in Nat
  BY Zenon DEF FanInv, FanTypes, SlotsAccounted, ShapeType
<1>8. slots' <= shape'.limit /\ slots' = Cardinality(SlotHolders')
  BY <1>6, <1>7
<1> QED BY Zenon, <1>8 DEF SlotsAccounted

\* The slot of one item is given back.
LEMMA HolderRemoved ==
    ASSUME FanInv, UNCHANGED shape, NEW f \in Fans, NEW i \in ItemsOf(f), ~Sequential(f),
           NEW v \in UnitStates, v # "running",
           unit' = [unit EXCEPT ![f][i] = v], unit[f][i] = "running", slots' = slots - 1
    PROVE  SlotsAccounted'
<1>1. unit'[f][i] = v
  BY Zenon, OneItem DEF FanInv
<1>2. \A g \in Fans : Sequential(g)' = Sequential(g)
  BY Zenon, SameConfig
<1>3. <<f, i>> \in Fans \X (Items \cup SubItems)
  BY Zenon, ItemNumbers
<1>4. SlotHolders' = SlotHolders \ {<<f, i>>}
  <2>2. \A u \in Fans \X (Items \cup SubItems) : u # <<f, i>> => (u \in SlotHolders' <=> u \in SlotHolders)
    BY Zenon, OtherHolders DEF UnitStates
  <2>3. <<f, i>> \notin SlotHolders'
    <3> SUFFICES ASSUME <<f, i>> \in SlotHolders' PROVE FALSE BY Zenon
    <3>1. unit'[<<f, i>>[1]][<<f, i>>[2]] = "running" BY Zenon DEF SlotHolders
    <3> QED BY Zenon, <3>1, <1>1
  <2>4. SlotHolders' \subseteq Fans \X (Items \cup SubItems) /\ SlotHolders \subseteq Fans \X (Items \cup SubItems)
    BY Zenon DEF SlotHolders
  <2> QED BY Zenon, <2>2, <2>3, <2>4
<1>5. <<f, i>> \in SlotHolders
  BY Zenon, HolderIs
<1>6. Cardinality(SlotHolders') = Cardinality(SlotHolders) - 1
  BY Zenon, <1>4, <1>5, HoldersFinite, FS_RemoveElement
<1>7. slots = Cardinality(SlotHolders) /\ slots \in Int /\ slots <= shape.limit /\ shape.limit \in Nat
  BY Zenon DEF FanInv, FanTypes, SlotsAccounted, ShapeType
<1>8. slots' <= shape'.limit /\ slots' = Cardinality(SlotHolders')
  BY <1>6, <1>7
<1> QED BY Zenon, <1>8 DEF SlotsAccounted

\* A fan-out an item of which is at work has not returned.
LEMMA StillRuns ==
    ASSUME FanInv, NEW f \in Fans, NEW i \in ItemsOf(f), unit[f][i] \in {"queued", "waiting", "running"}
    PROVE  result[f] = "none"
<1> SUFFICES ASSUME result[f] # "none" PROVE FALSE BY Zenon
<1>1. Collected(f) /\ Queued(f)
  BY Zenon DEF FanInv, FanGood, Ended
<1>2. CASE unit[f][i] \in {"waiting", "running"}
  <2>1. i \in Busy(f) BY Zenon, <1>2 DEF Busy, InState
  <2> QED BY Zenon, <2>1, <1>1 DEF Collected
<1>3. CASE unit[f][i] = "queued"
  <2>1. InQueue(f, i) BY Zenon, <1>1, <1>3 DEF Queued
  <2>2. Len(queue[f]) = 0 BY <1>1 DEF Collected
  <2> QED BY <2>1, <2>2 DEF InQueue
<1> QED BY Zenon, <1>2, <1>3

\* A worker's step: an item that waited or ran goes on.
LEMMA WorkerGood ==
    ASSUME FanInv, UNCHANGED <<shape, next, queue, result>>, NEW f \in Fans, NEW i \in ItemsOf(f),
           unit[f][i] \in {"waiting", "running"}, NEW v \in {"running", "ok", "failed", "panicked"},
           unit' = [unit EXCEPT ![f][i] = v]
    PROVE  /\ \A g \in Fans : FanGood(g)'
           /\ DOMAIN unit' = Fans /\ \A g \in Fans : unit'[g] \in [ItemsOf(g) -> UnitStates]
<1>1. /\ DOMAIN unit' = Fans /\ \A g \in Fans : unit'[g] \in [ItemsOf(g) -> UnitStates]
      /\ unit'[f][i] = v
      /\ \A j \in ItemsOf(f) : j # i => unit'[f][j] = unit[f][j]
      /\ \A g \in Fans : g # f => unit'[g] = unit[g]
  BY Zenon, OneItem DEF FanInv, UnitStates
<1>2. result[f] = "none"
  BY Zenon, StillRuns
<1>3. Produced(f) /\ Queued(f) /\ WaitForSlot(f)
  BY Zenon DEF FanInv, FanGood
<1>4. \A j \in ItemsOf(f) : /\ unit'[f][j] = "new" <=> unit[f][j] = "new"
                            /\ unit'[f][j] = "queued" <=> unit[f][j] = "queued"
                            /\ unit'[f][j] \in {"queued", "waiting"} => unit[f][j] \in {"queued", "waiting"}
  BY Zenon, <1>1
<1>5. Produced(f)' /\ Queued(f)'
  BY <1>3, <1>4 DEF Produced, Queued, InQueue
<1>6. WaitForSlot(f)'
  BY Zenon, <1>3, <1>4, SameConfig DEF WaitForSlot
<1>7. FanGood(f)'
  BY Zenon, <1>2, <1>5, <1>6 DEF FanGood, Ended
<1>8. \A g \in Fans : FanGood(g)'
  BY Zenon, <1>1, <1>7, OnlyOne
<1> QED BY Zenon, <1>1, <1>8

\* ConcurrencyLimiter.Acquire.
LEMMA AcquireInv ==
    ASSUME FanInv, NEW f \in Fans, NEW i \in ItemsOf(f), Acquire(f, i)
    PROVE  FanInv'
<1>1. /\ \A g \in Fans : FanGood(g)'
      /\ DOMAIN unit' = Fans /\ \A g \in Fans : unit'[g] \in [ItemsOf(g) -> UnitStates]
  BY Zenon, WorkerGood DEF Acquire
<1>2. slots' \in Int
  BY DEF FanInv, FanTypes, Acquire
<1>3. FanTypes'
  BY Zenon, <1>1, <1>2 DEF FanInv, FanTypes, Acquire
<1>4. ~Sequential(f)
  BY Zenon DEF FanInv, FanGood, WaitForSlot, Acquire
<1>5. SlotsAccounted'
  BY Zenon, <1>4, HolderAdded DEF Acquire
<1> QED BY Zenon, <1>1, <1>3, <1>5 DEF FanInv

\* Acquire when the context is done.
LEMMA AcquireCancelledInv ==
    ASSUME FanInv, NEW f \in Fans, NEW i \in ItemsOf(f), AcquireCancelled(f, i)
    PROVE  FanInv'
<1>1. /\ \A g \in Fans : FanGood(g)'
      /\ DOMAIN unit' = Fans /\ \A g \in Fans : unit'[g] \in [ItemsOf(g) -> UnitStates]
  BY Zenon, WorkerGood DEF AcquireCancelled
<1>3. FanTypes'
  BY Zenon, <1>1 DEF FanInv, FanTypes, AcquireCancelled
<1>4. /\ unit'[f][i] = "failed" /\ unit[f][i] = "waiting"
      /\ \A j \in ItemsOf(f) : j # i => unit'[f][j] = unit[f][j]
      /\ \A g \in Fans : g # f => unit'[g] = unit[g]
  BY Zenon, OneItem DEF FanInv, UnitStates, AcquireCancelled
<1>5. \A g \in Fans : \A j \in ItemsOf(g) : unit'[g][j] = "running" <=> unit[g][j] = "running"
  BY Zenon, <1>4
<1>6. SlotsAccounted'
  BY Zenon, <1>5, SameHolders DEF AcquireCancelled
<1> QED BY Zenon, <1>1, <1>3, <1>6 DEF FanInv

\* The end of an item, with or without a slot.
LEMMA EndUnitInv ==
    ASSUME FanInv, NEW f \in Fans, NEW i \in ItemsOf(f), unit[f][i] = "running",
           NEW o \in {"ok", "failed", "panic"}, endUnit(f, i, o)
    PROVE  FanInv'
<1>0. Outcome(f, o) \in {"ok", "failed", "panicked"}
  BY Zenon DEF Outcome
<1>a. PICK v \in {"ok", "failed", "panicked"} : v = Outcome(f, o)
  BY Zenon, <1>0
<1>b. unit' = [unit EXCEPT ![f][i] = v] /\ UNCHANGED <<shape, next, queue, result, cancelled>>
  BY Zenon, <1>a DEF endUnit
<1>1. /\ \A g \in Fans : FanGood(g)'
      /\ DOMAIN unit' = Fans /\ \A g \in Fans : unit'[g] \in [ItemsOf(g) -> UnitStates]
  BY Zenon, <1>b, WorkerGood
<1>2. CASE Sequential(f)
  <2>1. slots' = slots BY Zenon, <1>2 DEF endUnit, Release
  <2>2. /\ \A g \in Fans : g # f => unit'[g] = unit[g]
    BY Zenon, <1>b, OneItem DEF FanInv, UnitStates
  <2>3. \A g \in Fans : \A j \in ItemsOf(g) : ~Sequential(g) => (unit'[g][j] = "running" <=> unit[g][j] = "running")
    BY Zenon, <1>2, <2>2
  <2>4. SlotsAccounted'
    BY Zenon, <2>1, <2>3, <1>b, SameHolders
  <2>5. FanTypes'
    BY Zenon, <1>1, <1>b, <2>1 DEF FanInv, FanTypes
  <2> QED BY Zenon, <1>1, <2>4, <2>5 DEF FanInv
<1>3. CASE ~Sequential(f)
  <2>1. slots' = slots - 1 BY Zenon, <1>3 DEF endUnit, Release
  <2>2. slots' \in Int BY <2>1 DEF FanInv, FanTypes
  <2>3. v \in UnitStates /\ v # "running" BY Zenon DEF UnitStates
  <2>4. SlotsAccounted'
    BY Zenon, <2>1, <2>3, <1>3, <1>b, HolderRemoved
  <2>5. FanTypes'
    BY Zenon, <1>1, <1>b, <2>2 DEF FanInv, FanTypes
  <2> QED BY Zenon, <1>1, <2>4, <2>5 DEF FanInv
<1> QED BY Zenon, <1>2, <1>3

\* The step returns.
LEMMA ReturnInv ==
    ASSUME FanInv, NEW f \in Fans, return(f)
    PROVE  FanInv'
<1>1. /\ Collected(f) /\ UNCHANGED <<shape, unit, next, queue, slots, cancelled>>
  BY Zenon DEF return
<1>a. PICK v \in {"ok", "failed", "panic"} : result' = [result EXCEPT ![f] = v]
  BY ZenonT(40) DEF return
<1>2. result' \in [Fans -> {"none", "ok", "failed", "panic"}] /\ \A g \in Fans : g # f => result'[g] = result[g]
  BY Zenon, <1>a DEF FanInv, FanTypes
<1>3. FanTypes'
  BY Zenon, <1>1, <1>2 DEF FanInv, FanTypes
<1>4. Collected(f)'
  BY ZenonT(40), <1>1, SameConfig DEF Collected, Busy, InState, StoppedEarly
<1>5. Produced(f)' /\ Queued(f)' /\ WaitForSlot(f)'
  <2>1. Produced(f) /\ Queued(f) /\ WaitForSlot(f) BY Zenon DEF FanInv, FanGood
  <2>2. Sequential(f)' = Sequential(f) BY Zenon, <1>1, SameConfig
  <2>3. Produced(f)' BY Zenon, <1>1, <2>1 DEF Produced
  <2>4. Queued(f)' BY Zenon, <1>1, <2>1 DEF Queued, InQueue
  <2>5. WaitForSlot(f)' BY Zenon, <1>1, <2>1, <2>2 DEF WaitForSlot
  <2> QED BY Zenon, <2>3, <2>4, <2>5
<1>6. FanGood(f)'
  BY Zenon, <1>4, <1>5 DEF FanGood, Ended
<1>7. \A g \in Fans : FanGood(g)'
  BY Zenon, <1>1, <1>2, <1>6, OnlyOne
<1>8. SlotsAccounted'
  BY Zenon, <1>1, SameHolders
<1> QED BY Zenon, <1>3, <1>7, <1>8 DEF FanInv

\* The producer moves past an item that does not go into the queue.
LEMMA StartInv ==
    ASSUME FanInv, UNCHANGED <<shape, queue, result, slots>>, NEW f \in Fans, result[f] = "none",
           next[f] \in ItemsOf(f), NEW v \in {"waiting", "running", "dropped"},
           v = "waiting" => ~Sequential(f), v = "running" => Sequential(f),
           unit' = [unit EXCEPT ![f][next[f]] = v], next' = [next EXCEPT ![f] = @ + 1]
    PROVE  FanInv'
<1>0. PICK n \in ItemsOf(f) : n = next[f]
  BY Zenon
<1>1. /\ DOMAIN unit' = Fans /\ \A g \in Fans : unit'[g] \in [ItemsOf(g) -> UnitStates]
      /\ unit'[f][n] = v
      /\ \A j \in ItemsOf(f) : j # n => unit'[f][j] = unit[f][j]
      /\ \A g \in Fans : g # f => unit'[g] = unit[g]
  <2>1. unit' = [unit EXCEPT ![f][n] = v] /\ v \in UnitStates BY Zenon, <1>0 DEF UnitStates
  <2> QED BY ZenonT(40), <2>1, OneItem DEF FanInv
<1>2. next[f] \in Nat \ {0} /\ next'[f] = n + 1 /\ next' \in [Fans -> Nat \ {0}] /\ \A g \in Fans : g # f => next'[g] = next[g]
  <2>1. next \in [Fans -> Nat \ {0}] BY Zenon DEF FanInv, FanTypes
  <2>2. next[f] + 1 \in Nat \ {0} BY <2>1
  <2> QED BY Zenon, <2>1, <2>2, <1>0
<1>3. Produced(f) /\ Queued(f) /\ WaitForSlot(f)
  BY Zenon DEF FanInv, FanGood
<1>4. \A j \in ItemsOf(f) : j \in Int
  BY ItemNumbers
<1>5. unit[f][n] = "new"
  BY <1>0, <1>2, <1>3, <1>4 DEF Produced
<1>6. Produced(f)'
  <2> SUFFICES ASSUME NEW j \in ItemsOf(f) PROVE unit'[f][j] = "new" <=> j >= next'[f] BY Zenon DEF Produced
  <2>1. CASE j = n BY <2>1, <1>1, <1>2, <1>4
  <2>2. CASE j # n
    <3>1. unit[f][j] = "new" <=> j >= n BY Zenon, <1>0, <1>3 DEF Produced
    <3> QED BY <3>1, <2>2, <1>1, <1>2, <1>4
  <2> QED BY Zenon, <2>1, <2>2
<1>7. Queued(f)'
  <2>1. \A j \in ItemsOf(f) : unit'[f][j] = "queued" <=> unit[f][j] = "queued" BY Zenon, <1>1, <1>5
  <2> QED BY Zenon, <2>1, <1>3 DEF Queued, InQueue
<1>8. WaitForSlot(f)'
  <2>1. \A j \in ItemsOf(f) : unit'[f][j] \in {"queued", "waiting"} => ~Sequential(f)
    BY Zenon, <1>1, <1>3 DEF WaitForSlot
  <2> QED BY Zenon, <2>1, SameConfig DEF WaitForSlot
<1>9. FanGood(f)'
  BY Zenon, <1>6, <1>7, <1>8 DEF FanGood, Ended
<1>10. \A g \in Fans : FanGood(g)'
  BY Zenon, <1>1, <1>2, <1>9, OnlyOne
<1>11. FanTypes'
  BY Zenon, <1>1, <1>2 DEF FanInv, FanTypes
<1>12. \A g \in Fans : \A j \in ItemsOf(g) : ~Sequential(g) => (unit'[g][j] = "running" <=> unit[g][j] = "running")
  <2> SUFFICES ASSUME NEW g \in Fans, NEW j \in ItemsOf(g), ~Sequential(g)
               PROVE  unit'[g][j] = "running" <=> unit[g][j] = "running" BY Zenon
  <2>1. CASE g = f /\ j = n BY Zenon, <2>1, <1>1, <1>5
  <2>2. CASE ~(g = f /\ j = n) BY Zenon, <2>2, <1>1
  <2> QED BY Zenon, <2>1, <2>2
<1>13. SlotsAccounted'
  BY Zenon, <1>12, SameHolders
<1> QED BY Zenon, <1>10, <1>11, <1>13 DEF FanInv

\* executeParallelStep starts a goroutine for every sub-step.
LEMMA SpawnAllInv ==
    ASSUME FanInv, NEW f \in Fans, spawnAll(f)
    PROVE  FanInv'
<1>0. /\ result[f] = "none" /\ next[f] = 1 /\ Config(f).kind = "parallel"
      /\ unit' = [unit EXCEPT ![f] = [i \in ItemsOf(f) |-> "waiting"]]
      /\ next' = [next EXCEPT ![f] = Cardinality(ItemsOf(f)) + 1]
      /\ UNCHANGED <<shape, queue, result, slots, cancelled>>
  BY Zenon DEF spawnAll, Active
<1>1. /\ unit'[f] = [i \in ItemsOf(f) |-> "waiting"]
      /\ DOMAIN unit' = Fans /\ \A g \in Fans : g # f => unit'[g] = unit[g]
  BY Zenon, <1>0 DEF FanInv, FanTypes
<1>2. \A g \in Fans : unit'[g] \in [ItemsOf(g) -> UnitStates]
  <2> SUFFICES ASSUME NEW g \in Fans PROVE unit'[g] \in [ItemsOf(g) -> UnitStates] BY Zenon
  <2>1. CASE g = f BY Zenon, <2>1, <1>1 DEF UnitStates
  <2>2. CASE g # f BY Zenon, <2>2, <1>1 DEF FanInv, FanTypes
  <2> QED BY Zenon, <2>1, <2>2
<1>3. PICK c \in Nat : c = Cardinality(ItemsOf(f)) /\ ItemsOf(f) = 1 .. c
  BY Zenon, ItemNumbers
<1>4. next'[f] = c + 1 /\ next' \in [Fans -> Nat \ {0}] /\ \A g \in Fans : g # f => next'[g] = next[g]
  <2>1. next \in [Fans -> Nat \ {0}] BY Zenon DEF FanInv, FanTypes
  <2>2. c + 1 \in Nat \ {0} BY <1>3
  <2> QED BY Zenon, <2>1, <2>2, <1>0, <1>3
<1>5. \A i \in ItemsOf(f) : unit[f][i] = "new"
  <2> SUFFICES ASSUME NEW i \in ItemsOf(f) PROVE unit[f][i] = "new" BY Zenon
  <2>1. i >= next[f]
    <3>1. i \in 1 .. c BY Zenon, <1>3
    <3> QED BY <3>1, <1>0
  <2> QED BY Zenon, <2>1 DEF FanInv, FanGood, Produced
<1>6. ~Sequential(f)
  BY Zenon, <1>0 DEF Sequential
<1>7. Produced(f)'
  <2>1. ASSUME NEW i \in ItemsOf(f) PROVE ~(i >= c + 1)
    <3>1. i \in 1 .. c BY Zenon, <1>3
    <3> QED BY <3>1
  <2> QED BY Zenon, <2>1, <1>1, <1>4 DEF Produced
<1>8. Queued(f)'
  <2>1. Queued(f) BY Zenon DEF FanInv, FanGood
  <2>2. \A i \in ItemsOf(f) : ~InQueue(f, i) BY Zenon, <2>1, <1>5 DEF Queued
  <2>3. \A i \in ItemsOf(f) : ~InQueue(f, i)' BY Zenon, <2>2, <1>0 DEF InQueue
  <2> QED BY Zenon, <2>1, <2>3, <1>0, <1>1 DEF Queued
<1>9. WaitForSlot(f)'
  BY Zenon, <1>0, <1>6, SameConfig DEF WaitForSlot
<1>10. FanGood(f)'
  BY Zenon, <1>0, <1>7, <1>8, <1>9 DEF FanGood, Ended
<1>11. \A g \in Fans : FanGood(g)'
  BY Zenon, <1>0, <1>1, <1>4, <1>10, OnlyOne
<1>12. FanTypes'
  BY Zenon, <1>0, <1>1, <1>2, <1>4 DEF FanInv, FanTypes
<1>13. \A g \in Fans : \A j \in ItemsOf(g) : unit'[g][j] = "running" <=> unit[g][j] = "running"
  BY Zenon, <1>1, <1>5
<1>14. SlotsAccounted'
  BY Zenon, <1>0, <1>13, SameHolders
<1> QED BY Zenon, <1>11, <1>12, <1>14 DEF FanInv

\* backpressurePool.submit puts an item into the queue.
LEMMA SubmitInv ==
    ASSUME FanInv, NEW f \in Fans, submit(f), queue' = [queue EXCEPT ![f] = Append(@, next[f])],
           unit' = [unit EXCEPT ![f][next[f]] = "queued"]
    PROVE  FanInv'
<1>0. /\ result[f] = "none" /\ ~Sequential(f) /\ next' = [next EXCEPT ![f] = @ + 1]
      /\ UNCHANGED <<shape, result, slots, cancelled>> /\ next[f] \in ItemsOf(f)
  BY Zenon DEF submit, Active
<1>n. PICK n \in ItemsOf(f) : n = next[f]
  BY Zenon, <1>0
<1>1. /\ DOMAIN unit' = Fans /\ \A g \in Fans : unit'[g] \in [ItemsOf(g) -> UnitStates]
      /\ unit'[f][n] = "queued"
      /\ \A j \in ItemsOf(f) : j # n => unit'[f][j] = unit[f][j]
      /\ \A g \in Fans : g # f => unit'[g] = unit[g]
  <2>1. unit' = [unit EXCEPT ![f][n] = "queued"] /\ "queued" \in UnitStates BY Zenon, <1>n DEF UnitStates
  <2> QED BY Zenon, <2>1, OneItem DEF FanInv
<1>2. next[f] \in Nat \ {0} /\ next'[f] = n + 1 /\ next' \in [Fans -> Nat \ {0}] /\ \A g \in Fans : g # f => next'[g] = next[g]
  <2>1. next \in [Fans -> Nat \ {0}] BY Zenon DEF FanInv, FanTypes
  <2>2. next[f] + 1 \in Nat \ {0} BY <2>1
  <2> QED BY Zenon, <2>1, <2>2, <1>0, <1>n
<1>3. Produced(f) /\ Queued(f) /\ WaitForSlot(f)
  BY Zenon DEF FanInv, FanGood
<1>4. \A j \in ItemsOf(f) : j \in Int
  BY ItemNumbers
<1>5. unit[f][n] = "new"
  BY <1>n, <1>2, <1>3, <1>4 DEF Produced
<1>6. PICK q \in Seq(ItemsOf(f)) : q = queue[f]
  BY Zenon DEF FanInv, FanTypes
<1>7. DOMAIN queue' = Fans /\ queue'[f] = Append(q, n) /\ \A g \in Fans : g # f => queue'[g] = queue[g]
  <2>1. DOMAIN queue = Fans BY Zenon DEF FanInv, FanTypes
  <2> QED BY Zenon, <2>1, <1>6, <1>n
<1>8. /\ Append(q, n) \in Seq(ItemsOf(f)) /\ Len(Append(q, n)) = Len(q) + 1 /\ Len(q) \in Nat
      /\ Append(q, n)[Len(q) + 1] = n /\ \A k \in 1 .. Len(q) : Append(q, n)[k] = q[k]
  BY AppendProperties
<1>9. PICK m \in Nat : m = Len(q)
  BY Zenon, <1>8
<1>10. /\ queue'[f] \in Seq(ItemsOf(f)) /\ Len(queue'[f]) = m + 1
       /\ queue'[f][m + 1] = n /\ \A k \in 1 .. m : queue'[f][k] = queue[f][k]
  BY Zenon, <1>6, <1>7, <1>8, <1>9
<1>11. /\ \A j \in ItemsOf(f) : unit[f][j] = "queued" <=> \E k \in 1 .. m : queue[f][k] = j
       /\ \A k, l \in 1 .. m : queue[f][k] = queue[f][l] => k = l
  BY Zenon, <1>3, <1>6, <1>9 DEF Queued, InQueue
<1>12. \A k \in 1 .. m : queue[f][k] # n
  BY Zenon, <1>5, <1>11
<1>13. \A k \in 1 .. m + 1 : k \in 1 .. m \/ k = m + 1
  OBVIOUS
<1>14. \A k, l \in 1 .. m + 1 : queue'[f][k] = queue'[f][l] => k = l
  BY <1>10, <1>11, <1>12, <1>13
<1>15. ASSUME NEW j \in ItemsOf(f) PROVE unit'[f][j] = "queued" <=> \E k \in 1 .. m + 1 : queue'[f][k] = j
  <2>1. CASE j = n
    <3>1. m + 1 \in 1 .. m + 1 OBVIOUS
    <3> QED BY Zenon, <3>1, <2>1, <1>1, <1>10
  <2>2. CASE j # n
    <3>1. unit'[f][j] = "queued" <=> \E k \in 1 .. m : queue[f][k] = j BY Zenon, <2>2, <1>1, <1>11
    <3>2. \A k \in 1 .. m : k \in 1 .. m + 1 OBVIOUS
    <3> QED BY Zenon, <3>1, <3>2, <2>2, <1>10, <1>13
  <2> QED BY Zenon, <2>1, <2>2
<1>16. Queued(f)'
  BY Zenon, <1>10, <1>14, <1>15 DEF Queued, InQueue
<1>17. Produced(f)'
  <2> SUFFICES ASSUME NEW j \in ItemsOf(f) PROVE unit'[f][j] = "new" <=> j >= next'[f] BY Zenon DEF Produced
  <2>1. CASE j = n BY <2>1, <1>1, <1>2, <1>4
  <2>2. CASE j # n
    <3>1. unit[f][j] = "new" <=> j >= n BY Zenon, <1>n, <1>3 DEF Produced
    <3> QED BY <3>1, <2>2, <1>1, <1>2, <1>4
  <2> QED BY Zenon, <2>1, <2>2
<1>18. WaitForSlot(f)'
  BY Zenon, <1>0, SameConfig DEF WaitForSlot
<1>19. FanGood(f)'
  BY Zenon, <1>0, <1>16, <1>17, <1>18 DEF FanGood, Ended
<1>20. \A g \in Fans : FanGood(g)'
  BY Zenon, <1>0, <1>1, <1>2, <1>7, <1>19, OnlyOne
<1>21. FanTypes'
  <2>1. \A g \in Fans : queue'[g] \in Seq(ItemsOf(g))
    <3> SUFFICES ASSUME NEW g \in Fans PROVE queue'[g] \in Seq(ItemsOf(g)) BY Zenon
    <3>1. CASE g = f BY Zenon, <3>1, <1>10
    <3>2. CASE g # f BY Zenon, <3>2, <1>7 DEF FanInv, FanTypes
    <3> QED BY Zenon, <3>1, <3>2
  <2> QED BY Zenon, <2>1, <1>0, <1>1, <1>2, <1>7 DEF FanInv, FanTypes
<1>22. \A g \in Fans : \A j \in ItemsOf(g) : unit'[g][j] = "running" <=> unit[g][j] = "running"
  BY <1>1, <1>5
<1>23. SlotsAccounted'
  BY Zenon, <1>0, <1>22, SameHolders
<1> QED BY Zenon, <1>20, <1>21, <1>23 DEF FanInv

\* A worker of a map takes the head of the queue.
LEMMA TakeInv ==
    ASSUME FanInv, NEW f \in Fans, take(f)
    PROVE  FanInv'
<1>0. /\ result[f] = "none" /\ queue[f] # <<>> /\ UNCHANGED <<shape, next, result, slots, cancelled>>
      /\ unit' = [unit EXCEPT ![f][Head(queue[f])] = "waiting"]
      /\ queue' = [queue EXCEPT ![f] = Tail(@)]
  BY Zenon DEF take, Active
<1>1. PICK q \in Seq(ItemsOf(f)) : q = queue[f] /\ q # <<>>
  BY Zenon, <1>0 DEF FanInv, FanTypes
<1>2. /\ Head(q) \in ItemsOf(f) /\ Tail(q) \in Seq(ItemsOf(f)) /\ Len(Tail(q)) = Len(q) - 1
      /\ Len(q) \in Nat /\ Len(q) > 0 /\ Head(q) = q[1]
      /\ \A k \in 1 .. Len(q) - 1 : Tail(q)[k] = q[k + 1]
  BY <1>1, EmptySeq, HeadTailProperties
<1>3. PICK n \in ItemsOf(f) : n = Head(q)
  BY Zenon, <1>2
<1>4. PICK m \in Nat : m = Len(q) - 1
  <2>1. Len(q) \in Nat /\ Len(q) > 0 BY Zenon, <1>2
  <2> QED BY <2>1
<1>5. /\ DOMAIN unit' = Fans /\ \A g \in Fans : unit'[g] \in [ItemsOf(g) -> UnitStates]
      /\ unit'[f][n] = "waiting"
      /\ \A j \in ItemsOf(f) : j # n => unit'[f][j] = unit[f][j]
      /\ \A g \in Fans : g # f => unit'[g] = unit[g]
  <2>1. unit' = [unit EXCEPT ![f][n] = "waiting"] /\ "waiting" \in UnitStates BY Zenon, <1>0, <1>1, <1>3 DEF UnitStates
  <2> QED BY Zenon, <2>1, OneItem DEF FanInv
<1>6. DOMAIN queue' = Fans /\ queue'[f] = Tail(q) /\ \A g \in Fans : g # f => queue'[g] = queue[g]
  <2>1. DOMAIN queue = Fans BY Zenon DEF FanInv, FanTypes
  <2> QED BY Zenon, <2>1, <1>0, <1>1
<1>7. /\ queue'[f] \in Seq(ItemsOf(f)) /\ Len(queue'[f]) = m /\ queue[f][1] = n
      /\ \A k \in 1 .. m : queue'[f][k] = queue[f][k + 1]
  BY Zenon, <1>1, <1>2, <1>3, <1>4, <1>6
<1>8. Produced(f) /\ Queued(f) /\ WaitForSlot(f)
  BY Zenon DEF FanInv, FanGood
<1>9. Len(queue[f]) = m + 1
  BY <1>1, <1>2, <1>4
<1>10. /\ \A j \in ItemsOf(f) : unit[f][j] = "queued" <=> \E k \in 1 .. m + 1 : queue[f][k] = j
       /\ \A k, l \in 1 .. m + 1 : queue[f][k] = queue[f][l] => k = l
  BY Zenon, <1>8, <1>9 DEF Queued, InQueue
<1>11. unit[f][n] = "queued"
  <2>1. 1 \in 1 .. m + 1 OBVIOUS
  <2> QED BY Zenon, <2>1, <1>7, <1>10
<1>12. ~Sequential(f)
  BY Zenon, <1>8, <1>11 DEF WaitForSlot
<1>13. \A k, l \in 1 .. m : queue'[f][k] = queue'[f][l] => k = l
  <2> SUFFICES ASSUME NEW k \in 1 .. m, NEW l \in 1 .. m, queue'[f][k] = queue'[f][l] PROVE k = l BY Zenon
  <2>1. k + 1 \in 1 .. m + 1 /\ l + 1 \in 1 .. m + 1 OBVIOUS
  <2>2. k + 1 = l + 1 BY <2>1, <1>7, <1>10
  <2> QED BY <2>2
<1>14. ASSUME NEW j \in ItemsOf(f) PROVE unit'[f][j] = "queued" <=> \E k \in 1 .. m : queue'[f][k] = j
  <2>1. ASSUME NEW k \in 1 .. m, queue'[f][k] = j PROVE j # n /\ \E l \in 1 .. m + 1 : queue[f][l] = j
    <3>1. k + 1 \in 1 .. m + 1 /\ 1 \in 1 .. m + 1 /\ k + 1 # 1 OBVIOUS
    <3> QED BY Zenon, <3>1, <2>1, <1>7, <1>10
  <2>2. ASSUME NEW l \in 1 .. m + 1, queue[f][l] = j, j # n PROVE \E k \in 1 .. m : queue'[f][k] = j
    <3>1. l # 1 BY Zenon, <2>2, <1>7
    <3>2. l - 1 \in 1 .. m /\ (l - 1) + 1 = l BY <3>1
    <3>3. queue'[f][l - 1] = j BY Zenon, <3>2, <2>2, <1>7
    <3> QED BY Zenon, <3>2, <3>3
  <2>3. CASE j = n BY Zenon, <2>3, <2>1, <1>5
  <2>4. CASE j # n BY Zenon, <2>4, <2>1, <2>2, <1>5, <1>10
  <2> QED BY Zenon, <2>3, <2>4
<1>15. Queued(f)'
  BY Zenon, <1>7, <1>13, <1>14 DEF Queued, InQueue
<1>16. Produced(f)'
  BY Zenon, <1>0, <1>5, <1>8, <1>11 DEF Produced
<1>17. WaitForSlot(f)'
  BY Zenon, <1>0, <1>12, SameConfig DEF WaitForSlot
<1>18. FanGood(f)'
  BY Zenon, <1>0, <1>15, <1>16, <1>17 DEF FanGood, Ended
<1>19. \A g \in Fans : FanGood(g)'
  BY Zenon, <1>0, <1>5, <1>6, <1>18, OnlyOne
<1>20. FanTypes'
  <2>1. \A g \in Fans : queue'[g] \in Seq(ItemsOf(g))
    <3> SUFFICES ASSUME NEW g \in Fans PROVE queue'[g] \in Seq(ItemsOf(g)) BY Zenon
    <3>1. CASE g = f BY Zenon, <3>1, <1>7
    <3>2. CASE g # f BY ZenonT(40), <3>2, <1>6 DEF FanInv, FanTypes
    <3> QED BY Zenon, <3>1, <3>2
  <2> QED BY Zenon, <2>1, <1>0, <1>5, <1>6 DEF FanInv, FanTypes
<1>21. \A g \in Fans : \A j \in ItemsOf(g) : unit'[g][j] = "running" <=> unit[g][j] = "running"
  BY Zenon, <1>5, <1>11
<1>22. SlotsAccounted'
  BY Zenon, <1>0, <1>21, SameHolders
<1> QED BY Zenon, <1>19, <1>20, <1>22 DEF FanInv

\* The initial states.
LEMMA FanInitial == FanInit => FanInv
<1> SUFFICES ASSUME FanInit PROVE FanInv BY Zenon
<1>1. FanTypes
  <2>1. \A f \in Fans : queue[f] = <<>> /\ queue[f] \in Seq(ItemsOf(f)) BY Zenon, EmptySeq DEF FanInit
  <2>2. shape \in ShapeType BY Zenon, ItemsAssumption DEF FanInit
  <2>3. \A f \in Fans : unit[f] \in [ItemsOf(f) -> UnitStates] BY Zenon DEF FanInit, UnitStates
  <2> QED BY <2>1, <2>2, <2>3 DEF FanInit, FanTypes
<1>2. ASSUME NEW f \in Fans PROVE FanGood(f)
  <2>1. \A i \in ItemsOf(f) : unit[f][i] = "new" BY Zenon DEF FanInit
  <2>2. next[f] = 1 /\ queue[f] = <<>> /\ result[f] = "none" BY Zenon DEF FanInit
  <2>3. ASSUME NEW i \in ItemsOf(f) PROVE i >= 1
    <3>1. i \in 1 .. Cardinality(ItemsOf(f)) /\ Cardinality(ItemsOf(f)) \in Nat BY Zenon, ItemNumbers
    <3> QED BY <3>1
  <2>4. Produced(f) BY Zenon, <2>1, <2>2, <2>3 DEF Produced
  <2>5. Len(queue[f]) = 0 BY <2>2
  <2>6. Queued(f) BY <2>1, <2>5 DEF Queued, InQueue
  <2>7. WaitForSlot(f) BY Zenon, <2>1 DEF WaitForSlot
  <2> QED BY Zenon, <2>2, <2>4, <2>6, <2>7 DEF FanGood, Ended
<1>3. SlotsAccounted
  <2>1. ASSUME NEW u \in SlotHolders PROVE FALSE
    <3>1. PICK f \in Fans : \E j \in ItemsOf(f) : u = <<f, j>> BY Zenon, HolderShape
    <3>2. PICK i \in ItemsOf(f) : u = <<f, i>> BY Zenon, <3>1
    <3>3. unit[f][i] = "running" BY Zenon, <3>2, HolderIs
    <3> QED BY Zenon, <3>3 DEF FanInit
  <2>2. SlotHolders = {} BY Zenon, <2>1
  <2>3. Cardinality(SlotHolders) = 0 BY Zenon, <2>2, FS_EmptySet
  <2>4. slots = 0 /\ shape \in ShapeType BY Zenon, <1>1 DEF FanInit, FanTypes
  <2>5. slots <= shape.limit BY <2>4 DEF ShapeType
  <2> QED BY Zenon, <2>3, <2>4, <2>5 DEF SlotsAccounted
<1> QED BY Zenon, <1>1, <1>2, <1>3 DEF FanInv

\* Every step of a fan-out keeps the invariant.
LEMMA FanStepInv ==
    ASSUME FanInv, [FanNext]_fanVars
    PROVE  FanInv'
<1>1. ASSUME NEW f \in Fans, FanStep(f) PROVE FanInv'
  <2>1. CASE spawnAll(f) BY Zenon, <2>1, SpawnAllInv
  <2>2. CASE spawnNext(f)
    BY Zenon, <2>2, StartInv DEF spawnNext, Active
  <2>3. CASE submit(f)
    <3>1. CASE queue' = [queue EXCEPT ![f] = Append(@, next[f])] /\ unit' = [unit EXCEPT ![f][next[f]] = "queued"]
      BY Zenon, <2>3, <3>1, SubmitInv
    <3>2. CASE unit' = [unit EXCEPT ![f][next[f]] = "dropped"] /\ UNCHANGED queue
      BY Zenon, <2>3, <3>2, StartInv DEF submit, Active
    <3> QED BY Zenon, <2>3, <3>1, <3>2 DEF submit
  <2>4. CASE take(f) BY Zenon, <2>4, TakeInv
  <2>5. CASE runInLine(f)
    BY Zenon, <2>5, StartInv DEF runInLine, Active
  <2>6. CASE return(f) BY Zenon, <2>6, ReturnInv
  <2>7. ASSUME NEW i \in ItemsOf(f), Acquire(f, i) \/ AcquireCancelled(f, i) \/ execute(f, i) PROVE FanInv'
    <3>1. CASE Acquire(f, i) BY Zenon, <3>1, AcquireInv
    <3>2. CASE AcquireCancelled(f, i) BY Zenon, <3>2, AcquireCancelledInv
    <3>3. CASE execute(f, i)
      <4>1. unit[f][i] = "running" BY Zenon, <3>3 DEF execute
      <4>2. PICK o \in executeWithRetry(f) : endUnit(f, i, o) BY Zenon, <3>3 DEF execute
      <4>3. o \in {"ok", "failed", "panic"} BY Zenon DEF executeWithRetry, Panics
      <4> QED BY Zenon, <4>1, <4>2, <4>3, EndUnitInv
    <3> QED BY Zenon, <2>7, <3>1, <3>2, <3>3
  <2> QED BY Zenon, <1>1, <2>1, <2>2, <2>3, <2>4, <2>5, <2>6, <2>7 DEF FanStep
<1>2. ASSUME NEW i \in Items, subStepReturns(i) PROVE FanInv'
  <2>1. 0 \in Fans /\ i \in ItemsOf(0) /\ i \in Fans BY Zenon DEF Fans, ItemsOf
  <2>2. result[i] \in {"ok", "failed", "panic"} BY Zenon, <1>2, <2>1 DEF subStepReturns, FanInv, FanTypes
  <2>3. unit[0][i] = "running" /\ endUnit(0, i, result[i]) BY Zenon, <1>2 DEF subStepReturns
  <2> QED BY Zenon, <2>1, <2>2, <2>3, EndUnitInv
<1>3. CASE UNCHANGED <<shape, unit, next, queue, result, slots>>
  <2>1. \A g \in Fans : FanGood(g)' BY Zenon, <1>3, Untouched
  <2>2. FanTypes' BY Zenon, <1>3 DEF FanInv, FanTypes
  <2>3. SlotsAccounted' BY Zenon, <1>3, SameHolders
  <2> QED BY Zenon, <2>1, <2>2, <2>3 DEF FanInv
<1>4. CASE Cancel \/ FanReturned \/ UNCHANGED fanVars
  <2>1. UNCHANGED <<shape, unit, next, queue, result, slots>> BY Zenon, <1>4 DEF Cancel, FanReturned, fanVars
  <2> QED BY Zenon, <2>1, <1>3
<1> QED BY Zenon, <1>1, <1>2, <1>4 DEF FanNext, FanProgress

\* What the invariant says of a step that has returned.
LEMMA ReturnedClean ==
    ASSUME FanInv
    PROVE  NothingLeftBehind
<1> SUFFICES ASSUME NEW f \in Fans, result[f] # "none"
             PROVE  /\ InState(f, {"queued", "waiting", "running"}) = {}
                    /\ InState(f, {"new"}) # {} => StoppedEarly(f)
                    /\ f = 0 => \A g \in Items : ~Active(g)
  BY Zenon DEF NothingLeftBehind
<1>1. InState(f, {"queued", "waiting", "running"}) = {}
  BY Zenon, StillRuns DEF InState
<1>2. ASSUME InState(f, {"new"}) # {} PROVE StoppedEarly(f)
  <2>1. PICK i \in ItemsOf(f) : unit[f][i] = "new" BY Zenon, <1>2 DEF InState
  <2>2. i >= next[f] BY Zenon, <2>1 DEF FanInv, FanGood, Produced
  <2>3. i \in 1 .. Cardinality(ItemsOf(f)) /\ Cardinality(ItemsOf(f)) \in Nat BY Zenon, ItemNumbers
  <2>4. next[f] \in Nat BY Zenon DEF FanInv, FanTypes
  <2>5. ~(next[f] > Cardinality(ItemsOf(f))) BY <2>2, <2>3, <2>4
  <2>6. Collected(f) BY Zenon DEF FanInv, FanGood, Ended
  <2> QED BY Zenon, <2>5, <2>6 DEF Collected
<1>3. ASSUME f = 0, NEW g \in Items PROVE ~Active(g)
  <2>1. g # 0
    <3>1. Items = 1 .. Cardinality(Items) BY Zenon, ItemsAssumption
    <3>2. IsFiniteSet(Items) BY Zenon, ItemsAssumption
    <3>3. Cardinality(Items) \in Nat BY Zenon, <3>2, FS_CardinalityType
    <3> QED BY <3>1, <3>3
  <2>2. g \in ItemsOf(0) BY Zenon DEF ItemsOf
  <2>3. unit[0][g] # "running" BY Zenon, <1>1, <1>3, <2>2 DEF InState
  <2> QED BY Zenon, <2>1, <2>3 DEF Active
<1> QED BY Zenon, <1>1, <1>2, <1>3

\* However items succeed, fail, panic or are dropped, and however fan-outs nest,
\* the slots in use of the global limiter are those of the items that run now,
\* within its limit (Acquire and Release of parallel, loop and map workers).
THEOREM LimiterNeverLeaks == FanSpec => []SlotsAccounted
<1>1. FanInv => SlotsAccounted
  BY Zenon DEF FanInv
<1> QED BY <1>1, FanInitial, FanStepInv, PTL DEF FanSpec

\* A parallel, loop or map step of any size that has returned has left no item
\* queued, waiting or running and no nested step of it at work.
THEOREM ReturnLeavesNothing == FanSpec => []NothingLeftBehind
BY FanInitial, FanStepInv, ReturnedClean, PTL DEF FanSpec

-----------------------------------------------------------------------------
(* The search for cycles                                                   *)

\* The steps on the stack of dfs.
OnPath == {path[i] : i \in 1 .. Len(path)}

\* The stack is the gray steps, each once; black steps wait only for black
\* ones; of a step on the stack, only the next one on it is neither black nor
\* left to examine; and the black steps form an acyclic graph.
DFSInv ==
    /\ \A s \in Steps : s \in OnPath <=> color[s] = "gray"
    /\ \A i, j \in 1 .. Len(path) : path[i] = path[j] => i = j
    /\ \A s \in Black : deps[s] \subseteq Black
    /\ \A i \in 1 .. Len(path) :
           \A d \in deps[path[i]] \ left[path[i]] :
               d \in Black \/ (i < Len(path) /\ d = path[i + 1])
    /\ \A S \in (SUBSET Black) \ {{}} : \E s \in S : deps[s] \cap S = {}

\* A step outside the batches counts its dependencies outside them.
TopoInv ==
    /\ Acyclic
    /\ \A s \in Scheduled : inDegree[s] < 0
    /\ \A s \in Steps \ Scheduled : inDegree[s] = Cardinality(deps[s] \ Scheduled)
    /\ processed = Cardinality(Scheduled)

\* The inductive invariant of the graph construction, by its phases.
GraphInv ==
    /\ TypeOK
    /\ phase = "build" => /\ path = <<>> /\ color = [s \in Steps |-> "white"]
    /\ phase \in {"build", "dfs"} => batches = <<>> /\ processed = 0
    /\ phase = "dfs" => DFSInv
    /\ phase \in {"topo", "done"} => TopoInv
    /\ phase # "stalled"

-----------------------------------------------------------------------------

\* Sets of steps are finite.
LEMMA SubsetFinite ==
    ASSUME NEW S \in SUBSET Steps
    PROVE  IsFiniteSet(S) /\ Cardinality(S) \in Nat /\ Cardinality(S) <= N
<1>1. IsFiniteSet(Steps) /\ Cardinality(Steps) = N
    BY GraphAssumption, FS_Interval DEF Steps
<1> QED BY Zenon, <1>1, FS_Subset, FS_CardinalityType

\* A resolved reference is a step or NotFound.
LEMMA ResolvedType ==
    ASSUME NEW w \in Workflows, NEW s \in Steps
    PROVE  Resolved(w, s) \subseteq Steps \cup {NotFound}
<1> SUFFICES ASSUME NEW ref \in w.dependsOn[s]
             PROVE  ResolveStepRef(w, ref) \in Steps \cup {NotFound}
    BY Zenon DEF Resolved
<1>1. CASE NameToIdx(w, ref) # {}
    <2>1. (CHOOSE t \in NameToIdx(w, ref) : TRUE) \in NameToIdx(w, ref)
        BY Zenon, <1>1
    <2> QED BY Zenon, <1>1, <2>1 DEF ResolveStepRef, NameToIdx
<1>2. CASE NameToIdx(w, ref) = {}
    BY Zenon, <1>2 DEF ResolveStepRef
<1> QED BY Zenon, <1>1, <1>2

\* Pushing a white step on the stack.
LEMMA PushPath ==
    ASSUME TypeOK, NEW d \in Steps, path' = Append(path, d)
    PROVE  /\ path' \in Seq(Steps) /\ Len(path) \in Nat
           /\ Len(path') = Len(path) + 1
           /\ \A i \in 1 .. Len(path) : path'[i] = path[i] /\ path[i] \in Steps
           /\ path'[Len(path) + 1] = d
           /\ OnPath' = OnPath \cup {d}
<1>1. path \in Seq(Steps) /\ Len(path) \in Nat
    BY Zenon, LenProperties DEF TypeOK
<1>2. /\ path' \in Seq(Steps) /\ Len(path') = Len(path) + 1
      /\ \A i \in 1 .. Len(path) : path'[i] = path[i]
      /\ path'[Len(path) + 1] = d
    BY <1>1, AppendProperties
<1>3. \A i \in 1 .. Len(path) : path[i] \in Steps
    BY Zenon, <1>1, ElementOfSeq
<1>4. OnPath' = OnPath \cup {d}
    BY <1>1, <1>2 DEF OnPath
<1> QED BY Zenon, <1>1, <1>2, <1>3, <1>4

\* The top of a stack that is not empty.
LEMMA TopOfPath ==
    ASSUME TypeOK, path # <<>>
    PROVE  /\ Len(path) \in Nat \ {0} /\ Len(path) \in 1 .. Len(path)
           /\ Top \in Steps /\ Top \in OnPath
           /\ \A i \in 1 .. Len(path) : path[i] \in Steps
<1>1. path \in Seq(Steps) /\ Len(path) \in Nat /\ Len(path) # 0
    BY Zenon, LenProperties, EmptySeq DEF TypeOK
<1>2. \A i \in 1 .. Len(path) : path[i] \in Steps
    BY Zenon, <1>1, ElementOfSeq
<1> QED BY <1>1, <1>2 DEF Top, OnPath

-----------------------------------------------------------------------------
(* The depth-first search *)

\* An empty stack and no colours: the search invariant at its start.
LEMMA DFSStart ==
    ASSUME path = <<>>, color = [s \in Steps |-> "white"]
    PROVE  DFSInv
<1>1. OnPath = {} /\ Black = {} /\ Len(path) = 0
    BY DEF OnPath, Black
<1> QED BY <1>1 DEF DFSInv

\* A new root.
LEMMA DFSRoot == TypeOK /\ DFSInv /\ VisitRoot => DFSInv'
<1> SUFFICES ASSUME TypeOK, DFSInv, VisitRoot PROVE DFSInv'
    BY Zenon
<1>1. PICK s \in White : Visit(s)
    BY Zenon DEF VisitRoot
<1>2. s \in Steps /\ color[s] = "white" /\ path = <<>> /\ deps' = deps
    BY Zenon DEF White, VisitRoot
<1>3. /\ path' = Append(path, s) /\ left'[s] = deps[s]
      /\ color'[s] = "gray" /\ \A t \in Steps : t # s => color'[t] = color[t]
    BY Zenon, <1>1, <1>2 DEF Visit, TypeOK
<1>4. /\ Len(path') = 1 /\ path'[1] = s /\ OnPath' = {s} /\ OnPath = {}
    BY <1>2, <1>3, PushPath DEF OnPath
<1>5. Black' = Black
    BY Zenon, <1>2, <1>3 DEF Black
<1>6. \A t \in Steps : t \in OnPath' <=> color'[t] = "gray"
    BY Zenon, <1>3, <1>4 DEF DFSInv
<1>7. \A i, j \in 1 .. Len(path') : path'[i] = path'[j] => i = j
    BY <1>4
<1>8. \A i \in 1 .. Len(path') : deps'[path'[i]] \ left'[path'[i]] = {}
    BY <1>2, <1>3, <1>4
<1> QED BY Zenon, <1>2, <1>5, <1>6, <1>7, <1>8 DEF DFSInv

\* A white dependency is pushed.
LEMMA DFSWhite ==
    ASSUME TypeOK, DFSInv, path # <<>>, NEW d \in left[Top], ExamineWhite(d)
    PROVE  DFSInv'
<1> DEFINE n == Len(path)
<1>1. /\ n \in Nat \ {0} /\ n \in 1 .. n
      /\ Top \in Steps /\ Top \in OnPath /\ Top = path[n]
      /\ \A i \in 1 .. n : path[i] \in Steps
    BY Zenon, TopOfPath DEF Top
<1>2. d \in Steps /\ color[d] = "white"
    BY Zenon, <1>1 DEF TypeOK, ExamineWhite
<1>3. d \notin OnPath /\ d # Top /\ d \notin Black
    BY Zenon, <1>1, <1>2 DEF DFSInv, Black
<1>4. /\ path' = Append(path, d) /\ deps' = deps
      /\ left' = [left EXCEPT ![Top] = @ \ {d}, ![d] = deps[d]]
      /\ color'[d] = "gray" /\ \A t \in Steps : t # d => color'[t] = color[t]
    BY Zenon, <1>2 DEF ExamineWhite, TypeOK
<1>5. /\ left'[d] = deps[d] /\ left'[Top] = left[Top] \ {d}
      /\ \A t \in Steps : t # d /\ t # Top => left'[t] = left[t]
    BY Zenon, <1>1, <1>2, <1>3, <1>4 DEF TypeOK
<1>6. /\ Len(path') = n + 1
      /\ \A i \in 1 .. n : path'[i] = path[i]
      /\ path'[n + 1] = d
      /\ OnPath' = OnPath \cup {d}
    BY Zenon, <1>2, <1>4, PushPath
<1>7. Black' = Black
    BY Zenon, <1>2, <1>4 DEF Black
<1>8. \A i \in 1 .. n : path[i] # d
    BY Zenon, <1>3 DEF OnPath
<1> HIDE DEF n
<1>9. \A t \in Steps : t \in OnPath' <=> color'[t] = "gray"
    BY <1>2, <1>4, <1>6 DEF DFSInv
<1>10. \A i, j \in 1 .. Len(path') : path'[i] = path'[j] => i = j
    <2>1. \A i, j \in 1 .. n : path[i] = path[j] => i = j
        BY Zenon DEF DFSInv, n
    <2>2. \A i \in 1 .. Len(path') : i \in 1 .. n \/ i = n + 1
        BY <1>1, <1>6
    <2> QED BY Zenon, <1>6, <1>8, <2>1, <2>2
<1>11. ASSUME NEW i \in 1 .. Len(path'), NEW e \in deps'[path'[i]] \ left'[path'[i]]
       PROVE  e \in Black' \/ (i < Len(path') /\ e = path'[i + 1])
    <2>1. CASE i = n + 1
        BY Zenon, <1>4, <1>5, <1>6, <1>11, <2>1
    <2>2. CASE i = n
        <3>1. path'[i] = Top /\ i < Len(path')
            BY <1>1, <1>6, <2>2
        <3>2. e \in deps[Top] \ left[Top] \/ e = d
            BY Zenon, <1>4, <1>5, <1>11, <3>1
        <3>3. e \in deps[Top] \ left[Top] => e \in Black
            BY <1>1 DEF DFSInv, n
        <3> QED BY Zenon, <1>6, <1>7, <2>2, <3>1, <3>2, <3>3
    <2>3. CASE i \in 1 .. n /\ i # n
        <3>1. path'[i] = path[i] /\ path[i] # Top /\ path[i] # d /\ path[i] \in Steps
            BY Zenon, <1>1, <1>6, <1>8, <2>3 DEF DFSInv, n
        <3>2. i + 1 \in 1 .. n /\ i < n /\ i < Len(path')
            BY <1>1, <1>6, <2>3
        <3>3. e \in deps[path[i]] \ left[path[i]]
            BY Zenon, <1>4, <1>5, <1>11, <3>1
        <3>4. e \in Black \/ e = path[i + 1]
            BY Zenon, <2>3, <3>3 DEF DFSInv, n
        <3> QED BY Zenon, <1>6, <1>7, <3>2, <3>4
    <2>4. i \in 1 .. n \/ i = n + 1
        BY <1>1, <1>6
    <2> QED BY Zenon, <2>1, <2>2, <2>3, <2>4
<1> QED BY Zenon, <1>4, <1>7, <1>9, <1>10, <1>11 DEF DFSInv

\* A black dependency is passed over.
LEMMA DFSBlack ==
    ASSUME TypeOK, DFSInv, path # <<>>, NEW d \in left[Top], ExamineBlack(d)
    PROVE  DFSInv'
<1>1. /\ Top \in Steps /\ \A i \in 1 .. Len(path) : path[i] \in Steps
    BY Zenon, TopOfPath
<1>2. d \in Steps /\ d \in Black
    BY Zenon, <1>1 DEF TypeOK, ExamineBlack, Black
<1>3. /\ UNCHANGED <<path, deps, color>> /\ left'[Top] = left[Top] \ {d}
      /\ \A t \in Steps : t # Top => left'[t] = left[t]
    BY Zenon, <1>1 DEF ExamineBlack, TypeOK
<1>4. OnPath' = OnPath /\ Black' = Black
    BY Zenon, <1>3 DEF OnPath, Black
<1>5. \A t \in Steps : \A e \in deps[t] \ left'[t] : e \in deps[t] \ left[t] \/ e = d
    BY Zenon, <1>3
<1> QED BY <1>1, <1>2, <1>3, <1>4, <1>5 DEF DFSInv

\* The step on top of the stack turns black.
LEMMA DFSFinish == TypeOK /\ DFSInv /\ Finish => DFSInv'
<1> SUFFICES ASSUME TypeOK, DFSInv, Finish PROVE DFSInv'
    BY Zenon
<1> DEFINE n == Len(path)
<1>1. /\ n \in Nat \ {0} /\ n \in 1 .. n
      /\ Top \in Steps /\ Top \in OnPath /\ Top = path[n]
      /\ path \in Seq(Steps)
    BY Zenon, TopOfPath DEF Top, Finish, TypeOK
<1>2. /\ path' = SubSeq(path, 1, n - 1) /\ UNCHANGED <<deps, left>> /\ left[Top] = {}
      /\ color'[Top] = "black" /\ \A t \in Steps : t # Top => color'[t] = color[t]
    BY Zenon, <1>1 DEF Finish, TypeOK
<1>3. Len(path') = n - 1 /\ \A i \in 1 .. n - 1 : path'[i] = path[i]
    <2>1. PICK k \in Nat : k = n - 1
        BY <1>1
    <2>2. \A i \in 1 .. k : path[i] \in Steps
        BY <1>1, <2>1, ElementOfSeq
    <2>3. /\ Len(SubSeq(path, 1, k)) = IF 1 <= k THEN k - 1 + 1 ELSE 0
          /\ \A i \in 1 .. k - 1 + 1 : SubSeq(path, 1, k)[i] = path[1 + i - 1]
        BY <2>2, SubSeqProperties
    <2>4. k - 1 + 1 = k /\ (IF 1 <= k THEN k - 1 + 1 ELSE 0) = k /\ \A i \in 1 .. k : 1 + i - 1 = i
        OBVIOUS
    <2>5. Len(SubSeq(path, 1, k)) = k /\ \A i \in 1 .. k : SubSeq(path, 1, k)[i] = path[i]
        BY Zenon, <2>3, <2>4
    <2> QED BY Zenon, <1>2, <2>1, <2>5
<1>4. color[Top] = "gray" /\ Black' = Black \cup {Top} /\ Top \notin Black
    BY <1>1, <1>2 DEF DFSInv, Black
<1>5. deps[Top] \subseteq Black
    BY <1>1, <1>2 DEF DFSInv
<1>6. \A i \in 1 .. n - 1 : path[i] # Top /\ i \in 1 .. n /\ i + 1 \in 1 .. n
    <2>1. \A i \in 1 .. n - 1 : i \in 1 .. n /\ i # n /\ i + 1 \in 1 .. n
        BY <1>1
    <2> QED BY Zenon, <1>1, <2>1 DEF DFSInv
<1>7. OnPath' = OnPath \ {Top}
    <2>1. 1 .. n = (1 .. n - 1) \cup {n}
        BY <1>1
    <2> QED BY Zenon, <1>1, <1>3, <1>6, <2>1 DEF OnPath
<1> HIDE DEF n
<1>8. \A t \in Steps : t \in OnPath' <=> color'[t] = "gray"
    BY Zenon, <1>2, <1>7 DEF DFSInv
<1>9. \A i, j \in 1 .. Len(path') : path'[i] = path'[j] => i = j
    BY ZenonT(40), <1>3, <1>6 DEF DFSInv, n
<1>10. \A s \in Black' : deps'[s] \subseteq Black'
    BY Zenon, <1>2, <1>4, <1>5 DEF DFSInv
<1>11. ASSUME NEW i \in 1 .. Len(path'), NEW e \in deps'[path'[i]] \ left'[path'[i]]
       PROVE  e \in Black' \/ (i < Len(path') /\ e = path'[i + 1])
    <2>1. i \in 1 .. n - 1 /\ path'[i] = path[i] /\ i \in 1 .. n
        BY Zenon, <1>3, <1>6
    <2>2. e \in Black \/ e = path[i + 1]
        BY Zenon, <1>2, <1>11, <2>1 DEF DFSInv, n
    <2>3. CASE i = n - 1
        BY <1>1, <1>4, <2>2, <2>3
    <2>4. CASE i # n - 1
        <3>1. i < Len(path') /\ path'[i + 1] = path[i + 1]
            BY <1>1, <1>3, <2>1, <2>4
        <3> QED BY Zenon, <1>4, <2>2, <3>1
    <2> QED BY Zenon, <2>3, <2>4
<1>12. ASSUME NEW S \in (SUBSET Black') \ {{}}
       PROVE  \E s \in S : deps'[s] \cap S = {}
    <2>1. CASE S = {Top}
        BY <1>2, <1>4, <1>5, <2>1
    <2>2. CASE S # {Top}
        <3>1. S \ {Top} \in (SUBSET Black) \ {{}}
            BY Zenon, <1>4, <2>2
        <3>2. PICK s \in S \ {Top} : deps[s] \cap (S \ {Top}) = {}
            BY Zenon, <3>1 DEF DFSInv
        <3>3. Top \notin deps[s]
            BY Zenon, <1>4, <3>1, <3>2 DEF DFSInv
        <3> QED BY <1>2, <3>2, <3>3
    <2> QED BY Zenon, <2>1, <2>2
<1> QED BY Zenon, <1>8, <1>9, <1>10, <1>11, <1>12 DEF DFSInv

-----------------------------------------------------------------------------
(* The layering *)

\* A step moves a batch out of what the others wait for.
LEMMA TopoBatch ==
    ASSUME TypeOK, TopoInv, NextBatch, processed < N
    PROVE  TypeOK' /\ TopoInv' /\ phase' = "topo"
<1>1. /\ batches \in Seq(SUBSET Steps) /\ Scheduled \in SUBSET Steps
      /\ \A s \in Steps : deps[s] \in SUBSET Steps /\ inDegree[s] \in Int
    <2>1. batches \in Seq(SUBSET Steps)
        BY Zenon DEF TypeOK
    <2>2. \A b \in 1 .. Len(batches) : batches[b] \in SUBSET Steps
        BY Zenon, <2>1, ElementOfSeq
    <2> QED BY <2>1, <2>2 DEF Scheduled, TypeOK
<1>2. Batch \cap Scheduled = {} /\ Batch \in SUBSET Steps
    BY DEF Batch, Ready, TopoInv
<1>3. Batch # {}
    <2>1. Scheduled # Steps
        <3>1. Cardinality(Steps) = N
            BY GraphAssumption, FS_Interval DEF Steps
        <3> QED BY <3>1, GraphAssumption DEF TopoInv
    <2>2. Steps \ Scheduled \in (SUBSET Steps) \ {{}}
        BY Zenon, <1>1, <2>1
    <2>3. PICK s \in Steps \ Scheduled : deps[s] \cap (Steps \ Scheduled) = {}
        BY Zenon, <2>2 DEF TopoInv, Acyclic
    <2>4. deps[s] \ Scheduled = {}
        BY Zenon, <1>1, <2>3
    <2>5. inDegree[s] = 0
        BY Zenon, <2>3, <2>4, FS_EmptySet DEF TopoInv
    <2> QED BY Zenon, <2>3, <2>5 DEF Batch, Ready
<1>4. /\ phase' = "topo" /\ batches' = Append(batches, Batch)
      /\ processed' = processed + Cardinality(Batch)
      /\ inDegree' = NewDegrees(Batch)
      /\ UNCHANGED <<wf, deps, color, path, left, cycle>>
    BY Zenon, <1>3 DEF NextBatch
<1> DEFINE B == Batch
<1>5. Scheduled' = Scheduled \cup Batch /\ batches' \in Seq(SUBSET Steps)
    <2>1. /\ batches' \in Seq(SUBSET Steps) /\ Len(batches') = Len(batches) + 1
          /\ \A b \in 1 .. Len(batches) : batches'[b] = batches[b]
          /\ batches'[Len(batches) + 1] = Batch /\ Len(batches) \in Nat
        BY <1>1, <1>2, <1>4, AppendProperties, LenProperties
    <2>2. 1 .. Len(batches') = (1 .. Len(batches)) \cup {Len(batches) + 1}
        BY <2>1
    <2>3. {batches'[b] : b \in 1 .. Len(batches')} =
              {batches[b] : b \in 1 .. Len(batches)} \cup {Batch}
        BY <2>1, <2>2
    <2> QED BY Zenon, <2>1, <2>3 DEF Scheduled
<1>6. ASSUME NEW s \in Steps
      PROVE  /\ Cardinality(deps[s] \cap Batch) \in Nat
             /\ s \in Batch =>
                    inDegree'[s] = -1 - Cardinality(deps[s] \cap Batch)
             /\ s \notin Batch =>
                    inDegree'[s] = inDegree[s] - Cardinality(deps[s] \cap Batch)
    <2>1. deps[s] \cap Batch \in SUBSET Steps
        BY Zenon, <1>2
    <2> QED BY Zenon, <1>4, <2>1, SubsetFinite DEF NewDegrees
<1>7. ASSUME NEW s \in Scheduled' PROVE inDegree'[s] < 0
    <2>1. s \in Steps /\ inDegree[s] \in Int
        BY Zenon, <1>1, <1>2, <1>5
    <2>2. s \notin Batch => inDegree[s] < 0
        BY Zenon, <1>5 DEF TopoInv
    <2>3. PICK c \in Nat : /\ s \in Batch => inDegree'[s] = -1 - c
                           /\ s \notin Batch => inDegree'[s] = inDegree[s] - c
        BY Zenon, <1>6, <2>1
    <2>4. CASE s \in Batch
        BY <2>3, <2>4
    <2>5. CASE s \notin Batch
        BY <2>1, <2>2, <2>3, <2>5
    <2> QED BY Zenon, <2>4, <2>5
<1>8. ASSUME NEW s \in Steps \ Scheduled'
      PROVE  inDegree'[s] = Cardinality(deps[s] \ Scheduled')
    <2> DEFINE W == deps[s] \ Scheduled
    <2>1. W \in SUBSET Steps /\ s \notin Batch /\ s \notin Scheduled
        BY Zenon, <1>1, <1>5, <1>8
    <2>2. IsFiniteSet(W)
        BY Zenon, <2>1, SubsetFinite
    <2>3. Cardinality(W \ Batch) = Cardinality(W) - Cardinality(W \cap Batch)
        BY Zenon, <2>2, FS_Difference
    <2>4. W \ Batch = deps[s] \ Scheduled' /\ W \cap Batch = deps[s] \cap Batch
        BY Zenon, <1>2, <1>5
    <2>5. inDegree[s] = Cardinality(W)
        BY Zenon, <2>1 DEF TopoInv
    <2> QED BY Zenon, <1>6, <2>1, <2>3, <2>4, <2>5
<1>9. processed' = Cardinality(Scheduled') /\ processed' \in 0 .. N
    <2>1. IsFiniteSet(Scheduled) /\ IsFiniteSet(Batch)
        BY Zenon, <1>1, <1>2, SubsetFinite
    <2>2. Cardinality(Scheduled \cup Batch) =
              Cardinality(Scheduled) + Cardinality(Batch) - Cardinality(Scheduled \cap Batch)
        BY Zenon, <2>1, FS_Union
    <2>3. Cardinality(Scheduled \cap Batch) = 0
        BY Zenon, <1>2, FS_EmptySet
    <2>4. /\ Cardinality(Scheduled) \in Nat /\ Cardinality(Batch) \in Nat
          /\ Cardinality(Scheduled') \in Nat /\ Cardinality(Scheduled') <= N
        BY Zenon, <1>1, <1>2, <1>5, SubsetFinite
    <2> QED BY <1>4, <1>5, <2>2, <2>3, <2>4, GraphAssumption DEF TopoInv
<1>10. inDegree' \in [Steps -> Int]
    <2>1. inDegree' = [s \in Steps |-> inDegree'[s]]
        BY Zenon, <1>4 DEF NewDegrees
    <2>2. ASSUME NEW s \in Steps PROVE inDegree'[s] \in Int
        <3>1. inDegree[s] \in Int
            BY Zenon, <1>1
        <3>2. PICK c \in Nat : /\ s \in Batch => inDegree'[s] = -1 - c
                               /\ s \notin Batch => inDegree'[s] = inDegree[s] - c
            BY Zenon, <1>6
        <3> QED BY <3>1, <3>2
    <2> QED BY Zenon, <2>1, <2>2
<1>11. TypeOK'
    BY Zenon, <1>4, <1>5, <1>9, <1>10 DEF TypeOK
<1>12. TopoInv'
    BY Zenon, <1>4, <1>7, <1>8, <1>9 DEF TopoInv, Acyclic
<1> QED BY Zenon, <1>4, <1>11, <1>12

-----------------------------------------------------------------------------
(* The theorems *)

\* The invariant holds before the graph is built.
LEMMA GraphInit == Init => GraphInv
<1> SUFFICES ASSUME Init PROVE GraphInv
    BY Zenon
<1>1. TypeOK
    BY GraphAssumption DEF Init, TypeOK
<1> QED BY Zenon, <1>1 DEF Init, GraphInv

\* Every step of buildDepGraph and topoBatches keeps it.
LEMMA GraphNext == GraphInv /\ [Next]_vars => GraphInv'
<1> SUFFICES ASSUME GraphInv, [Next]_vars PROVE GraphInv'
    BY Zenon
<1>1. TypeOK
    BY Zenon DEF GraphInv
<1>2. CASE BuildDepGraph
    <2>1. \/ phase' = "rejected" /\ deps' = deps
          \/ /\ phase' = "dfs" /\ deps' = [s \in Steps |-> Resolved(wf, s)]
             /\ \A s \in Steps : Resolved(wf, s) \cap {NotFound, s} = {}
        BY Zenon, <1>2 DEF BuildDepGraph
    <2>2. \A s \in Steps : Resolved(wf, s) \subseteq Steps \cup {NotFound}
        BY Zenon, <1>1, ResolvedType DEF TypeOK
    <2>3. deps' \in [Steps -> SUBSET Steps]
        BY <1>1, <2>1, <2>2 DEF TypeOK
    <2>4. phase = "build" /\ UNCHANGED <<wf, color, path, left, cycle, topoVars>>
        BY Zenon, <1>2 DEF BuildDepGraph
    <2>5. TypeOK'
        BY Zenon, <1>1, <2>1, <2>3, <2>4 DEF TypeOK, topoVars
    <2>6. (path = <<>>)' /\ (color = [s \in Steps |-> "white"])'
        BY Zenon, <2>4 DEF GraphInv
    <2>7. DFSInv'
        BY <2>6, DFSStart, PTL
    <2> QED BY Zenon, <2>1, <2>4, <2>5, <2>7 DEF GraphInv, topoVars
<1>3. CASE VisitRoot
    <2>1. phase = "dfs" /\ phase' = "dfs" /\ DFSInv'
        BY Zenon, <1>1, <1>3, DFSRoot DEF VisitRoot, GraphInv
    <2>2. PICK s \in White : Visit(s)
        BY Zenon, <1>3 DEF VisitRoot
    <2>3. s \in Steps /\ path' \in Seq(Steps)
        BY Zenon, <1>1, <2>2, PushPath DEF White, Visit
    <2>4. TypeOK'
        BY Zenon, <1>1, <1>3, <2>2, <2>3 DEF VisitRoot, Visit, TypeOK, topoVars
    <2> QED BY Zenon, <1>3, <2>1, <2>4 DEF GraphInv, VisitRoot, topoVars
<1>4. CASE Examine
    <2>1. PICK d \in left[Top] : ExamineGray(d) \/ ExamineWhite(d) \/ ExamineBlack(d)
        BY Zenon, <1>4 DEF Examine
    <2>2. phase = "dfs" /\ path # <<>> /\ DFSInv /\ Top \in Steps /\ d \in Steps
        BY Zenon, <1>1, <1>4, <2>1, TopOfPath DEF Examine, GraphInv, TypeOK
    <2>3. CASE ExamineGray(d)
        <3>1. PICK start \in 1 .. Len(path) :
                  cycle' = Append(SubSeq(path, start, Len(path)), d)
            BY Zenon, <2>3 DEF ExamineGray
        <3>2. path \in Seq(Steps) /\ Len(path) \in Nat
            BY Zenon, <1>1, LenProperties DEF TypeOK
        <3>3. \A i \in start .. Len(path) : path[i] \in Steps
            BY <3>1, <3>2, ElementOfSeq
        <3>4. SubSeq(path, start, Len(path)) \in Seq(Steps)
            BY <3>1, <3>2, <3>3, SubSeqProperties
        <3>5. cycle' \in Seq(Steps)
            BY Zenon, <2>2, <3>1, <3>4, AppendProperties
        <3>6. TypeOK'
            BY Zenon, <1>1, <2>3, <3>5 DEF ExamineGray, TypeOK, topoVars
        <3> QED BY Zenon, <2>2, <2>3, <3>6 DEF ExamineGray, GraphInv, topoVars
    <2>4. CASE ExamineWhite(d)
        <3>1. path' \in Seq(Steps)
            BY Zenon, <1>1, <2>2, <2>4, PushPath DEF ExamineWhite
        <3>2. TypeOK'
            BY Zenon, <1>1, <2>2, <2>4, <3>1 DEF ExamineWhite, TypeOK, topoVars
        <3>3. DFSInv'
            BY Zenon, <1>1, <2>1, <2>2, <2>4, DFSWhite
        <3> QED BY Zenon, <2>2, <2>4, <3>2, <3>3 DEF ExamineWhite, GraphInv, topoVars
    <2>5. CASE ExamineBlack(d)
        <3>1. TypeOK'
            BY Zenon, <1>1, <2>2, <2>5 DEF ExamineBlack, TypeOK, topoVars
        <3>2. DFSInv'
            BY Zenon, <1>1, <2>1, <2>2, <2>5, DFSBlack
        <3> QED BY Zenon, <2>2, <2>5, <3>1, <3>2 DEF ExamineBlack, GraphInv, topoVars
    <2> QED BY Zenon, <2>1, <2>3, <2>4, <2>5
<1>5. CASE Finish
    <2>1. phase = "dfs" /\ phase' = "dfs" /\ DFSInv' /\ path # <<>>
        BY Zenon, <1>1, <1>5, DFSFinish DEF Finish, GraphInv
    <2>2. path' \in Seq(Steps) /\ Top \in Steps
        <3>1. Len(path) \in Nat \ {0} /\ \A i \in 1 .. Len(path) : path[i] \in Steps
            BY Zenon, <1>1, <2>1, TopOfPath
        <3>2. PICK k \in Int : k = Len(path) - 1
            BY <3>1
        <3>3. \A i \in 1 .. k : path[i] \in Steps
            BY <3>1, <3>2
        <3>4. SubSeq(path, 1, k) \in Seq(Steps)
            BY <3>3, SubSeqProperties
        <3> QED BY Zenon, <1>1, <1>5, <2>1, <3>2, <3>4, TopOfPath DEF Finish
    <2>3. TypeOK'
        BY Zenon, <1>1, <1>5, <2>2 DEF Finish, TypeOK, topoVars
    <2> QED BY Zenon, <1>5, <2>1, <2>3 DEF GraphInv, Finish, topoVars
<1>6. CASE Accept
    <2>1. /\ phase = "dfs" /\ phase' = "topo" /\ path = <<>> /\ White = {} /\ DFSInv
          /\ inDegree' = [s \in Steps |-> Cardinality(deps[s])]
          /\ UNCHANGED <<wf, deps, color, path, left, cycle, batches, processed>>
          /\ batches = <<>> /\ processed = 0
        BY Zenon, <1>6 DEF Accept, GraphInv
    <2>2. OnPath = {}
        BY <2>1 DEF OnPath
    <2>3. Black = Steps
        BY <1>1, <2>1, <2>2 DEF DFSInv, Black, White, TypeOK
    <2>4. Acyclic'
        BY Zenon, <2>1, <2>3 DEF DFSInv, Acyclic
    <2>5. Scheduled' = {}
        BY <2>1 DEF Scheduled
    <2>6. inDegree' \in [Steps -> Int]
        BY <1>1, <2>1, SubsetFinite DEF TypeOK
    <2>7. \A s \in Steps : deps'[s] \ Scheduled' = deps[s]
        BY Zenon, <2>1, <2>5
    <2>8. TopoInv'
        BY Zenon, <2>1, <2>4, <2>5, <2>7, FS_EmptySet DEF TopoInv
    <2>9. TypeOK'
        BY Zenon, <1>1, <2>1, <2>6 DEF TypeOK
    <2> QED BY Zenon, <2>1, <2>8, <2>9 DEF GraphInv
<1>7. CASE NextBatch
    <2>1. TypeOK' /\ TopoInv' /\ phase' = "topo"
        BY Zenon, <1>1, <1>7, TopoBatch DEF NextBatch, GraphInv
    <2> QED BY Zenon, <2>1 DEF GraphInv
<1>8. CASE TopoDone
    <2>1. /\ phase = "topo" /\ phase' = "done"
          /\ UNCHANGED <<wf, deps, color, path, left, cycle, inDegree, batches, processed>>
        BY Zenon, <1>8 DEF TopoDone, topoVars
    <2>2. TypeOK'
        BY Zenon, <1>1, <2>1 DEF TypeOK
    <2>3. TopoInv'
        BY <2>1 DEF GraphInv, TopoInv, Acyclic, Scheduled
    <2> QED BY Zenon, <2>1, <2>2, <2>3 DEF GraphInv
<1>9. CASE UNCHANGED vars
    <2>1. UNCHANGED <<wf, phase, deps, color, path, left, cycle, inDegree, batches,
                      processed>>
        BY Zenon, <1>9 DEF vars, topoVars
    <2>2. OnPath' = OnPath /\ Black' = Black /\ Scheduled' = Scheduled
        BY Zenon, <2>1 DEF OnPath, Black, Scheduled
    <2>3. TypeOK'
        BY Zenon, <1>1, <2>1 DEF TypeOK
    <2>4. DFSInv => DFSInv'
        BY <2>1, <2>2 DEF DFSInv
    <2>5. TopoInv => TopoInv'
        BY Zenon, <2>1, <2>2 DEF TopoInv, Acyclic
    <2> QED BY Zenon, <2>1, <2>3, <2>4, <2>5 DEF GraphInv
<1> QED BY Zenon, <1>2, <1>3, <1>4, <1>5, <1>6, <1>7, <1>8, <1>9 DEF Next, Finished

\* Every variable of the graph construction keeps its type; in particular
\* the batches never hold more steps than there are.
THEOREM GraphTypes == Spec => []TypeOK
<1>1. GraphInv => TypeOK
    BY Zenon DEF GraphInv
<1> QED BY <1>1, GraphInit, GraphNext, PTL DEF Spec

\* A graph of any size that detectCycle accepts is acyclic, whatever order
\* the dependencies are visited in.
THEOREM CycleDetectionComplete == Spec => []AcceptedIsAcyclic
<1>1. GraphInv => AcceptedIsAcyclic
    BY Zenon DEF GraphInv, TopoInv, AcceptedIsAcyclic
<1> QED BY <1>1, GraphInit, GraphNext, PTL DEF Spec

\* topoBatches never takes its defensive error path.
THEOREM LayeringNeverStalls == Spec => []NeverStalls
<1>1. GraphInv => NeverStalls
    BY Zenon DEF GraphInv, NeverStalls
<1> QED BY <1>1, GraphInit, GraphNext, PTL DEF Spec

-----------------------------------------------------------------------------
(* The reported cycle                                                      *)

(* The stack of the search is a walk along dependencies, and only          *)
(* dependencies are left to examine.                                       *)
WalkInv ==
    /\ phase = "dfs" =>
           /\ \A i \in 1 .. Len(path) - 1 : path[i + 1] \in deps[path[i]]
           /\ \A i \in 1 .. Len(path) : left[path[i]] \subseteq deps[path[i]]
    /\ CycleIsReal

\* The part of the stack that a gray dependency closes is a cycle.
LEMMA ClosedWalk ==
    ASSUME GraphInv, WalkInv, phase = "dfs", path # <<>>, NEW d \in left[Top], ExamineGray(d)
    PROVE  CycleIsReal'
<1> DEFINE n == Len(path)
<1>1. /\ TypeOK /\ DFSInv /\ n \in Nat \ {0} /\ Top = path[n] /\ path \in Seq(Steps)
      /\ \A i \in 1 .. n : path[i] \in Steps
    BY Zenon, TopOfPath DEF GraphInv, Top, TypeOK
<1>2. /\ d \in deps[path[n]] /\ \A i \in 1 .. n - 1 : path[i + 1] \in deps[path[i]]
      /\ \A i, j \in 1 .. n : path[i] = path[j] => i = j
  <2>1. \A i, j \in 1 .. n : path[i] = path[j] => i = j
      BY Zenon, <1>1 DEF DFSInv
  <2>2. /\ \A i \in 1 .. n - 1 : path[i + 1] \in deps[path[i]]
        /\ \A i \in 1 .. n : left[path[i]] \subseteq deps[path[i]]
      BY Zenon DEF WalkInv
  <2>3. n \in 1 .. n
      BY <1>1
  <2> QED BY Zenon, <1>1, <2>1, <2>2, <2>3
<1>3. PICK start \in 1 .. n : path[start] = d /\ cycle' = Append(SubSeq(path, start, n), d)
    BY Zenon DEF ExamineGray
<1>4. deps' = deps /\ d \in Steps
    BY Zenon, <1>1, <1>3 DEF ExamineGray
<1> DEFINE k == n - start + 1
           p == SubSeq(path, start, n)
<1>5. start \in Int /\ n \in Int /\ start <= n /\ k \in Nat /\ k >= 1
    BY <1>1, <1>3
<1>6. \A i \in start .. n : path[i] \in Steps
    BY <1>1, <1>5
<1>7. p \in Seq(Steps) /\ Len(p) = k /\ \A i \in 1 .. k : p[i] = path[start + i - 1]
    BY <1>5, <1>6, SubSeqProperties
<1> HIDE DEF p
<1>8. /\ Len(cycle') = k + 1 /\ cycle'[k + 1] = d
      /\ \A i \in 1 .. k : cycle'[i] = path[start + i - 1]
    BY <1>3, <1>4, <1>5, <1>7, AppendProperties DEF p
<1> HIDE DEF n
<1>9. cycle'[1] = d
    BY <1>3, <1>5, <1>8
<1>10. ASSUME NEW i \in 1 .. k PROVE cycle'[i + 1] \in deps[cycle'[i]]
  <2>1. CASE i = k
    <3>1. cycle'[i] = path[n] /\ cycle'[i + 1] = d
        BY <1>5, <1>8, <2>1
    <3> QED BY Zenon, <1>2, <3>1
  <2>2. CASE i # k
    <3>1. i + 1 \in 1 .. k /\ start + i - 1 \in 1 .. n - 1 /\ start + (i + 1) - 1 = (start + i - 1) + 1
        BY <1>3, <1>5, <2>2
    <3>2. cycle'[i] = path[start + i - 1] /\ cycle'[i + 1] = path[(start + i - 1) + 1]
        BY <1>8, <3>1
    <3> QED BY Zenon, <1>2, <3>1, <3>2
  <2> QED BY Zenon, <2>1, <2>2
<1>11. ASSUME NEW i \in 1 .. k, NEW j \in 1 .. k, cycle'[i] = cycle'[j] PROVE i = j
  <2>1. start + i - 1 \in 1 .. n /\ start + j - 1 \in 1 .. n
      BY <1>3, <1>5
  <2>2. start + i - 1 = start + j - 1
      BY Zenon, <1>2, <1>8, <1>11, <2>1
  <2> QED BY <1>5, <2>2
<1>12. Len(cycle') - 1 = k /\ Len(cycle') >= 2
    BY <1>5, <1>8
<1> HIDE DEF k
<1> QED BY Zenon, <1>4, <1>8, <1>9, <1>10, <1>11, <1>12 DEF CycleIsReal

\* Every step keeps the walk.
LEMMA WalkNext == GraphInv /\ WalkInv /\ [Next]_vars => WalkInv'
<1> SUFFICES ASSUME GraphInv, WalkInv, [Next]_vars PROVE WalkInv'
    BY Zenon
<1>0. TypeOK
    BY Zenon DEF GraphInv
<1>a. ASSUME phase' \notin {"dfs", "cyclic"} PROVE WalkInv'
    BY Zenon, <1>a DEF WalkInv, CycleIsReal
<1>1. CASE BuildDepGraph
  <2>1. path' = <<>> /\ Len(path') = 0 /\ phase' # "cyclic"
      BY Zenon, <1>1 DEF BuildDepGraph, GraphInv
  <2> QED BY <2>1 DEF WalkInv, CycleIsReal
<1>2. CASE VisitRoot
  <2>1. PICK s \in White : Visit(s)
      BY Zenon, <1>2 DEF VisitRoot
  <2>2. s \in Steps /\ phase' = "dfs" /\ deps' = deps /\ path = <<>> /\ Len(path) = 0
        /\ path' = Append(path, s) /\ left'[s] = deps[s]
      BY Zenon, <1>0, <1>2, <2>1 DEF VisitRoot, White, Visit, TypeOK
  <2>3. Len(path') = 1 /\ path'[1] = s
      BY <1>0, <2>2, PushPath
  <2> QED BY <2>2, <2>3 DEF WalkInv, CycleIsReal
<1>3. CASE Examine
  <2>1. PICK d \in left[Top] : ExamineGray(d) \/ ExamineWhite(d) \/ ExamineBlack(d)
      BY Zenon, <1>3 DEF Examine
  <2> DEFINE n == Len(path)
  <2>2. /\ phase = "dfs" /\ path # <<>> /\ DFSInv /\ Top \in Steps /\ d \in Steps /\ d \in deps[Top]
        /\ Top = path[n] /\ n \in Nat \ {0} /\ n \in 1 .. n /\ \A i \in 1 .. n : path[i] \in Steps
      BY Zenon, <1>0, <1>3, <2>1, TopOfPath DEF Examine, GraphInv, TypeOK, Top, WalkInv
  <2>3. CASE ExamineGray(d)
    <3>1. phase' = "cyclic"
        BY Zenon, <2>3 DEF ExamineGray
    <3> QED BY Zenon, <2>1, <2>2, <2>3, <3>1, ClosedWalk DEF WalkInv
  <2>4. CASE ExamineWhite(d)
    <3>1. /\ path' = Append(path, d) /\ deps' = deps /\ phase' = "dfs" /\ color[d] = "white"
          /\ left' = [left EXCEPT ![Top] = @ \ {d}, ![d] = deps[d]]
        BY Zenon, <2>2, <2>4 DEF ExamineWhite
    <3>2. /\ Len(path') = n + 1 /\ path'[n + 1] = d /\ \A i \in 1 .. n : path'[i] = path[i]
        BY Zenon, <1>0, <2>2, <3>1, PushPath
    <3>3. d # Top
        BY <2>2, <3>1 DEF DFSInv, OnPath
    <3>4. left'[d] = deps[d] /\ \A t \in Steps : t # d => left'[t] \subseteq left[t]
        BY Zenon, <1>0, <2>2, <3>1, <3>3 DEF TypeOK
    <3>5. /\ \A i \in 1 .. n - 1 : path[i + 1] \in deps[path[i]]
          /\ \A i \in 1 .. n : left[path[i]] \subseteq deps[path[i]]
        BY Zenon, <2>2 DEF WalkInv
    <3> HIDE DEF n
    <3>6. ASSUME NEW i \in 1 .. Len(path') - 1 PROVE path'[i + 1] \in deps'[path'[i]]
      <4>1. i \in 1 .. n /\ path'[i] = path[i]
          BY <2>2, <3>2
      <4>2. CASE i = n
          BY Zenon, <2>2, <3>1, <3>2, <4>1, <4>2
      <4>3. CASE i # n
        <5>1. i \in 1 .. n - 1 /\ i + 1 \in 1 .. n
            BY <2>2, <4>1, <4>3
        <5> QED BY Zenon, <3>1, <3>2, <3>5, <4>1, <5>1
      <4> QED BY Zenon, <4>2, <4>3
    <3>7. ASSUME NEW i \in 1 .. Len(path') PROVE left'[path'[i]] \subseteq deps'[path'[i]]
      <4>1. CASE i = n + 1
          BY Zenon, <3>1, <3>2, <3>4, <4>1
      <4>2. CASE i # n + 1
        <5>1. i \in 1 .. n /\ path'[i] = path[i] /\ path[i] \in Steps
            BY <2>2, <3>2, <4>2
        <5> QED BY Zenon, <3>1, <3>4, <3>5, <5>1
      <4> QED BY Zenon, <4>1, <4>2
    <3> QED BY Zenon, <3>1, <3>6, <3>7 DEF WalkInv, CycleIsReal
  <2>5. CASE ExamineBlack(d)
    <3>1. /\ UNCHANGED <<path, deps, phase>> /\ left' = [left EXCEPT ![Top] = @ \ {d}]
        BY Zenon, <2>5 DEF ExamineBlack
    <3>2. \A t \in Steps : left'[t] \subseteq left[t]
        BY Zenon, <1>0, <2>2, <3>1 DEF TypeOK
    <3> QED BY Zenon, <2>2, <3>1, <3>2 DEF WalkInv, CycleIsReal
  <2> QED BY Zenon, <2>1, <2>3, <2>4, <2>5
<1>4. CASE Finish
  <2> DEFINE n == Len(path)
  <2>1. /\ UNCHANGED <<deps, left, phase>> /\ phase = "dfs" /\ path # <<>>
        /\ path' = SubSeq(path, 1, n - 1)
      BY Zenon, <1>4 DEF Finish
  <2>2. n \in Nat \ {0} /\ \A i \in 1 .. n : path[i] \in Steps
      BY Zenon, <1>0, <2>1, TopOfPath
  <2>3. PICK k \in Nat : k = n - 1
      BY <2>2
  <2>4. \A i \in 1 .. k : path[i] \in Steps
      BY <2>2, <2>3
  <2>5. /\ Len(SubSeq(path, 1, k)) = IF 1 <= k THEN k - 1 + 1 ELSE 0
        /\ \A i \in 1 .. k - 1 + 1 : SubSeq(path, 1, k)[i] = path[1 + i - 1]
      BY <2>4, SubSeqProperties
  <2>6. Len(path') = k /\ \A i \in 1 .. k : path'[i] = path[1 + i - 1] /\ 1 + i - 1 = i
      BY <2>1, <2>3, <2>5
  <2>7. \A i \in 1 .. k : path'[i] = path[i] /\ i \in 1 .. n
      BY <2>2, <2>3, <2>6
  <2>8. /\ \A i \in 1 .. n - 1 : path[i + 1] \in deps[path[i]]
        /\ \A i \in 1 .. n : left[path[i]] \subseteq deps[path[i]]
      BY Zenon, <2>1 DEF WalkInv
  <2> HIDE DEF n
  <2>9. \A i \in 1 .. k - 1 : i \in 1 .. k /\ i + 1 \in 1 .. k /\ i \in 1 .. n - 1
      BY <2>2, <2>3
  <2>10. \A i \in 1 .. Len(path') - 1 : path'[i + 1] \in deps'[path'[i]]
      BY Zenon, <2>1, <2>6, <2>7, <2>8, <2>9
  <2>11. \A i \in 1 .. Len(path') : left'[path'[i]] \subseteq deps'[path'[i]]
      BY Zenon, <2>1, <2>6, <2>7, <2>8
  <2> QED BY Zenon, <2>1, <2>10, <2>11 DEF WalkInv, CycleIsReal
<1>5. CASE Accept \/ NextBatch \/ TopoDone
    BY Zenon, <1>5, <1>a DEF Accept, NextBatch, TopoDone
<1>6. CASE UNCHANGED vars
    BY Zenon, <1>6 DEF vars, WalkInv, CycleIsReal
<1> QED BY Zenon, <1>1, <1>2, <1>3, <1>4, <1>5, <1>6 DEF Next, Finished

\* The cycle that detectCycle reports is a cycle of the graph, of any size,
\* whatever order it visits the dependencies in.
THEOREM ReportedCycleIsReal == Spec => []CycleIsReal
<1>1. Init => WalkInv
    BY Zenon DEF Init, WalkInv, CycleIsReal
<1>2. WalkInv => CycleIsReal
    BY Zenon DEF WalkInv
<1> QED BY <1>1, <1>2, GraphInit, GraphNext, WalkNext, PTL DEF Spec

-----------------------------------------------------------------------------
(* The batches                                                             *)

\* The steps in the batches before the b-th.
Before(b) == UNION {batches[c] : c \in 1 .. b - 1}

(* The batches so far are levels, and a step in none of them waits for one *)
(* that is not in a batch before the last.                                 *)
LevelInv ==
    phase \in {"topo", "done"} =>
        /\ \A b, c \in 1 .. Len(batches) : b # c => batches[b] \cap batches[c] = {}
        /\ \A b \in 1 .. Len(batches) : \A s \in batches[b] :
               deps[s] \subseteq Before(b) /\ (b > 1 => deps[s] \cap batches[b - 1] # {})
        /\ batches # <<>> =>
               \A s \in Steps \ Scheduled : ~(deps[s] \subseteq Before(Len(batches)))
        /\ phase = "done" => Scheduled = Steps

\* A new batch is the next level.
LEMMA NextLevel ==
    ASSUME TypeOK, TopoInv, LevelInv, phase = "topo", NextBatch
    PROVE  LevelInv'
<1>1. CASE Batch = {}
    BY Zenon, <1>1 DEF NextBatch, LevelInv
<1>2. CASE Batch # {}
  <2>0. PICK n \in Nat : n = Len(batches)
      BY Zenon, LenProperties DEF TypeOK
  <2>1. batches \in Seq(SUBSET Steps) /\ phase' = "topo" /\ deps' = deps
        /\ batches' = Append(batches, Batch) /\ Batch \in SUBSET Steps
      BY Zenon, <1>2 DEF TypeOK, NextBatch, Batch, Ready
  <2>2. /\ Len(batches') = n + 1 /\ batches'[n + 1] = Batch
        /\ \A b \in 1 .. n : batches'[b] = batches[b]
      BY <2>0, <2>1, AppendProperties
  <2>3. ASSUME NEW b \in 1 .. n + 1 PROVE Before(b)' = Before(b)
    <3>1. \A c \in 1 .. b - 1 : batches'[c] = batches[c]
        BY <2>1, <2>2
    <3> QED BY Zenon, <3>1 DEF Before
  <2>4. Before(n + 1) = Scheduled /\ Scheduled \in SUBSET Steps
    <3>1. n + 1 - 1 = n
        BY <2>1
    <3>2. \A b \in 1 .. n : batches[b] \in SUBSET Steps
        BY Zenon, <2>0, <2>1, ElementOfSeq
    <3> QED BY <2>0, <3>1, <3>2 DEF Before, Scheduled
  <2>5. Scheduled' = Scheduled \cup Batch
    <3>1. 1 .. n + 1 = (1 .. n) \cup {n + 1}
        BY <2>1
    <3> QED BY <2>0, <2>2, <3>1 DEF Scheduled
  <2>6. ASSUME NEW s \in Steps \ Scheduled PROVE s \in Batch <=> deps[s] \subseteq Scheduled
    <3>1. inDegree[s] = Cardinality(deps[s] \ Scheduled)
        BY Zenon, <2>6 DEF TopoInv
    <3>2. deps[s] \ Scheduled \in SUBSET Steps
        BY Zenon, <2>6 DEF TypeOK
    <3>3. Cardinality(deps[s] \ Scheduled) = 0 <=> deps[s] \ Scheduled = {}
        BY Zenon, <3>2, SubsetFinite, FS_EmptySet
    <3> QED BY Zenon, <2>6, <3>1, <3>3 DEF Batch, Ready
  <2>7. Batch \cap Scheduled = {}
      BY DEF Batch, Ready, TopoInv
  <2>8. /\ \A b, c \in 1 .. n : b # c => batches[b] \cap batches[c] = {}
        /\ \A b \in 1 .. n : \A s \in batches[b] :
               deps[s] \subseteq Before(b) /\ (b > 1 => deps[s] \cap batches[b - 1] # {})
        /\ n # 0 => \A s \in Steps \ Scheduled : ~(deps[s] \subseteq Before(n))
      BY Zenon, <2>0, <2>1, EmptySeq DEF LevelInv
  <2>9. \A b \in 1 .. n + 1 : b \in 1 .. n \/ b = n + 1
      BY <2>1
  <2>10. \A b \in 1 .. n : Batch \cap batches[b] = {}
      BY Zenon, <2>0, <2>7 DEF Scheduled
  <2>11. \A b, c \in 1 .. n + 1 : b # c => batches'[b] \cap batches'[c] = {}
      BY Zenon, <2>2, <2>8, <2>9, <2>10
  <2>12. ASSUME NEW b \in 1 .. n + 1, NEW s \in batches'[b]
         PROVE  deps'[s] \subseteq Before(b)' /\ (b > 1 => deps'[s] \cap batches'[b - 1] # {})
    <3>1. CASE b \in 1 .. n
      <4>1. b > 1 => b - 1 \in 1 .. n
          BY <2>1, <3>1
      <4> QED BY <2>1, <2>2, <2>3, <2>8, <2>12, <3>1, <4>1
    <3>2. CASE b = n + 1
      <4>1. s \in Batch /\ s \in Steps \ Scheduled /\ deps[s] \subseteq Scheduled
          BY Zenon, <2>1, <2>2, <2>6, <2>7, <2>12, <3>2
      <4>2. deps'[s] \subseteq Before(b)'
          BY Zenon, <2>1, <2>3, <2>4, <3>2, <4>1
      <4>3. ASSUME b > 1 PROVE deps'[s] \cap batches'[b - 1] # {}
        <5>1. n # 0 /\ n \in 1 .. n /\ b - 1 = n
            BY <2>1, <3>2, <4>3
        <5>2. PICK d \in deps[s] : d \notin Before(n)
            BY Zenon, <2>8, <4>1, <5>1
        <5>3. PICK c \in 1 .. n : d \in batches[c]
            BY Zenon, <2>0, <4>1, <5>2 DEF Scheduled
        <5>4. c = n
          <6>1. c # n => c \in 1 .. n - 1
              BY <2>1
          <6> QED BY Zenon, <5>2, <5>3, <6>1 DEF Before
        <5> QED BY Zenon, <2>1, <2>2, <5>1, <5>2, <5>3, <5>4
      <4> QED BY Zenon, <4>2, <4>3
    <3> QED BY Zenon, <2>9, <3>1, <3>2
  <2>13. \A s \in Steps \ Scheduled' : ~(deps'[s] \subseteq Before(n + 1)')
    <3>1. n + 1 \in 1 .. n + 1
        BY <2>1
    <3>2. Before(n + 1)' = Scheduled
        BY Zenon, <2>3, <2>4, <3>1
    <3>3. ASSUME NEW s \in Steps \ Scheduled' PROVE ~(deps[s] \subseteq Scheduled)
        BY Zenon, <2>5, <2>6, <3>3
    <3> QED BY Zenon, <2>1, <3>2, <3>3
  <2> QED BY Zenon, <2>1, <2>2, <2>11, <2>12, <2>13 DEF LevelInv
<1> QED BY Zenon, <1>1, <1>2

\* Every step keeps the levels.
LEMMA LevelNext == GraphInv /\ LevelInv /\ [Next]_vars => LevelInv'
<1> SUFFICES ASSUME GraphInv, LevelInv, [Next]_vars PROVE LevelInv'
    BY Zenon
<1>0. TypeOK
    BY Zenon DEF GraphInv
<1>1. CASE BuildDepGraph \/ VisitRoot \/ Examine \/ Finish
  <2>1. phase' \notin {"topo", "done"}
      BY Zenon, <1>1 DEF BuildDepGraph, VisitRoot, Examine, ExamineGray, ExamineWhite, ExamineBlack, Finish
  <2> QED BY Zenon, <2>1 DEF LevelInv
<1>2. CASE Accept
  <2>1. batches' = <<>> /\ Len(batches') = 0 /\ phase' # "done"
      BY Zenon, <1>2 DEF Accept, GraphInv
  <2> QED BY <2>1 DEF LevelInv
<1>3. CASE NextBatch
    BY Zenon, <1>0, <1>3, NextLevel DEF GraphInv, NextBatch
<1>4. CASE TopoDone
  <2>1. /\ phase = "topo" /\ phase' = "done" /\ processed >= N
        /\ UNCHANGED <<deps, batches>>
      BY Zenon, <1>4 DEF TopoDone, topoVars
  <2>2. Scheduled \in SUBSET Steps
    <3>1. \A b \in 1 .. Len(batches) : batches[b] \in SUBSET Steps
        BY Zenon, <1>0, ElementOfSeq DEF TypeOK
    <3> QED BY Zenon, <3>1 DEF Scheduled
  <2>3. IsFiniteSet(Steps) /\ Cardinality(Steps) = N
      BY GraphAssumption, FS_Interval DEF Steps
  <2>4. processed = Cardinality(Scheduled) /\ processed = N
      BY <1>0, <2>1, GraphAssumption DEF GraphInv, TopoInv, TypeOK
  <2>5. Scheduled = Steps
      BY Zenon, <2>2, <2>3, <2>4, FS_Subset
  <2> QED BY <2>1, <2>5 DEF LevelInv, Scheduled, Before
<1>5. CASE UNCHANGED vars
    BY <1>5 DEF vars, topoVars, LevelInv, Scheduled, Before
<1> QED BY Zenon, <1>1, <1>2, <1>3, <1>4, <1>5 DEF Next, Finished

\* The batches that topoBatches makes of an accepted graph of any size are its
\* levels: every step is in exactly one, after all its dependencies and not
\* later than it must be.
THEOREM BatchesAreTheLevels == Spec => []BatchesAreLevels
<1>1. Init => LevelInv
    BY Zenon DEF Init, LevelInv
<1>2. LevelInv => BatchesAreLevels
    BY Zenon DEF LevelInv, BatchesAreLevels, Before
<1> QED BY <1>1, <1>2, GraphInit, GraphNext, LevelNext, PTL DEF Spec
=============================================================================
