----------------------------- MODULE WALProofs ------------------------------
(***************************************************************************)
(* The write-ahead log of a run, for any number of steps, records, crashes *)
(* and processes: what a process that resumes makes of the log, what       *)
(* survives, and what a compaction leaves as it was.                       *)
(***************************************************************************)
EXTENDS WAL, WellFoundedInduction, TLAPS

-----------------------------------------------------------------------------
(* Sequences *)

\* An element of a sequence.
LEMMA ElementOfSeq ==
    ASSUME NEW S, NEW q \in Seq(S), NEW i \in 1 .. Len(q)
    PROVE  q[i] \in S
OBVIOUS

\* The empty sequence.
LEMMA EmptySeq ==
    ASSUME NEW S
    PROVE  <<>> \in Seq(S) /\ Len(<<>>) = 0 /\ \A q \in Seq(S) : q # <<>> => Len(q) \in Nat \ {0}
OBVIOUS

\* A sequence is a function on the numbers up to its length.
LEMMA LenProperties ==
    ASSUME NEW S, NEW q \in Seq(S)
    PROVE  Len(q) \in Nat /\ DOMAIN q = 1 .. Len(q) /\ q \in [1 .. Len(q) -> S]
OBVIOUS

\* What concatenation does.
LEMMA ConcatProperties ==
    ASSUME NEW S, NEW p \in Seq(S), NEW q \in Seq(S)
    PROVE  /\ p \o q \in Seq(S) /\ Len(p \o q) = Len(p) + Len(q)
           /\ \A i \in 1 .. Len(p) + Len(q) : (p \o q)[i] = IF i <= Len(p) THEN p[i] ELSE q[i - Len(p)]
OBVIOUS

\* What SubSeq does.
LEMMA SubSeqProperties ==
    ASSUME NEW S, NEW q, NEW m \in Int, NEW n \in Int, \A i \in m .. n : q[i] \in S
    PROVE  /\ SubSeq(q, m, n) \in Seq(S) /\ Len(SubSeq(q, m, n)) = IF m <= n THEN n - m + 1 ELSE 0
           /\ \A i \in 1 .. n - m + 1 : SubSeq(q, m, n)[i] = q[m + i - 1]
OBVIOUS

\* What Append does.
LEMMA AppendProperties ==
    ASSUME NEW S, NEW q \in Seq(S), NEW e \in S
    PROVE  /\ Append(q, e) \in Seq(S) /\ Append(q, e) # <<>> /\ Len(Append(q, e)) = Len(q) + 1
           /\ Append(q, e)[Len(q) + 1] = e /\ \A i \in 1 .. Len(q) : Append(q, e)[i] = q[i]
OBVIOUS

\* Two sequences with the same elements at the same places are equal.
LEMMA SeqEqual ==
    ASSUME NEW S, NEW p \in Seq(S), NEW q \in Seq(S), Len(p) = Len(q), \A i \in 1 .. Len(p) : p[i] = q[i]
    PROVE  p = q
OBVIOUS

\* The sequences over a set are the functions on initial segments.
LEMMA SeqDef == \A S : Seq(S) = UNION {[1 .. n -> S] : n \in Nat}
OBVIOUS

\* Sequences over a set are sequences over a larger one.
LEMMA SeqMonotonic ==
    ASSUME NEW S, NEW T, S \subseteq T
    PROVE  Seq(S) \subseteq Seq(T)
OBVIOUS

\* The empty sequence is neutral.
LEMMA ConcatEmptySeq ==
    ASSUME NEW S, NEW q \in Seq(S)
    PROVE  q \o <<>> = q /\ <<>> \o q = q
OBVIOUS

\* Append as a concatenation.
LEMMA AppendIsConcat ==
    ASSUME NEW S, NEW q \in Seq(S), NEW e \in S
    PROVE  Append(q, e) = q \o <<e>>
OBVIOUS

\* Concatenation is associative.
LEMMA ConcatAssociative ==
    ASSUME NEW S, NEW p \in Seq(S), NEW q \in Seq(S), NEW r \in Seq(S)
    PROVE  (p \o q) \o r = p \o (q \o r)
OBVIOUS

\* Every nonempty set of natural numbers has a least element.
LEMMA LeastNatural ==
    ASSUME NEW T \in SUBSET Nat, T # {}
    PROVE  \E x \in T : \A y \in T : x <= y
<1> DEFINE R == OpToRel(<, Nat)
<1>1. IsWellFoundedOn(R, Nat)
    BY Zenon, NatLessThanWellFounded
<1>2. \A x, y \in Nat : x < y => <<x, y>> \in R
    BY Zenon DEF OpToRel
<1> HIDE DEF R
<1>3. PICK x \in T : \A y \in T : ~(<<y, x>> \in R)
    BY Zenon, <1>1, WFMin
<1>4. \A y \in T : ~(y < x)
    BY Zenon, <1>2, <1>3
<1>5. \A y \in T : x <= y
    BY <1>4
<1> QED BY Zenon, <1>5

\* Min finds the least element of a set of natural numbers.
LEMMA MinIsLeast ==
    ASSUME NEW T \in SUBSET Nat, T # {}
    PROVE  Min(T) \in T /\ \A y \in T : Min(T) <= y
<1>1. PICK x \in T : \A y \in T : x <= y
    BY Zenon, LeastNatural
<1> QED BY Zenon, <1>1 DEF Min

\* Max finds the greatest element of a bounded set of natural numbers.
LEMMA MaxIsGreatest ==
    ASSUME NEW n \in Nat, NEW T \in SUBSET (0 .. n), T # {}
    PROVE  Max(T) \in T /\ \A y \in T : y <= Max(T)
<1> DEFINE D == {n - x : x \in T}
<1>1. D \in SUBSET Nat /\ D # {}
  <2>1. \A x \in T : n - x \in Nat
      OBVIOUS
  <2>2. PICK x \in T : TRUE
      BY Zenon
  <2>3. n - x \in D
      BY Zenon
  <2> QED BY Zenon, <2>1, <2>3
<1>2. PICK e \in D : \A y \in D : e <= y
    BY Zenon, <1>1, LeastNatural
<1>3. PICK x \in T : e = n - x
    BY Zenon, <1>2
<1>4. \A y \in T : n - x <= n - y
    BY Zenon, <1>2, <1>3
<1>5. \A y \in T : x >= y
    BY <1>4
<1>6. Max(T) \in T /\ \A y \in T : Max(T) >= y
    BY Zenon, <1>5 DEF Max
<1> QED BY Zenon, <1>6
-----------------------------------------------------------------------------
(* Merged computes what a fold over the records computes.                  *)

\* The snapshot the deltas start from, the records from there on that write a
\* step's output, and the last of them.
Base(recs) == Max({1} \cup {i \in 1 .. Len(recs) : ~recs[i].delta})
Writers(recs, s) == {i \in Base(recs) .. Len(recs) : s \in DOMAIN recs[i].out}
LastWriter(recs, s) == Max(Writers(recs, s))

\* The snapshot the deltas are merged into is the last one in the log.
LEMMA BaseIsLatest ==
    ASSUME NEW recs \in Seq(Records)
    PROVE  /\ Base(recs) \in Nat /\ Base(recs) >= 1
           /\ \A i \in 1 .. Len(recs) : ~recs[i].delta => i <= Base(recs)
           /\ Base(recs) = 1 \/ (Base(recs) \in 1 .. Len(recs) /\ ~recs[Base(recs)].delta)
<1> DEFINE T == {1} \cup {i \in 1 .. Len(recs) : ~recs[i].delta}
<1>1. Len(recs) + 1 \in Nat /\ T \in SUBSET (0 .. Len(recs) + 1) /\ T # {}
    BY LenProperties
<1>2. Max(T) \in T /\ \A y \in T : y <= Max(T)
    BY Zenon, <1>1, MaxIsGreatest
<1>3. Base(recs) = Max(T)
    BY Zenon DEF Base
<1> QED BY <1>1, <1>2, <1>3

\* An output is the one of the last record that has it.
LEMMA LastWriterIsLast ==
    ASSUME NEW recs \in Seq(Records), NEW s, NEW i \in Writers(recs, s)
    PROVE  /\ LastWriter(recs, s) \in Writers(recs, s) /\ LastWriter(recs, s) \in 1 .. Len(recs)
           /\ i <= LastWriter(recs, s)
<1>1. Len(recs) \in Nat /\ Writers(recs, s) \in SUBSET (1 .. Len(recs))
    BY BaseIsLatest, LenProperties DEF Writers
<1>2. LastWriter(recs, s) \in Writers(recs, s) /\ \A y \in Writers(recs, s) : y <= LastWriter(recs, s)
  <2>1. Writers(recs, s) \in SUBSET (0 .. Len(recs)) /\ Writers(recs, s) # {}
      BY <1>1
  <2> QED BY Zenon, <1>1, <2>1, MaxIsGreatest DEF LastWriter
<1> QED BY Zenon, <1>1, <1>2

\* Merged, in the terms of the lemmas.
LEMMA MergedIs ==
    ASSUME NEW recs \in Seq(Records)
    PROVE  /\ Merged(recs) = [s \in DOMAIN Merged(recs) |-> recs[LastWriter(recs, s)].out[s]]
           /\ \A s : s \in DOMAIN Merged(recs) <=> Writers(recs, s) # {}
<1>1. Merged(recs) = [s \in UNION {DOMAIN recs[i].out : i \in Base(recs) .. Len(recs)} |->
                        recs[LastWriter(recs, s)].out[s]]
    BY Zenon DEF Merged, Base, Writers, LastWriter
<1> QED BY Zenon, <1>1 DEF Writers

\* What a log says about the outputs has the type of a record's outputs.
LEMMA MergedType ==
    ASSUME NEW recs \in Seq(Records)
    PROVE  Merged(recs) \in Outs
<1>1. ASSUME NEW s \in DOMAIN Merged(recs)
      PROVE  s \in Steps /\ recs[LastWriter(recs, s)].out[s] \in Outputs \cup {0}
  <2>1. PICK i \in Writers(recs, s) : TRUE
      BY Zenon, MergedIs
  <2>2. LastWriter(recs, s) \in 1 .. Len(recs) /\ s \in DOMAIN recs[LastWriter(recs, s)].out
      BY Zenon, <2>1, LastWriterIsLast DEF Writers
  <2>3. recs[LastWriter(recs, s)] \in Records
      BY Zenon, <2>2, ElementOfSeq
  <2>4. PICK D \in SUBSET Steps : recs[LastWriter(recs, s)].out \in [D -> Outputs \cup {0}]
      BY Zenon, <2>3 DEF Records, Outs
  <2> QED BY Zenon, <2>2, <2>4
<1>2. DOMAIN Merged(recs) \in SUBSET Steps
    BY Zenon, <1>1
<1>3. Merged(recs) \in [DOMAIN Merged(recs) -> Outputs \cup {0}]
    BY <1>1, MergedIs
<1> QED BY Zenon, <1>2, <1>3 DEF Outs

\* A record that is a snapshot, or the first one, is the whole state.
LEMMA MergeSnapshot ==
    ASSUME NEW recs \in Seq(Records), NEW r \in Records, recs = <<>> \/ ~r.delta
    PROVE  Merged(Append(recs, r)) = r.out
<1> DEFINE new == Append(recs, r)
<1>1. /\ new \in Seq(Records) /\ Len(new) = Len(recs) + 1 /\ new[Len(recs) + 1] = r
      /\ Len(recs) \in Nat /\ (recs = <<>> => Len(recs) = 0)
    BY AppendProperties, LenProperties, EmptySeq
<1> HIDE DEF new
<1>2. Base(new) = Len(recs) + 1
    BY <1>1, BaseIsLatest
<1>3. ASSUME NEW s PROVE Writers(new, s) = IF s \in DOMAIN r.out THEN {Len(recs) + 1} ELSE {}
    BY <1>1, <1>2 DEF Writers
<1>4. \A s \in DOMAIN r.out : LastWriter(new, s) = Len(recs) + 1
    BY Zenon, <1>1, <1>3, LastWriterIsLast
<1>5. DOMAIN Merged(new) = DOMAIN r.out
    BY Zenon, <1>1, <1>3, MergedIs
<1>6. \A s \in DOMAIN r.out : Merged(new)[s] = r.out[s]
    BY <1>1, <1>4, <1>5, MergedIs
<1>7. r.out = [s \in DOMAIN r.out |-> r.out[s]]
    BY Zenon DEF Records, Outs
<1> QED BY Zenon, <1>1, <1>5, <1>6, <1>7, MergedIs DEF new

\* A delta overrides what the log before it says.
LEMMA MergeDelta ==
    ASSUME NEW recs \in Seq(Records), NEW r \in Records, recs # <<>>, r.delta
    PROVE  /\ DOMAIN Merged(Append(recs, r)) = DOMAIN Merged(recs) \cup DOMAIN r.out
           /\ \A s \in DOMAIN r.out : Merged(Append(recs, r))[s] = r.out[s]
           /\ \A s \in DOMAIN Merged(recs) \ DOMAIN r.out :
                 Merged(Append(recs, r))[s] = Merged(recs)[s]
<1> DEFINE new == Append(recs, r)
           n == Len(recs)
<1>1. /\ new \in Seq(Records) /\ Len(new) = n + 1 /\ new[n + 1] = r
      /\ \A i \in 1 .. n : new[i] = recs[i]
      /\ n \in Nat /\ n >= 1
    BY AppendProperties, LenProperties, EmptySeq
<1> HIDE DEF new
<1>2. {i \in 1 .. n + 1 : ~new[i].delta} = {i \in 1 .. n : ~recs[i].delta}
    BY <1>1
<1>3. Base(new) = Base(recs) /\ Base(recs) \in 1 .. n
    BY <1>1, <1>2, BaseIsLatest DEF Base
<1>4. ASSUME NEW s
      PROVE  Writers(new, s) = Writers(recs, s) \cup IF s \in DOMAIN r.out THEN {n + 1} ELSE {}
    BY <1>1, <1>3 DEF Writers
<1>5. DOMAIN Merged(new) = DOMAIN Merged(recs) \cup DOMAIN r.out
  <2>1. \A s : s \in DOMAIN Merged(new) <=> Writers(new, s) # {}
      BY Zenon, <1>1, MergedIs
  <2>2. \A s : s \in DOMAIN Merged(recs) <=> Writers(recs, s) # {}
      BY Zenon, MergedIs
  <2>3. \A s : Writers(new, s) # {} <=> Writers(recs, s) # {} \/ s \in DOMAIN r.out
      BY Zenon, <1>4
  <2> QED BY Zenon, <2>1, <2>2, <2>3
<1>6. ASSUME NEW s \in DOMAIN r.out PROVE Merged(new)[s] = r.out[s]
  <2>1. n + 1 \in Writers(new, s)
      BY Zenon, <1>4
  <2>2. LastWriter(new, s) = n + 1
      BY <1>1, <2>1, LastWriterIsLast
  <2> QED BY <1>1, <1>5, <2>2, MergedIs
<1>7. ASSUME NEW s \in DOMAIN Merged(recs) \ DOMAIN r.out PROVE Merged(new)[s] = Merged(recs)[s]
  <2>1. Writers(new, s) = Writers(recs, s) /\ Writers(recs, s) # {}
      BY Zenon, <1>4, MergedIs
  <2>2. LastWriter(new, s) = LastWriter(recs, s) /\ LastWriter(recs, s) \in 1 .. n
      BY Zenon, <2>1, LastWriterIsLast DEF LastWriter
  <2>3. new[LastWriter(new, s)] = recs[LastWriter(recs, s)]
      BY Zenon, <1>1, <2>2
  <2> QED BY <1>1, <1>5, <2>3, MergedIs
<1> QED BY Zenon, <1>5, <1>6, <1>7 DEF new
-----------------------------------------------------------------------------
(* What ReplayWAL reads, and the types of the log's state.                 *)

\* What is in the file: records, and a frame written in part.
Frames == Records \cup {Torn}
\* ReplayWAL stops at a frame that it cannot read.
Readable(r) == ~(r = Torn \/ RecordSize(r) > MaxRecord)

\* A frame written in part is no record.
LEMMA TornIsNoRecord == Torn \notin Records
    BY Zenon, WALAssumption DEF Torn, NoRecord, Records, Steps

\* ReplayWAL reads the longest prefix of frames it can read.
LEMMA ReplayedIs ==
    ASSUME NEW d \in Seq(Frames)
    PROVE  \E k \in 0 .. Len(d) :
              /\ Replayed(d) \in Seq(Records) /\ Len(Replayed(d)) = k
              /\ \A i \in 1 .. k : Replayed(d)[i] = d[i] /\ Readable(d[i])
              /\ k < Len(d) => ~Readable(d[k + 1])
<1> DEFINE bad == {i \in DOMAIN d : d[i] = Torn \/ RecordSize(d[i]) > MaxRecord}
<1>1. Len(d) \in Nat /\ DOMAIN d = 1 .. Len(d)
    BY Zenon, LenProperties
<1>2. \A i \in 1 .. Len(d) : d[i] \in Frames /\ (i \notin bad => Readable(d[i]) /\ d[i] \in Records)
    BY <1>1, ElementOfSeq DEF Readable, Frames
<1>3. CASE bad = {}
  <2>1. Replayed(d) = d
      BY Zenon, <1>3 DEF Replayed
  <2>2. d \in Seq(Records)
      BY <1>1, <1>2, <1>3, SeqDef, LenProperties
  <2>3. \A i \in 1 .. Len(d) : Readable(d[i])
      BY Zenon, <1>2, <1>3
  <2>4. Len(d) \in 0 .. Len(d) /\ ~(Len(d) < Len(d))
      BY <1>1
  <2> HIDE DEF bad
  <2> QED BY Zenon, <2>1, <2>2, <2>3, <2>4
<1>4. CASE bad # {}
  <2>1. bad \in SUBSET Nat
      BY <1>1
  <2>2. Min(bad) \in bad /\ \A y \in bad : Min(bad) <= y
      BY Zenon, <1>4, <2>1, MinIsLeast
  <2> DEFINE k == Min(bad) - 1
  <2>3. k \in 0 .. Len(d) /\ k + 1 \in bad /\ \A i \in 1 .. k : i \notin bad
    <3>1. Min(bad) \in 1 .. Len(d)
        BY Zenon, <1>1, <2>2
    <3>2. \A i \in bad : i \in Nat
        BY <1>1
    <3> HIDE DEF bad
    <3> QED BY <1>1, <2>2, <3>1, <3>2
  <2>4. Replayed(d) = SubSeq(d, 1, k)
      BY Zenon, <1>4 DEF Replayed
  <2> HIDE DEF k
  <2>5. \A i \in 1 .. k : d[i] \in Records /\ Readable(d[i])
      BY <1>1, <1>2, <2>3
  <2>6. /\ SubSeq(d, 1, k) \in Seq(Records) /\ Len(SubSeq(d, 1, k)) = k
        /\ \A i \in 1 .. k : SubSeq(d, 1, k)[i] = d[i]
    <3>1. /\ SubSeq(d, 1, k) \in Seq(Records)
          /\ Len(SubSeq(d, 1, k)) = IF 1 <= k THEN k - 1 + 1 ELSE 0
          /\ \A i \in 1 .. k - 1 + 1 : SubSeq(d, 1, k)[i] = d[1 + i - 1]
        BY <1>1, <2>3, <2>5, SubSeqProperties
    <3> QED BY <1>1, <2>3, <3>1
  <2>7. ~Readable(d[k + 1])
      BY Zenon, <2>3 DEF Readable
  <2> QED BY Zenon, <2>3, <2>4, <2>5, <2>6, <2>7
<1> QED BY Zenon, <1>3, <1>4

\* What is read are records, each the frame at its place.
LEMMA ReplayedType ==
    ASSUME NEW d \in Seq(Frames)
    PROVE  /\ Replayed(d) \in Seq(Records) /\ Len(Replayed(d)) \in 0 .. Len(d)
           /\ \A i \in 1 .. Len(Replayed(d)) : Replayed(d)[i] = d[i] /\ d[i] \in Records
<1>1. PICK k \in 0 .. Len(d) :
              /\ Replayed(d) \in Seq(Records) /\ Len(Replayed(d)) = k
              /\ \A i \in 1 .. k : Replayed(d)[i] = d[i]
    BY Zenon, ReplayedIs
<1> QED BY Zenon, <1>1, ElementOfSeq

\* What a log is recovered to is a state, if there is anything in it.
LEMMA LoadedType ==
    ASSUME NEW d \in Seq(Frames)
    PROVE  LoadStateWAL(d) \in States \cup {NoState}
<1> DEFINE recs == Replayed(d)
<1>1. recs \in Seq(Records)
    BY Zenon, ReplayedType
<1> HIDE DEF recs
<1>2. CASE recs # <<>>
  <2>1. Latest(recs) \in Records
      BY <1>1, <1>2, LenProperties, EmptySeq, ElementOfSeq DEF Latest
  <2>2. Merged(recs) \in Outs
      BY Zenon, <1>1, MergedType
  <2> QED BY Zenon, <1>2, <2>1, <2>2 DEF LoadStateWAL, recs, States, Records
<1> QED BY Zenon, <1>2 DEF LoadStateWAL, recs

\* The types of the log, the writer and the engine.
LogTypes ==
    /\ disk \in Seq(Frames) /\ buffer \in Seq(Records) /\ seq \in Nat
    /\ pc \in {"down", "step", "compact"} /\ handle \in {"none", "open", "closed", "sticky"}
    /\ next \in 0 .. N
    /\ engine \in [out : Outs, data : Outputs \cup {0}]
    /\ persisted \in States \cup {NoState}
    /\ handle \in {"none", "sticky"} => buffer = <<>>
    /\ pc = "down" => handle = "none"

(* The frames on their way to the file and in it.                          *)
Log == disk \o buffer

(* A log of which the frames behind some k are lost, the first of them in  *)
(* part perhaps.                                                           *)
CutFrom(lo, m, l) ==
    \E k \in lo .. Len(l) :
        /\ Len(m) = k \/ (Len(m) = k + 1 /\ m[k + 1] = Torn)
        /\ \A i \in 1 .. k : m[i] = l[i]

\* A log that is cut off after n frames.
LEMMA CutPrefix ==
    ASSUME NEW l \in Seq(Frames), NEW n \in 0 .. Len(l)
    PROVE  LET s == SubSeq(l, 1, n)
           IN  /\ s \in Seq(Frames) /\ Len(s) = n /\ \A i \in 1 .. n : s[i] = l[i]
               /\ s \o <<Torn>> \in Seq(Frames) /\ Len(s \o <<Torn>>) = n + 1
               /\ (s \o <<Torn>>)[n + 1] = Torn /\ \A i \in 1 .. n : (s \o <<Torn>>)[i] = l[i]
               /\ CutFrom(n, s, l) /\ CutFrom(n, s \o <<Torn>>, l)
<1> DEFINE s == SubSeq(l, 1, n)
           t == s \o <<Torn>>
<1>1. Len(l) \in Nat /\ \A i \in 1 .. n : l[i] \in Frames
    BY LenProperties, ElementOfSeq
<1>2. s \in Seq(Frames) /\ Len(s) = n /\ \A i \in 1 .. n : s[i] = l[i]
  <2>1. /\ s \in Seq(Frames) /\ Len(s) = IF 1 <= n THEN n - 1 + 1 ELSE 0
        /\ \A i \in 1 .. n - 1 + 1 : s[i] = l[1 + i - 1]
      BY <1>1, SubSeqProperties
  <2> QED BY <1>1, <2>1
<1> HIDE DEF s
<1>3. t = Append(s, Torn)
    BY <1>2, AppendIsConcat DEF Frames
<1>4. t \in Seq(Frames) /\ Len(t) = n + 1 /\ t[n + 1] = Torn /\ \A i \in 1 .. n : t[i] = l[i]
    BY <1>2, <1>3, AppendProperties DEF Frames
<1> HIDE DEF t
<1>5. CutFrom(n, s, l) /\ CutFrom(n, t, l)
    BY <1>1, <1>2, <1>4 DEF CutFrom
<1> QED BY Zenon, <1>2, <1>4, <1>5 DEF s, t

\* What is appended, and what is flushed, to a log of records.
LEMMA LogConcat ==
    ASSUME NEW d \in Seq(Frames), NEW b \in Seq(Records)
    PROVE  /\ b \in Seq(Frames) /\ d \o b \in Seq(Frames)
           /\ Len(d) \in Nat /\ Len(b) \in Nat /\ Len(d \o b) = Len(d) + Len(b)
           /\ \A i \in 1 .. Len(d) : (d \o b)[i] = d[i]
           /\ \A i \in 1 .. Len(b) : (d \o b)[Len(d) + i] = b[i]
<1>1. b \in Seq(Frames)
    BY Zenon, SeqMonotonic DEF Frames
<1>2. Len(d) \in Nat /\ Len(b) \in Nat
    BY Zenon, LenProperties
<1>3. /\ d \o b \in Seq(Frames) /\ Len(d \o b) = Len(d) + Len(b)
      /\ \A i \in 1 .. Len(d) + Len(b) : (d \o b)[i] = IF i <= Len(d) THEN d[i] ELSE b[i - Len(d)]
    BY Zenon, <1>1, ConcatProperties
<1>4. \A i \in 1 .. Len(b) : (d \o b)[Len(d) + i] = b[Len(d) + i - Len(d)]
    BY <1>2, <1>3
<1> QED BY <1>1, <1>2, <1>3, <1>4

\* What a write that fails leaves is a log cut off behind the file.
LEMMA PartialIsCut ==
    ASSUME NEW d \in Seq(Frames), NEW b \in Seq(Records), NEW m \in Partial(d, b)
    PROVE  m \in Seq(Frames) /\ CutFrom(Len(d), m, d \o b)
<1>1. PICK k \in 0 .. Len(b) - 1 :
          m = d \o SubSeq(b, 1, k) \/ m = (d \o SubSeq(b, 1, k)) \o <<Torn>>
    BY Zenon DEF Partial
<1>2. Len(d) \in Nat /\ Len(b) \in Nat /\ b \in Seq(Frames) /\ d \o b \in Seq(Frames)
      /\ Len(d \o b) = Len(d) + Len(b)
    BY Zenon, LogConcat
<1>3. SubSeq(b, 1, k) \in Seq(Frames) /\ Len(SubSeq(b, 1, k)) = k
      /\ \A i \in 1 .. k : SubSeq(b, 1, k)[i] = b[i]
    BY <1>2, CutPrefix
<1>6. Len(d) + k \in 0 .. Len(d \o b)
    BY <1>2
<1>4. d \o SubSeq(b, 1, k) = SubSeq(d \o b, 1, Len(d) + k)
  <2> DEFINE x == SubSeq(b, 1, k)
             y == SubSeq(d \o b, 1, Len(d) + k)
  <2>0. x \in Seq(Frames) /\ Len(x) = k
      BY Zenon, <1>3
  <2> HIDE DEF x
  <2>1. /\ d \o x \in Seq(Frames) /\ Len(d \o x) = Len(d) + k
        /\ \A i \in 1 .. Len(d) + k : (d \o x)[i] = IF i <= Len(d) THEN d[i] ELSE x[i - Len(d)]
      BY Zenon, <2>0, ConcatProperties
  <2>2. /\ y \in Seq(Frames) /\ Len(y) = Len(d) + k /\ \A i \in 1 .. Len(d) + k : y[i] = (d \o b)[i]
      BY Zenon, <1>2, <1>6, CutPrefix
  <2>3. \A i \in 1 .. Len(d) + k : (d \o b)[i] = IF i <= Len(d) THEN d[i] ELSE b[i - Len(d)]
      BY <1>2, ConcatProperties
  <2> HIDE DEF y
  <2>4. \A i \in 1 .. Len(d) + k : (d \o x)[i] = y[i]
      BY <1>2, <1>3, <2>1, <2>2, <2>3 DEF x
  <2> QED BY Zenon, <2>1, <2>2, <2>4, SeqEqual DEF x, y
<1>5. CutFrom(Len(d) + k, m, d \o b) /\ m \in Seq(Frames)
  <2> DEFINE l == d \o b
             n == Len(d) + k
             x == SubSeq(l, 1, n)
  <2>1. x \in Seq(Frames) /\ x \o <<Torn>> \in Seq(Frames)
        /\ CutFrom(n, x, l) /\ CutFrom(n, x \o <<Torn>>, l)
      BY Zenon, <1>2, <1>6, CutPrefix
  <2>2. m = x \/ m = x \o <<Torn>>
      BY Zenon, <1>1, <1>4
  <2> HIDE DEF x, l, n
  <2>3. CutFrom(n, m, l) /\ m \in Seq(Frames)
      BY Zenon, <2>1, <2>2
  <2> QED BY Zenon, <2>3 DEF l, n
<1>7. \A j \in (Len(d) + k) .. Len(d \o b) : j \in Len(d) .. Len(d \o b)
    BY <1>2
<1> QED BY Zenon, <1>5, <1>7 DEF CutFrom

\* The log with nothing buffered is the file.
LEMMA FlushedLog ==
    ASSUME NEW d \in Seq(Frames)
    PROVE  d \o <<>> = d
    BY Zenon, ConcatEmptySeq

\* The file is what is left of the log when the buffer is lost.
LEMMA DiskIsCut ==
    ASSUME NEW d \in Seq(Frames), NEW b \in Seq(Records)
    PROVE  CutFrom(Len(d), d, d \o b)
    BY LogConcat DEF CutFrom

\* A record is buffered behind everything else.
LEMMA LogAppend ==
    ASSUME NEW d \in Seq(Frames), NEW b \in Seq(Records), NEW r \in Records
    PROVE  d \o Append(b, r) = Append(d \o b, r) /\ Append(b, r) \in Seq(Records)
<1>1. b \in Seq(Frames) /\ d \o b \in Seq(Frames) /\ r \in Frames /\ <<r>> \in Seq(Frames)
    BY LogConcat DEF Frames
<1>2. Append(b, r) = b \o <<r>> /\ Append(d \o b, r) = (d \o b) \o <<r>>
    BY Zenon, <1>1, AppendIsConcat
<1>3. d \o (b \o <<r>>) = (d \o b) \o <<r>>
    BY <1>1, ConcatAssociative
<1> QED BY Zenon, <1>2, <1>3, AppendProperties

\* A flush that fails keeps the file and loses the rest of the buffer.
LEMMA FlushFailsEffect ==
    ASSUME LogTypes, NEW b \in Seq(Records), FlushFails(b)
    PROVE  /\ disk' \in Seq(Frames) /\ buffer' = <<>> /\ handle' = "sticky" /\ synced' = synced
           /\ CutFrom(Len(disk), Log', disk \o b)
           /\ handle # "open" => disk' = disk
<1> USE DEF LogTypes
<1>1. disk' \in Seq(Frames) /\ CutFrom(Len(disk), disk', disk \o b)
  <2>1. CASE disk' \in Partial(disk, b)
      BY Zenon, <2>1, PartialIsCut
  <2>2. CASE disk' = disk
      BY Zenon, <2>2, DiskIsCut
  <2> QED BY Zenon, <2>1, <2>2 DEF FlushFails
<1>2. buffer' = <<>> /\ handle' = "sticky" /\ synced' = synced /\ (handle # "open" => disk' = disk)
    BY Zenon DEF FlushFails
<1>3. Log' = disk'
    BY Zenon, <1>1, <1>2, FlushedLog DEF Log
<1> QED BY Zenon, <1>1, <1>2, <1>3

\* The record for a state is one that replay can read back.
LEMMA RecordType ==
    ASSUME LogTypes, NEW st \in States
    PROVE  WALRecord(st, seq + 1) \in Records
<1> DEFINE D == {t \in DOMAIN st.out : t \notin DOMAIN persisted.out \/ persisted.out[t] # st.out[t]}
<1>1. PICK E \in SUBSET Steps : st.out \in [E -> Outputs \cup {0}]
    BY Zenon DEF States, Outs
<1>2. D \in SUBSET Steps /\ DiffStepOutputs(persisted.out, st.out) \in [D -> Outputs \cup {0}]
    BY Zenon, <1>1 DEF DiffStepOutputs
<1> HIDE DEF D
<1>3. DiffStepOutputs(persisted.out, st.out) \in Outs /\ st.out \in Outs
    BY Zenon, <1>1, <1>2 DEF Outs
<1>4. seq + 1 \in Nat \ {0} /\ st.step \in Steps /\ st.data \in Outputs
    BY DEF LogTypes, States
<1> QED BY Zenon, <1>3, <1>4 DEF WALRecord, Records

\* A step that completes has a state, whatever became of its record.
LEMMA StateType ==
    ASSUME LogTypes, NEW v \in Outputs \cup {0}, next < N
    PROVE  /\ WithOutput(engine.out, next, v) \in Outs /\ next + 1 \in 0 .. N /\ next \in Steps
           /\ v \in Outputs => [step |-> next, data |-> v, out |-> WithOutput(engine.out, next, v)] \in States
<1>1. PICK E \in SUBSET Steps : engine.out \in [E -> Outputs \cup {0}]
    BY Zenon DEF LogTypes, Outs
<1>2. next \in Steps /\ next + 1 \in 0 .. N
    BY WALAssumption DEF LogTypes, Steps
<1>3. E \cup {next} \in SUBSET Steps
    BY Zenon, <1>2
<1>4. WithOutput(engine.out, next, v) \in [E \cup {next} -> Outputs \cup {0}]
    BY Zenon, <1>1 DEF WithOutput
<1>5. WithOutput(engine.out, next, v) \in Outs
    BY Zenon, <1>3, <1>4 DEF Outs
<1> QED BY Zenon, <1>2, <1>5 DEF States

\* The state that ExecuteStep hands to Save.
NextState(v) == [step |-> next, data |-> v, out |-> WithOutput(engine.out, next, v)]

\* ExecuteStep with a log: the record is appended, refused by a writer in
\* error, or lost with everything that could not be flushed.
LEMMA ExecuteEffect ==
    ASSUME LogTypes, NEW v \in Outputs, ExecuteStep(v), handle # "none"
    PROVE  LET st == NextState(v)
               rec == WALRecord(st, seq + 1)
           IN  /\ st \in States /\ rec \in Records /\ LogTypes'
               /\ persisted' = st /\ saved' = saved \cup {st} /\ seq' = seq + 1
               /\ engine' = [out |-> st.out, data |-> v] /\ next' = next + 1
               /\ \/ handle = "sticky" /\ handle' = "sticky" /\ Log' = Log /\ disk' = disk
                     /\ UNCHANGED <<synced, acked>>
                  \/ handle' = handle /\ handle \in {"open", "closed"} /\ Log' = Append(Log, rec)
                     /\ (handle = "closed" => disk' = disk)
                     /\ \/ UNCHANGED <<synced, acked>>
                        \/ /\ handle = "open" /\ synced' = Len(disk') /\ buffer' = <<>>
                           /\ acked' = st.step
                  \/ handle' = "sticky" /\ CutFrom(Len(disk), Log', Append(Log, rec))
                     /\ (handle # "open" => disk' = disk)
                     /\ UNCHANGED <<synced, acked>>
<1> DEFINE st == NextState(v)
           rec == WALRecord(st, seq + 1)
           b == Append(buffer, rec)
<1>1. st \in States /\ next + 1 \in 0 .. N
    BY Zenon, StateType DEF ExecuteStep, NextState
<1>2. rec \in Records
    BY Zenon, <1>1, RecordType
<1>3. /\ persisted' = st /\ saved' = saved \cup {st} /\ AppendRecord(st)
      /\ engine' = [out |-> st.out, data |-> v] /\ next' = next + 1
    BY Zenon DEF ExecuteStep, NextState
<1>4. engine' \in [out : Outs, data : Outputs \cup {0}]
    BY Zenon, <1>1, <1>3 DEF States
<1> HIDE DEF st
<1>5. seq' = seq + 1 /\ seq' \in Nat
    BY <1>3 DEF AppendRecord, LogTypes
<1>6. disk \o b = Append(Log, rec) /\ b \in Seq(Records) /\ b # <<>>
    BY <1>2, LogAppend, AppendProperties DEF LogTypes, Log
<1>7. pc' \in {"step", "compact"}
    BY Zenon, <1>3 DEF AppendRecord
<1>8. \/ /\ handle = "sticky" /\ UNCHANGED <<disk, synced, buffer, handle, acked>>
      \/ /\ handle # "sticky" /\ buffer' = b /\ UNCHANGED <<disk, synced, handle, acked>>
      \/ handle # "sticky" /\ FlushFails(b) /\ UNCHANGED acked
      \/ handle # "sticky" /\ FlushSucceeds(b) /\ (FsyncSucceeds(st) \/ UNCHANGED <<synced, acked>>)
    BY Zenon, <1>3 DEF AppendRecord, FsyncFails
<1> HIDE DEF rec, b
<1>9. CASE handle = "sticky" /\ UNCHANGED <<disk, synced, buffer, handle, acked>>
    BY Zenon, <1>1, <1>2, <1>3, <1>4, <1>5, <1>7, <1>9 DEF Log, LogTypes, st, rec
<1>10. CASE handle # "sticky" /\ buffer' = b /\ UNCHANGED <<disk, synced, handle, acked>>
  <2>1. Log' = Append(Log, rec)
      BY Zenon, <1>6, <1>10 DEF Log
  <2> QED BY Zenon, <1>1, <1>2, <1>3, <1>4, <1>5, <1>6, <1>7, <1>10, <2>1 DEF LogTypes, st, rec
<1>11. CASE handle # "sticky" /\ FlushFails(b) /\ UNCHANGED acked
  <2>1. /\ disk' \in Seq(Frames) /\ buffer' = <<>> /\ handle' = "sticky" /\ synced' = synced
        /\ CutFrom(Len(disk), Log', disk \o b)
        /\ handle # "open" => disk' = disk
      BY Zenon, <1>6, <1>11, FlushFailsEffect
  <2>2. buffer' \in Seq(Records)
      BY <2>1
  <2> QED BY Zenon, <1>1, <1>2, <1>3, <1>4, <1>5, <1>6, <1>7, <1>11, <2>1, <2>2 DEF LogTypes, st, rec
<1>12. CASE handle # "sticky" /\ FlushSucceeds(b) /\ (FsyncSucceeds(st) \/ UNCHANGED <<synced, acked>>)
  <2>1. handle = "open" /\ disk' = disk \o b /\ buffer' = <<>> /\ handle' = handle
      BY Zenon, <1>6, <1>12 DEF FlushSucceeds, LogTypes
  <2>2. disk' \in Seq(Frames) /\ buffer' \in Seq(Records)
    <3>1. disk \o b \in Seq(Frames)
        BY Zenon, <1>6, LogConcat DEF LogTypes
    <3> QED BY <2>1, <3>1
  <2>3. Log' = Append(Log, rec)
      BY Zenon, <1>6, <2>1, <2>2, FlushedLog DEF Log
  <2> QED BY Zenon, <1>1, <1>2, <1>3, <1>4, <1>5, <1>7, <1>12, <2>1, <2>2, <2>3 DEF LogTypes, st, rec, FsyncSucceeds
<1> QED BY Zenon, <1>8, <1>9, <1>10, <1>11, <1>12
\* syncLoop: what is buffered is flushed, or lost with a writer in error.
LEMMA SyncEffect ==
    ASSUME LogTypes, SyncLoop
    PROVE  /\ LogTypes' /\ UNCHANGED <<pc, seq, next, engine, persisted, saved>>
           /\ \/ handle' = handle /\ Log' = Log /\ handle \in {"open", "closed"}
                 /\ (handle = "closed" => disk' = disk)
                 /\ \/ UNCHANGED <<synced, acked>>
                    \/ /\ handle = "open" /\ synced' = Len(disk') /\ buffer' = <<>>
                       /\ acked' = persisted.step
              \/ handle' = "sticky" /\ CutFrom(Len(disk), Log', Log)
                 /\ (handle # "open" => disk' = disk)
                 /\ UNCHANGED <<synced, acked>>
<1>1. UNCHANGED <<pc, seq, next, engine, persisted, saved>> /\ pc # "down"
    BY Zenon DEF SyncLoop, runVars
<1>2. \/ FlushFails(buffer) /\ UNCHANGED acked
      \/ FlushSucceeds(buffer) /\ (FsyncSucceeds(persisted) \/ UNCHANGED <<synced, acked>>)
    BY Zenon DEF SyncLoop, FsyncFails
<1>3. CASE FlushFails(buffer) /\ UNCHANGED acked
  <2>1. buffer \in Seq(Records)
      BY Zenon DEF LogTypes
  <2>2. /\ disk' \in Seq(Frames) /\ buffer' = <<>> /\ handle' = "sticky" /\ synced' = synced
        /\ CutFrom(Len(disk), Log', disk \o buffer)
        /\ handle # "open" => disk' = disk
      BY Zenon, <1>3, <2>1, FlushFailsEffect
  <2>3. LogTypes'
      BY <1>1, <2>2 DEF LogTypes
  <2> QED BY Zenon, <1>1, <1>3, <2>2, <2>3 DEF Log
<1>4. CASE FlushSucceeds(buffer) /\ (FsyncSucceeds(persisted) \/ UNCHANGED <<synced, acked>>)
  <2>1. /\ disk' = disk \o buffer /\ buffer' = <<>> /\ handle' = handle
        /\ handle = "open" \/ (handle = "closed" /\ buffer = <<>>)
      BY Zenon, <1>4 DEF FlushSucceeds
  <2>2. disk \o buffer \in Seq(Frames)
      BY Zenon, LogConcat DEF LogTypes
  <2>3. Log' = Log
      BY Zenon, <2>1, <2>2, FlushedLog DEF Log
  <2>4. LogTypes'
      BY <1>1, <2>1, <2>2 DEF LogTypes
  <2>5. handle = "closed" => disk' = disk
      BY Zenon, <2>1, FlushedLog DEF LogTypes
  <2> QED BY Zenon, <1>1, <1>4, <2>1, <2>3, <2>4, <2>5 DEF FsyncSucceeds
<1> QED BY Zenon, <1>2, <1>3, <1>4

\* The snapshot of a log is a record with the state and the sequence number
\* of the log's end.
LEMMA CompactedType ==
    ASSUME NEW d \in Seq(Frames)
    PROVE  /\ Compacted(d) \in Seq(Records)
           /\ Replayed(d) = <<>> => Compacted(d) = <<>>
           /\ Replayed(d) # <<>> =>
                LET r == Latest(Replayed(d))
                    c == [r EXCEPT !.delta = FALSE, !.out = Merged(Replayed(d))]
                IN  /\ Compacted(d) = <<c>> /\ Compacted(d) = Append(<<>>, c) /\ c \in Records
                    /\ c.seq = r.seq /\ c.step = r.step /\ c.data = r.data /\ c.delta = FALSE
                    /\ c.out = Merged(Replayed(d))
<1> DEFINE recs == Replayed(d)
           c == [Latest(recs) EXCEPT !.delta = FALSE, !.out = Merged(recs)]
<1>1. recs \in Seq(Records)
    BY Zenon, ReplayedType
<1>2. Compacted(d) = IF recs = <<>> THEN <<>> ELSE <<c>>
    BY Zenon DEF Compacted
<1> HIDE DEF recs
<1>3. ASSUME recs # <<>>
      PROVE  /\ c \in Records /\ c.seq = Latest(recs).seq /\ c.step = Latest(recs).step
             /\ c.data = Latest(recs).data /\ c.delta = FALSE /\ c.out = Merged(recs)
  <2>1. Latest(recs) \in Records
      BY <1>1, <1>3, LenProperties, EmptySeq, ElementOfSeq DEF Latest
  <2>2. Merged(recs) \in Outs
      BY Zenon, <1>1, MergedType
  <2> QED BY Zenon, <2>1, <2>2 DEF Records
<1> HIDE DEF c
<1>4. recs # <<>> => <<c>> = Append(<<>>, c) /\ <<c>> \in Seq(Records)
    BY <1>3
<1> QED BY <1>2, <1>3, <1>4 DEF recs, c

\* MaybeCompact: the log stays as it is, is replaced by its snapshot, or
\* loses what could not be flushed.
LEMMA CompactEffect ==
    ASSUME LogTypes, MaybeCompact
    PROVE  /\ LogTypes' /\ pc' = "step" /\ UNCHANGED <<next, engine, persisted, saved>>
           /\ \/ Log' = Log /\ UNCHANGED <<synced, acked, seq>>
                 /\ \/ handle' = handle /\ disk' = disk
                    \/ handle = "open" /\ handle' = "closed"
              \/ handle' = "sticky" /\ CutFrom(Len(disk), Log', Log)
                 /\ (handle # "open" => disk' = disk)
                 /\ UNCHANGED <<synced, acked, seq>>
              \/ /\ handle = "open" /\ handle' \in {"open", "closed"}
                 /\ Log' = Compacted(Log) /\ disk' = Log' /\ buffer' = <<>>
                 /\ synced' = Len(disk') /\ acked' = persisted.step
                 /\ seq' = seq \/ seq' = IF Compacted(Log) = <<>> THEN seq ELSE Compacted(Log)[1].seq
<1>1. pc' = "step" /\ UNCHANGED <<next, engine, persisted, saved>>
    BY Zenon DEF MaybeCompact, runVars
<1>2. disk \in Seq(Frames) /\ buffer \in Seq(Records) /\ disk \o buffer \in Seq(Frames)
    BY Zenon, LogConcat DEF LogTypes
<1>3. CASE UNCHANGED <<logVars, acked>>
  <2>1. UNCHANGED <<disk, buffer, handle, synced, seq, acked>>
      BY Zenon, <1>3 DEF logVars
  <2>2. LogTypes' /\ Log' = Log
      BY Zenon, <1>1, <2>1 DEF LogTypes, Log
  <2> QED BY Zenon, <1>1, <2>1, <2>2
<1>4. CASE FlushFails(buffer) /\ UNCHANGED <<seq, acked>>
  <2>1. /\ disk' \in Seq(Frames) /\ buffer' = <<>> /\ handle' = "sticky" /\ synced' = synced
        /\ CutFrom(Len(disk), Log', disk \o buffer)
        /\ handle # "open" => disk' = disk
      BY Zenon, <1>2, <1>4, FlushFailsEffect
  <2>2. LogTypes'
      BY <1>1, <1>4, <2>1 DEF LogTypes
  <2> QED BY Zenon, <1>1, <1>4, <2>1, <2>2 DEF Log
<1>5. CASE /\ handle = "open" \/ (handle = "closed" /\ buffer = <<>>)
           /\ disk' = disk \o buffer /\ buffer' = <<>> /\ handle' = "closed"
           /\ UNCHANGED <<synced, seq, acked>>
  <2>1. LogTypes'
      BY <1>1, <1>2, <1>5 DEF LogTypes
  <2>2. Log' = Log
      BY Zenon, <1>2, <1>5, FlushedLog DEF Log
  <2>3. handle = "closed" => disk' = disk
      BY Zenon, <1>2, <1>5, FlushedLog
  <2> QED BY Zenon, <1>1, <1>5, <2>1, <2>2, <2>3
<1>6. CASE LET recs == Compacted(disk \o buffer)
           IN  /\ handle = "open" /\ disk' = recs /\ synced' = Len(recs) /\ buffer' = <<>>
               /\ acked' = persisted.step
               /\ \/ handle' = "open" /\ seq' = IF recs = <<>> THEN seq ELSE recs[1].seq
                  \/ handle' = "closed" /\ UNCHANGED seq
  <2> DEFINE recs == Compacted(disk \o buffer)
  <2>1. recs \in Seq(Records) /\ recs \in Seq(Frames)
      BY Zenon, <1>2, CompactedType, SeqMonotonic DEF Frames
  <2>2. recs # <<>> => recs[1].seq \in Nat
    <3>1. recs # <<>> => recs[1] \in Records
        BY <2>1, EmptySeq, ElementOfSeq
    <3> QED BY Zenon, <3>1 DEF Records
  <2>3. Log = disk \o buffer
      BY Zenon DEF Log
  <2> HIDE DEF recs
  <2>4. /\ handle = "open" /\ disk' = recs /\ synced' = Len(recs) /\ buffer' = <<>>
        /\ acked' = persisted.step /\ handle' \in {"open", "closed"}
        /\ seq' = seq \/ seq' = IF recs = <<>> THEN seq ELSE recs[1].seq
      BY Zenon, <1>6 DEF recs
  <2>5. LogTypes'
      BY <1>1, <2>1, <2>2, <2>4 DEF LogTypes
  <2>6. Log' = recs
      BY Zenon, <2>1, <2>4, FlushedLog DEF Log
  <2> QED BY Zenon, <1>1, <2>3, <2>4, <2>5, <2>6 DEF recs
<1>7. UNCHANGED <<logVars, acked>> \/ Compact
    BY Zenon DEF MaybeCompact
<1>8. ASSUME Compact
      PROVE  \/ FlushFails(buffer) /\ UNCHANGED <<seq, acked>>
             \/ /\ handle = "open" \/ (handle = "closed" /\ buffer = <<>>)
                /\ disk' = disk \o buffer /\ buffer' = <<>> /\ handle' = "closed"
                /\ UNCHANGED <<synced, seq, acked>>
             \/ LET recs == Compacted(disk \o buffer)
                IN  /\ handle = "open" /\ disk' = recs /\ synced' = Len(recs) /\ buffer' = <<>>
                    /\ acked' = persisted.step
                    /\ \/ handle' = "open" /\ seq' = IF recs = <<>> THEN seq ELSE recs[1].seq
                       \/ handle' = "closed" /\ UNCHANGED seq
    BY Zenon, <1>8 DEF Compact
<1> QED BY Zenon, <1>3, <1>4, <1>5, <1>6, <1>7, <1>8

\* A process has ended, and what it had in memory is gone.
Ended == /\ pc' = "down" /\ handle' = "none" /\ buffer' = <<>> /\ seq' = 0 /\ next' = 0
         /\ engine' = [out |-> <<>>, data |-> 0] /\ persisted' = NoState

\* A process that ended has the types of one that never started.
LEMMA EndedTypes ==
    ASSUME Ended, disk' \in Seq(Frames)
    PROVE  LogTypes' /\ Log' = disk'
<1>1. <<>> \in Outs
  <2>1. <<>> \in [{} -> Outputs \cup {0}]
      OBVIOUS
  <2> QED BY Zenon, <2>1 DEF Outs
<1>2. LogTypes'
    BY <1>1, WALAssumption DEF Ended, LogTypes
<1>3. Log' = disk'
    BY Zenon, FlushedLog DEF Log, Ended
<1> QED BY Zenon, <1>2, <1>3

\* Close: what is buffered is flushed, in part or not at all.
LEMMA CloseEffect ==
    ASSUME LogTypes, Close
    PROVE  /\ LogTypes' /\ Ended /\ UNCHANGED saved /\ Log' = disk'
           /\ \/ handle = "open" /\ disk' = Log /\ UNCHANGED <<synced, acked>>
              \/ handle = "open" /\ disk' = Log /\ synced' = Len(disk') /\ acked' = persisted.step
              \/ handle = "open" /\ CutFrom(Len(disk), disk', Log) /\ UNCHANGED <<synced, acked>>
              \/ handle # "open" /\ UNCHANGED <<disk, synced, acked>>
<1>1. Ended /\ UNCHANGED saved
    BY Zenon DEF Close, ProcessEnds, Ended
<1>2. disk \in Seq(Frames) /\ buffer \in Seq(Records) /\ Log \in Seq(Frames)
    BY Zenon, LogConcat DEF LogTypes, Log
<1>3. \/ handle = "open" /\ disk' = Log /\ UNCHANGED <<synced, acked>>
      \/ handle = "open" /\ disk' = Log /\ synced' = Len(disk') /\ acked' = persisted.step
      \/ handle = "open" /\ disk' \in Partial(disk, buffer) /\ UNCHANGED <<synced, acked>>
      \/ handle # "open" /\ UNCHANGED <<disk, synced, acked>>
    BY Zenon DEF Close, FsyncSucceeds, FsyncFails, Log
<1>4. disk' \in Partial(disk, buffer) => disk' \in Seq(Frames) /\ CutFrom(Len(disk), disk', Log)
    BY Zenon, <1>2, PartialIsCut DEF Log
<1>5. disk' \in Seq(Frames)
    BY Zenon, <1>2, <1>3, <1>4
<1>6. LogTypes' /\ Log' = disk'
    BY Zenon, <1>1, <1>5, EndedTypes
<1> QED BY Zenon, <1>1, <1>3, <1>4, <1>6

\* A crash takes the buffer, and what no fsync covered.
LEMMA CrashEffect ==
    ASSUME LogTypes, synced \in Nat, Crash
    PROVE  /\ LogTypes' /\ Ended /\ UNCHANGED <<saved, acked>> /\ Log' = disk' /\ synced' = Len(disk')
           /\ CutFrom(synced, disk', IF handle = "open" THEN Log ELSE disk)
<1> DEFINE recs == IF handle = "open" THEN disk \o buffer ELSE disk
<1>1. Ended /\ UNCHANGED <<saved, acked>> /\ synced' = Len(disk')
    BY Zenon DEF Crash, ProcessEnds, Ended
<1>2. recs \in Seq(Frames) /\ Len(recs) \in Nat
    BY Zenon, LogConcat DEF LogTypes
<1>3. PICK n \in synced .. Len(recs) :
          disk' = SubSeq(recs, 1, n) \/ disk' = SubSeq(recs, 1, n) \o <<Torn>>
    BY Zenon DEF Crash
<1> HIDE DEF recs
<1>4. n \in 0 .. Len(recs)
    BY <1>2
<1>5. disk' \in Seq(Frames) /\ CutFrom(n, disk', recs)
    BY Zenon, <1>2, <1>3, <1>4, CutPrefix
<1>6. CutFrom(synced, disk', recs)
    BY <1>2, <1>3, <1>5 DEF CutFrom
<1>7. LogTypes' /\ Log' = disk'
    BY Zenon, <1>1, <1>5, EndedTypes
<1> QED BY Zenon, <1>1, <1>6, <1>7 DEF recs, Log

(* Of the frames that can be read, each has a sequence number above those  *)
(* before it, and the writer's counter is not below any of them.           *)
ReadableTo(l, j) == \A i \in 1 .. j : Readable(l[i])

\* Of the frames that can be read, a later one has a larger number.
Increasing(l) ==
    \A j \in 1 .. Len(l) : ReadableTo(l, j) => \A i \in 1 .. j - 1 : l[i].seq < l[j].seq

\* The numbers in the log, and the writer's counter.
SeqInv ==
    /\ Increasing(Log)
    /\ handle # "none" => \A j \in 1 .. Len(Log) : ReadableTo(Log, j) => Log[j].seq <= seq

\* recoverSeq finds the last sequence number that was given out.
LEMMA RecoveredSeq ==
    ASSUME NEW d \in Seq(Frames), Increasing(d)
    PROVE  /\ RecoverSeq(d) \in Nat
           /\ \A j \in 1 .. Len(d) : ReadableTo(d, j) => d[j].seq <= RecoverSeq(d)
<1> DEFINE R == Replayed(d)
           T == {0} \cup {r.seq : r \in Range(R)}
<1>1. PICK k \in 0 .. Len(d) :
          /\ R \in Seq(Records) /\ Len(R) = k
          /\ \A i \in 1 .. k : R[i] = d[i] /\ Readable(d[i])
          /\ k < Len(d) => ~Readable(d[k + 1])
    BY Zenon, ReplayedIs
<1>2. Len(d) \in Nat
    BY Zenon, LenProperties
<1> HIDE DEF R
<1>3. T = {0} \cup {R[i].seq : i \in 1 .. k}
    BY <1>1, LenProperties DEF Range
<1>4. \A i \in 1 .. k : R[i].seq \in Nat
  <2>1. \A i \in 1 .. k : R[i] \in Records
      BY Zenon, <1>1, ElementOfSeq
  <2> QED BY Zenon, <2>1 DEF Records
<1>5. \E n \in Nat : T \in SUBSET (0 .. n)
  <2>1. CASE k = 0
    <3>1. T = {0} /\ {0} \in SUBSET (0 .. 0)
        BY <1>3, <2>1
    <3> HIDE DEF T
    <3> QED BY Zenon, <3>1
  <2>2. CASE k # 0
    <3>1. k \in 1 .. Len(d) /\ ReadableTo(d, k)
        BY <1>1, <1>2, <2>2 DEF ReadableTo
    <3>2. \A i \in 1 .. k - 1 : d[i].seq < d[k].seq
        BY Zenon, <3>1 DEF Increasing
    <3>3. \A i \in 1 .. k : R[i].seq <= R[k].seq
        BY <1>1, <1>2, <1>4, <3>1, <3>2
    <3>4. k \in 1 .. k /\ R[k].seq \in Nat
        BY <1>4, <3>1
    <3>5. \A i \in 1 .. k : R[i].seq \in 0 .. R[k].seq
        BY <1>4, <3>3, <3>4
    <3> HIDE DEF T
    <3>6. T \in SUBSET (0 .. R[k].seq)
        BY <1>3, <3>4, <3>5
    <3> QED BY Zenon, <3>4, <3>6
  <2> QED BY Zenon, <2>1, <2>2
<1>6. Max(T) \in T /\ \A y \in T : y <= Max(T)
    BY Zenon, <1>5, MaxIsGreatest
<1>7. RecoverSeq(d) = Max(T)
    BY Zenon DEF RecoverSeq, R
<1> HIDE DEF T
<1>8. RecoverSeq(d) \in Nat
    BY <1>3, <1>4, <1>6, <1>7
<1>9. ASSUME NEW j \in 1 .. Len(d), ReadableTo(d, j) PROVE d[j].seq <= RecoverSeq(d)
  <2>1. j \in 1 .. k
      BY <1>1, <1>2, <1>9 DEF ReadableTo
  <2>2. d[j].seq \in T
      BY Zenon, <1>1, <1>3, <2>1
  <2> QED BY Zenon, <1>6, <1>7, <2>2
<1> QED BY Zenon, <1>8, <1>9

\* Start: a process continues from the log, or runs without one.
LEMMA StartEffect ==
    ASSUME LogTypes, SeqInv, Start
    PROVE  /\ LogTypes' /\ UNCHANGED <<disk, synced, buffer, saved>> /\ Log = disk /\ Log' = disk
           /\ pc = "down" /\ pc' = "step"
           /\ handle' = "open" => seq' = RecoverSeq(disk)
           /\ \/ /\ handle' = "open" /\ acked' = acked
                 /\ persisted' = LoadStateWAL(disk) /\ next' = ResumeFrom(persisted')
                 /\ engine' = [out |-> persisted'.out, data |-> persisted'.data]
              \/ /\ handle' = "open" /\ acked' = -1 /\ persisted' = NoState /\ next' = 0
              \/ handle' = "none" /\ persisted' = NoState /\ acked' = acked
<1>1. /\ UNCHANGED <<disk, synced, buffer, saved>> /\ pc = "down" /\ pc' = "step"
      /\ disk \in Seq(Frames) /\ buffer = <<>> /\ buffer \in Seq(Records) /\ seq \in Nat
    BY Zenon DEF Start, LogTypes
<1>2. Log = disk /\ Log' = disk
    BY Zenon, <1>1, FlushedLog DEF Log
<1>3. /\ \/ handle' = "open" /\ seq' = RecoverSeq(disk)
         \/ handle' = "none" /\ seq' = seq
      /\ \/ /\ handle' = "open" /\ acked' = acked
            /\ persisted' = LoadStateWAL(disk) /\ next' = ResumeFrom(persisted')
            /\ engine' = [out |-> persisted'.out, data |-> persisted'.data]
         \/ /\ handle' = "open" /\ acked' = -1 /\ persisted' = NoState /\ next' = 0
            /\ engine' = [out |-> <<>>, data |-> 0]
         \/ /\ handle' = "none" /\ acked' = acked /\ persisted' = NoState /\ next' = 0
            /\ engine' = [out |-> <<>>, data |-> 0]
  <2>1. \/ handle' = "open" /\ seq' = RecoverSeq(disk)
        \/ handle' # "open" /\ seq' = seq
      BY Zenon DEF Start
  <2>2. \/ /\ handle' = "open" /\ acked' = acked
           /\ persisted' = LoadStateWAL(disk) /\ next' = ResumeFrom(persisted')
           /\ engine' = [out |-> persisted'.out, data |-> persisted'.data]
        \/ /\ handle' \in {"none", "open"} /\ persisted' = NoState /\ next' = 0
           /\ engine' = [out |-> <<>>, data |-> 0]
           /\ acked' = IF handle' = "open" THEN -1 ELSE acked
      BY Zenon DEF Start
  <2> QED BY <2>1, <2>2
<1>4. RecoverSeq(disk) \in Nat
    BY Zenon, <1>1, <1>2, RecoveredSeq DEF SeqInv
<1>5. LoadStateWAL(disk) \in States \cup {NoState}
    BY Zenon, <1>1, LoadedType
<1>6. <<>> \in Outs
  <2>1. <<>> \in [{} -> Outputs \cup {0}]
      OBVIOUS
  <2> QED BY Zenon, <2>1 DEF Outs
<1>7. \A st \in States \cup {NoState} :
          /\ st.out \in Outs /\ st.data \in Outputs \cup {0} /\ st.step + 1 \in Nat
          /\ ResumeFrom(st) \in 0 .. N
  <2> SUFFICES ASSUME NEW st \in States \cup {NoState}
               PROVE  /\ st.out \in Outs /\ st.data \in Outputs \cup {0} /\ st.step + 1 \in Nat
                      /\ ResumeFrom(st) \in 0 .. N
      BY Zenon
  <2>1. st.out \in Outs /\ st.data \in Outputs \cup {0} /\ st.step \in Int /\ st.step >= -1
      BY <1>6, WALAssumption DEF States, NoState, Steps
  <2>2. {st.step + 1, N} \in SUBSET Nat /\ {st.step + 1, N} # {}
      BY <2>1, WALAssumption
  <2>3. Min({st.step + 1, N}) \in {st.step + 1, N} /\ \A y \in {st.step + 1, N} : Min({st.step + 1, N}) <= y
      BY Zenon, <2>2, MinIsLeast
  <2>4. ResumeFrom(st) \in Nat /\ ResumeFrom(st) <= N
      BY Zenon, <2>2, <2>3 DEF ResumeFrom
  <2> QED BY <2>1, <2>4, WALAssumption
<1>8. LogTypes'
  <2>1. seq' \in Nat /\ handle' \in {"none", "open"}
      BY Zenon, <1>1, <1>3, <1>4
  <2>2. CASE /\ persisted' = LoadStateWAL(disk) /\ next' = ResumeFrom(persisted')
             /\ engine' = [out |-> persisted'.out, data |-> persisted'.data]
    <3>1. persisted' \in States \cup {NoState} /\ next' \in 0 .. N
        BY Zenon, <1>5, <1>7, <2>2
    <3>2. engine' \in [out : Outs, data : Outputs \cup {0}]
        BY Zenon, <1>7, <2>2, <3>1
    <3> QED BY Zenon, <1>1, <2>1, <3>1, <3>2 DEF LogTypes
  <2>3. CASE persisted' = NoState /\ next' = 0 /\ engine' = [out |-> <<>>, data |-> 0]
      BY <1>1, <1>6, <2>1, <2>3, WALAssumption DEF LogTypes
  <2> QED BY Zenon, <1>3, <2>2, <2>3
<1> QED BY Zenon, <1>1, <1>2, <1>3, <1>8
\* A log that is cut off has no frame to read that the whole log has not.
LEMMA CutReadable ==
    ASSUME NEW lo \in Nat, NEW m \in Seq(Frames), NEW l \in Seq(Frames), CutFrom(lo, m, l),
           NEW j \in 1 .. Len(m), ReadableTo(m, j)
    PROVE  j \in 1 .. Len(l) /\ ReadableTo(l, j) /\ \A i \in 1 .. j : m[i] = l[i]
<1>1. PICK k \in lo .. Len(l) :
          /\ Len(m) = k \/ (Len(m) = k + 1 /\ m[k + 1] = Torn)
          /\ \A i \in 1 .. k : m[i] = l[i]
    BY Zenon DEF CutFrom
<1>2. Len(l) \in Nat /\ Len(m) \in Nat
    BY Zenon, LenProperties
<1>3. j <= k
  <2>1. ASSUME j = k + 1, m[k + 1] = Torn PROVE FALSE
      BY <1>1, <1>2, <2>1 DEF ReadableTo, Readable
  <2> QED BY <1>1, <1>2, <2>1
<1> QED BY <1>1, <1>2, <1>3 DEF ReadableTo

\* Cutting a log off keeps its sequence numbers increasing.
LEMMA CutIncreasing ==
    ASSUME NEW lo \in Nat, NEW m \in Seq(Frames), NEW l \in Seq(Frames), CutFrom(lo, m, l),
           Increasing(l)
    PROVE  Increasing(m)
<1> SUFFICES ASSUME NEW j \in 1 .. Len(m), ReadableTo(m, j), NEW i \in 1 .. j - 1
             PROVE  m[i].seq < m[j].seq
    BY Zenon DEF Increasing
<1>1. j \in 1 .. Len(l) /\ ReadableTo(l, j) /\ \A n \in 1 .. j : m[n] = l[n]
    BY Zenon, CutReadable
<1>2. l[i].seq < l[j].seq
    BY Zenon, <1>1 DEF Increasing
<1> QED BY <1>1, <1>2

\* A record with the next sequence number keeps them increasing.
LEMMA AppendIncreasing ==
    ASSUME NEW l \in Seq(Frames), NEW r \in Records, NEW n \in Nat, r.seq = n + 1, Increasing(l),
           \A j \in 1 .. Len(l) : ReadableTo(l, j) => l[j].seq <= n
    PROVE  /\ Append(l, r) \in Seq(Frames) /\ Increasing(Append(l, r))
           /\ \A j \in 1 .. Len(Append(l, r)) : ReadableTo(Append(l, r), j) => Append(l, r)[j].seq <= n + 1
<1> DEFINE m == Append(l, r)
<1>1. /\ m \in Seq(Frames) /\ Len(m) = Len(l) + 1 /\ Len(l) \in Nat
      /\ \A i \in 1 .. Len(l) : m[i] = l[i]
      /\ m[Len(l) + 1] = r
    BY AppendProperties, LenProperties DEF Frames
<1> HIDE DEF m
<1>2. \A j \in 1 .. Len(l) : ReadableTo(m, j) => ReadableTo(l, j)
  <2> SUFFICES ASSUME NEW j \in 1 .. Len(l), ReadableTo(m, j) PROVE ReadableTo(l, j)
      BY Zenon
  <2>1. \A i \in 1 .. j : i \in 1 .. Len(l)
      BY <1>1
  <2> QED BY Zenon, <1>1, <2>1 DEF ReadableTo
<1>3. \A i \in 1 .. Len(l) : ReadableTo(m, Len(l) + 1) => ReadableTo(l, i)
  <2> SUFFICES ASSUME NEW j \in 1 .. Len(l), ReadableTo(m, Len(l) + 1) PROVE ReadableTo(l, j)
      BY Zenon
  <2>1. \A i \in 1 .. j : i \in 1 .. Len(l) /\ i \in 1 .. Len(l) + 1
      BY <1>1
  <2> QED BY Zenon, <1>1, <2>1 DEF ReadableTo
<1>4. \A i \in 1 .. Len(l) : ReadableTo(l, i) => l[i].seq \in Nat
  <2> SUFFICES ASSUME NEW i \in 1 .. Len(l), ReadableTo(l, i) PROVE l[i].seq \in Nat
      BY Zenon
  <2>1. l[i] \in Frames /\ Readable(l[i])
      BY <1>1, ElementOfSeq DEF ReadableTo
  <2> QED BY Zenon, <2>1 DEF Frames, Readable, Records
<1>5. ASSUME NEW j \in 1 .. Len(m), ReadableTo(m, j) PROVE m[j].seq <= n + 1
  <2>1. CASE j = Len(l) + 1
      BY <1>1, <2>1
  <2>2. CASE j \in 1 .. Len(l)
      BY <1>1, <1>2, <1>4, <1>5, <2>2
  <2> QED BY <1>1, <2>1, <2>2
<1>6. ASSUME NEW j \in 1 .. Len(m), ReadableTo(m, j), NEW i \in 1 .. j - 1 PROVE m[i].seq < m[j].seq
  <2>1. CASE j = Len(l) + 1
    <3>1. i \in 1 .. Len(l) /\ ReadableTo(l, i)
        BY <1>1, <1>3, <1>6, <2>1
    <3>2. l[i].seq \in Nat /\ l[i].seq <= n
        BY Zenon, <1>4, <3>1
    <3> QED BY <1>1, <2>1, <3>1, <3>2
  <2>2. CASE j \in 1 .. Len(l)
    <3>1. ReadableTo(l, j) /\ i \in 1 .. Len(l)
        BY <1>1, <1>2, <1>6, <2>2
    <3>2. l[i].seq < l[j].seq
        BY Zenon, <2>2, <3>1 DEF Increasing
    <3> QED BY Zenon, <1>1, <2>2, <3>1, <3>2
  <2> QED BY <1>1, <2>1, <2>2
<1>7. Increasing(m)
    BY Zenon, <1>6 DEF Increasing
<1> QED BY Zenon, <1>1, <1>5, <1>7 DEF m

\* The inductive invariant of the sequence numbers.
LogInv == LogTypes /\ SeqInv /\ synced \in Nat

\* There is no log before the first process.
LEMMA LogInit == Init => LogInv
<1> SUFFICES ASSUME Init PROVE LogInv
    BY Zenon
<1>1. <<>> \in Outs
  <2>1. <<>> \in [{} -> Outputs \cup {0}]
      OBVIOUS
  <2> QED BY Zenon, <2>1 DEF Outs
<1>2. LogTypes
    BY <1>1, WALAssumption DEF Init, LogTypes
<1>3. Log = <<>> /\ Len(Log) = 0
    BY FlushedLog DEF Init, Log
<1> QED BY <1>2, <1>3 DEF LogInv, SeqInv, Increasing, Init

\* The log is a sequence of frames.
LEMMA LogFrames == LogTypes => Log \in Seq(Frames) /\ Len(Log) \in Nat /\ Len(disk) \in Nat
    BY Zenon, LogConcat, LenProperties DEF LogTypes, Log

\* Every step keeps the types and the sequence numbers increasing.
LEMMA LogNext == LogInv /\ [Next]_vars => LogInv'
<1> SUFFICES ASSUME LogInv, [Next]_vars PROVE LogInv'
    BY Zenon
<1>0. LogTypes /\ SeqInv /\ synced \in Nat /\ seq \in Nat /\ Log \in Seq(Frames) /\ Len(disk) \in Nat
    BY Zenon, LogFrames DEF LogInv, LogTypes
<1>a. ASSUME LogTypes' PROVE Log' \in Seq(Frames) /\ Len(disk') \in Nat
  <2>1. disk' \in Seq(Frames) /\ buffer' \in Seq(Records)
      BY Zenon, <1>a DEF LogTypes
  <2> QED BY Zenon, <2>1, LogConcat, LenProperties DEF Log
<1>b. ASSUME LogTypes', synced' \in Nat, Log' = Log, handle' = handle \/ handle' = "none" \/ handle # "none",
             seq' = seq \/ seq' = seq + 1 \/ handle' = "none"
      PROVE  LogInv'
  <2>1. \A j \in 1 .. Len(Log) : ReadableTo(Log, j) => Log[j].seq \in Nat
    <3> SUFFICES ASSUME NEW j \in 1 .. Len(Log), ReadableTo(Log, j) PROVE Log[j].seq \in Nat
        BY Zenon
    <3>1. Log[j] \in Frames /\ Readable(Log[j])
        BY <1>0, LenProperties, ElementOfSeq DEF ReadableTo
    <3> QED BY Zenon, <3>1 DEF Frames, Readable, Records
  <2>2. Increasing(Log')
      BY Zenon, <1>0, <1>b DEF SeqInv
  <2>3. handle' # "none" => \A j \in 1 .. Len(Log) : ReadableTo(Log, j) => Log[j].seq <= seq'
      BY <1>0, <1>b, <2>1 DEF SeqInv
  <2> QED BY Zenon, <1>b, <2>2, <2>3 DEF LogInv, SeqInv
<1>c. ASSUME LogTypes', synced' \in Nat, NEW lo \in Nat, CutFrom(lo, Log', Log), handle # "none", seq' = seq
      PROVE  LogInv'
  <2>1. Increasing(Log')
      BY Zenon, <1>0, <1>a, <1>c, CutIncreasing DEF SeqInv
  <2>2. ASSUME NEW j \in 1 .. Len(Log'), ReadableTo(Log', j) PROVE Log'[j].seq <= seq'
    <3>1. j \in 1 .. Len(Log) /\ ReadableTo(Log, j) /\ \A i \in 1 .. j : Log'[i] = Log[i]
        BY <1>0, <1>a, <1>c, <2>2, CutReadable
    <3>2. Log'[j] = Log[j] /\ Log[j].seq <= seq
        BY <1>0, <1>c, <3>1 DEF SeqInv
    <3> QED BY Zenon, <1>c, <3>2
  <2> QED BY Zenon, <1>c, <2>1, <2>2 DEF LogInv, SeqInv
<1>d. ASSUME LogTypes', synced' \in Nat, handle' = "none", Increasing(Log') PROVE LogInv'
    BY Zenon, <1>d DEF LogInv, SeqInv
<1>1. CASE Start
  <2>1. /\ LogTypes' /\ UNCHANGED synced /\ Log = disk /\ Log' = disk
        /\ (handle' = "open" /\ seq' = RecoverSeq(disk)) \/ handle' = "none"
      BY Zenon, <1>0, <1>1, StartEffect
  <2>2. CASE handle' = "open" /\ seq' = RecoverSeq(disk)
    <3>1. Increasing(disk) /\ disk \in Seq(Frames)
        BY Zenon, <1>0, <2>1 DEF SeqInv
    <3>2. \A j \in 1 .. Len(disk) : ReadableTo(disk, j) => disk[j].seq <= RecoverSeq(disk)
        BY Zenon, <3>1, RecoveredSeq
    <3> QED BY Zenon, <1>0, <2>1, <2>2, <3>1, <3>2 DEF LogInv, SeqInv
  <2>3. CASE handle' = "none"
      BY Zenon, <1>0, <1>d, <2>1, <2>3 DEF SeqInv
  <2> QED BY Zenon, <2>1, <2>2, <2>3
<1>2. CASE SkipStep
  <2>1. UNCHANGED <<disk, buffer, handle, seq, synced, pc, persisted>> /\ next' = next + 1
        /\ engine' = [engine EXCEPT !.out = WithOutput(@, next, 0)] /\ next < N
      BY Zenon, <1>2 DEF SkipStep, logVars
  <2>2. WithOutput(engine.out, next, 0) \in Outs /\ next + 1 \in 0 .. N
      BY Zenon, <1>0, <2>1, StateType
  <2>3. engine' \in [out : Outs, data : Outputs \cup {0}]
      BY Zenon, <1>0, <2>1, <2>2 DEF LogTypes
  <2>4. LogTypes' /\ Log' = Log
      BY Zenon, <1>0, <2>1, <2>2, <2>3 DEF LogTypes, Log
  <2> QED BY Zenon, <1>0, <1>b, <2>1, <2>4
<1>3. ASSUME NEW v \in Outputs, ExecuteStep(v) PROVE LogInv'
  <2>1. CASE handle = "none"
    <3>1. UNCHANGED <<disk, buffer, handle, seq, synced, pc, persisted>> /\ next' = next + 1
          /\ engine' = [out |-> WithOutput(engine.out, next, v), data |-> v] /\ next < N
        BY Zenon, <1>3, <2>1 DEF ExecuteStep, logVars
    <3>2. WithOutput(engine.out, next, v) \in Outs /\ next + 1 \in 0 .. N
        BY Zenon, <1>0, <3>1, StateType
    <3>3. engine' \in [out : Outs, data : Outputs \cup {0}]
        BY Zenon, <3>1, <3>2
    <3>4. LogTypes' /\ Log' = Log
        BY Zenon, <1>0, <3>1, <3>2, <3>3 DEF LogTypes, Log
    <3> QED BY Zenon, <1>0, <1>b, <3>1, <3>4
  <2>2. CASE handle # "none"
    <3> DEFINE rec == WALRecord(NextState(v), seq + 1)
               new == Append(Log, rec)
    <3>1. /\ rec \in Records /\ LogTypes' /\ seq' = seq + 1
          /\ \/ handle' = handle /\ Log' = Log /\ synced' = synced
             \/ handle' = handle /\ Log' = new /\ (synced' = synced \/ synced' = Len(disk'))
             \/ handle' = "sticky" /\ CutFrom(Len(disk), Log', new) /\ synced' = synced
        BY Zenon, <1>0, <1>3, <2>2, ExecuteEffect
    <3>2. rec.seq = seq + 1
        BY Zenon DEF WALRecord
    <3>3. synced' \in Nat
        BY Zenon, <1>0, <1>a, <3>1
    <3> HIDE DEF rec
    <3>4. /\ new \in Seq(Frames) /\ Increasing(new)
          /\ \A j \in 1 .. Len(new) : ReadableTo(new, j) => new[j].seq <= seq'
        BY Zenon, <1>0, <2>2, <3>1, <3>2, AppendIncreasing DEF SeqInv
    <3> HIDE DEF new
    <3>5. CASE Log' = Log /\ handle' = handle
        BY Zenon, <1>b, <3>1, <3>3, <3>5
    <3>6. CASE Log' = new
        BY Zenon, <3>1, <3>3, <3>4, <3>6 DEF LogInv, SeqInv
    <3>7. CASE CutFrom(Len(disk), Log', new)
      <4>1. Increasing(Log')
          BY Zenon, <1>0, <1>a, <3>1, <3>4, <3>7, CutIncreasing
      <4>2. ASSUME NEW j \in 1 .. Len(Log'), ReadableTo(Log', j) PROVE Log'[j].seq <= seq'
        <5>1. j \in 1 .. Len(new) /\ ReadableTo(new, j) /\ \A i \in 1 .. j : Log'[i] = new[i]
            BY <1>0, <1>a, <3>1, <3>4, <3>7, <4>2, CutReadable
        <5>2. Log'[j] = new[j] /\ new[j].seq <= seq'
            BY <3>4, <5>1
        <5> QED BY Zenon, <5>2
      <4> QED BY Zenon, <3>1, <3>3, <4>1, <4>2 DEF LogInv, SeqInv
    <3> QED BY Zenon, <3>1, <3>5, <3>6, <3>7
  <2> QED BY Zenon, <2>1, <2>2
<1>4. CASE MaybeCompact
  <2>1. /\ LogTypes'
        /\ \/ Log' = Log /\ UNCHANGED <<synced, seq>> /\ (handle' = handle \/ handle = "open")
           \/ CutFrom(Len(disk), Log', Log) /\ UNCHANGED <<synced, seq>> /\ handle' = "sticky"
           \/ /\ handle = "open" /\ Log' = Compacted(Log) /\ synced' = Len(disk')
              /\ seq' = seq \/ seq' = IF Compacted(Log) = <<>> THEN seq ELSE Compacted(Log)[1].seq
      BY Zenon, <1>0, <1>4, CompactEffect
  <2>2. synced' \in Nat
      BY Zenon, <1>0, <1>a, <2>1
  <2>3. CASE Log' = Log /\ UNCHANGED <<synced, seq>> /\ (handle' = handle \/ handle = "open")
      BY Zenon, <1>b, <2>1, <2>2, <2>3
  <2>4. CASE CutFrom(Len(disk), Log', Log) /\ UNCHANGED <<synced, seq>> /\ handle' = "sticky"
    <3>1. handle # "none"
        BY Zenon, <1>4, <2>4 DEF MaybeCompact, Compact, FlushFails, logVars
    <3> QED BY Zenon, <1>0, <1>c, <2>1, <2>2, <2>4, <3>1
  <2>5. CASE /\ handle = "open" /\ Log' = Compacted(Log)
             /\ seq' = seq \/ seq' = IF Compacted(Log) = <<>> THEN seq ELSE Compacted(Log)[1].seq
    <3>1. CASE Replayed(Log) = <<>>
      <4>1. Log' = <<>>
          BY Zenon, <2>5, <3>1 DEF Compacted
      <4>2. Len(Log') = 0
          BY Zenon, <4>1
      <4> QED BY <2>1, <2>2, <4>1, <4>2 DEF LogInv, SeqInv, Increasing
    <3>2. CASE Replayed(Log) # <<>>
      <4> DEFINE R == Replayed(Log)
                 c == [Latest(R) EXCEPT !.delta = FALSE, !.out = Merged(R)]
      <4>1. Log' = <<c>> /\ c \in Records /\ c.seq = Latest(R).seq
          BY Zenon, <1>0, <2>5, <3>2, CompactedType
      <4>2. PICK k \in 0 .. Len(Log) :
                  /\ R \in Seq(Records) /\ Len(R) = k
                  /\ \A i \in 1 .. k : R[i] = Log[i] /\ Readable(Log[i])
          BY Zenon, <1>0, ReplayedIs
      <4> HIDE DEF R
      <4>3. k \in 1 .. Len(Log) /\ ReadableTo(Log, k)
        <5>1. k # 0
            BY Zenon, <3>2, <4>2, EmptySeq DEF R
        <5> QED BY <1>0, <4>2, <5>1 DEF ReadableTo
      <4>4. c.seq = Log[k].seq /\ c.seq <= seq
          BY <1>0, <2>5, <4>1, <4>2, <4>3 DEF Latest, SeqInv
      <4> HIDE DEF c
      <4>5. Len(<<c>>) = 1 /\ <<c>>[1] = c /\ c.seq \in Nat
          BY Zenon, <4>1 DEF Records
      <4>6. c.seq <= seq'
          BY <2>5, <4>1, <4>4, <4>5
      <4> QED BY <2>1, <2>2, <4>1, <4>5, <4>6 DEF LogInv, SeqInv, Increasing
    <3> QED BY Zenon, <3>1, <3>2
  <2> QED BY Zenon, <2>1, <2>3, <2>4, <2>5
<1>5. CASE SyncLoop
  <2>1. /\ LogTypes' /\ UNCHANGED seq /\ handle # "none"
        /\ \/ handle' = handle /\ Log' = Log /\ (synced' = synced \/ synced' = Len(disk'))
           \/ handle' = "sticky" /\ CutFrom(Len(disk), Log', Log) /\ synced' = synced
      BY Zenon, <1>0, <1>5, SyncEffect DEF SyncLoop
  <2>2. synced' \in Nat
      BY Zenon, <1>0, <1>a, <2>1
  <2> QED BY Zenon, <1>0, <1>b, <1>c, <2>1, <2>2
<1>6. CASE Close
  <2>1. /\ LogTypes' /\ handle' = "none" /\ Log' = disk' /\ (synced' = synced \/ synced' = Len(disk'))
        /\ Log' = Log \/ CutFrom(Len(disk), Log', Log) \/ disk' = disk
      BY Zenon, <1>0, <1>6, CloseEffect DEF Ended
  <2>2. synced' \in Nat
      BY Zenon, <1>0, <1>a, <2>1
  <2>3. Log' = Log \/ CutFrom(Len(disk), Log', Log)
      BY Zenon, <1>0, <2>1, DiskIsCut DEF Log, LogTypes
  <2>4. Increasing(Log')
      BY Zenon, <1>0, <1>a, <2>1, <2>3, CutIncreasing DEF SeqInv
  <2> QED BY Zenon, <1>d, <2>1, <2>2, <2>4
<1>7. CASE Crash
  <2>1. /\ LogTypes' /\ handle' = "none" /\ Log' = disk' /\ synced' = Len(disk')
        /\ CutFrom(synced, Log', Log) \/ CutFrom(synced, Log', disk)
      BY Zenon, <1>0, <1>7, CrashEffect DEF Ended
  <2>2. synced' \in Nat
      BY Zenon, <1>a, <2>1
  <2>3. Increasing(disk)
      BY Zenon, <1>0, DiskIsCut, CutIncreasing DEF Log, LogTypes, SeqInv
  <2>4. Increasing(Log')
      BY Zenon, <1>0, <1>a, <2>1, <2>3, CutIncreasing DEF SeqInv, LogTypes
  <2> QED BY Zenon, <1>d, <2>1, <2>2, <2>4
<1>8. CASE UNCHANGED vars
  <2>1. UNCHANGED <<disk, buffer, handle, seq, synced, pc, persisted, next, engine>>
      BY Zenon, <1>8 DEF vars, logVars, runVars
  <2>2. LogTypes' /\ Log' = Log
      BY Zenon, <1>0, <2>1 DEF LogTypes, Log
  <2> QED BY Zenon, <1>0, <1>b, <2>1, <2>2
<1> QED BY Zenon, <1>1, <1>2, <1>3, <1>4, <1>5, <1>6, <1>7, <1>8 DEF Next, Finished

\* The records ReplayWAL returns are in the order of their sequence numbers,
\* whatever crashes, restarts, failed writes and compactions came before.
THEOREM SequenceNumbersIncrease == Spec => []SeqIncreases
<1>1. ASSUME LogInv PROVE SeqIncreases
  <2>1. LogTypes /\ Increasing(Log) /\ Log \in Seq(Frames)
      BY Zenon, <1>1, LogFrames DEF LogInv, SeqInv
  <2> DEFINE R == Replayed(Log)
  <2>2. PICK k \in 0 .. Len(Log) :
              R \in Seq(Records) /\ Len(R) = k /\ \A i \in 1 .. k : R[i] = Log[i] /\ Readable(Log[i])
      BY Zenon, <2>1, ReplayedIs
  <2> HIDE DEF R
  <2>3. Len(Log) \in Nat /\ DOMAIN R = 1 .. k
      BY Zenon, <2>1, <2>2, LenProperties
  <2>4. ASSUME NEW i \in DOMAIN R, NEW j \in DOMAIN R, i < j PROVE R[i].seq < R[j].seq
    <3>1. j \in 1 .. Len(Log) /\ i \in 1 .. j - 1 /\ R[i] = Log[i] /\ R[j] = Log[j]
        BY <2>2, <2>3, <2>4
    <3>2. ReadableTo(Log, j)
        BY <2>2, <2>3 DEF ReadableTo
    <3> QED BY Zenon, <2>1, <3>1, <3>2 DEF Increasing
  <2> QED BY Zenon, <2>4 DEF SeqIncreases, R, Log
<1> QED BY <1>1, LogInit, LogNext, PTL DEF Spec
-----------------------------------------------------------------------------
(* The state that a prefix of the log holds.                               *)

\* The state that the first n records of a log hold.
StateAt(l, n) ==
    IF n = 0 THEN NoState
    ELSE [step |-> l[n].step, data |-> l[n].data, out |-> Merged(SubSeq(l, 1, n))]

\* No frame behind the n-th can be read.
Longest(l, n) == n = Len(l) \/ ~Readable(l[n + 1])

\* LoadStateWAL rebuilds the state at the end of the longest prefix it can read.
LEMMA LoadedAt ==
    ASSUME NEW d \in Seq(Frames)
    PROVE  \E k \in 0 .. Len(d) :
              /\ ReadableTo(d, k) /\ Longest(d, k) /\ LoadStateWAL(d) = StateAt(d, k)
              /\ Replayed(d) = SubSeq(d, 1, k) /\ (Replayed(d) = <<>> <=> k = 0)
<1> DEFINE R == Replayed(d)
<1>1. PICK k \in 0 .. Len(d) :
            /\ R \in Seq(Records) /\ Len(R) = k /\ \A i \in 1 .. k : R[i] = d[i] /\ Readable(d[i])
            /\ k < Len(d) => ~Readable(d[k + 1])
    BY Zenon, ReplayedIs
<1>2. Len(d) \in Nat
    BY Zenon, LenProperties
<1>3. SubSeq(d, 1, k) \in Seq(Frames) /\ Len(SubSeq(d, 1, k)) = k
      /\ \A i \in 1 .. k : SubSeq(d, 1, k)[i] = d[i]
    BY Zenon, CutPrefix
<1>4. R \in Seq(Frames) 
    BY <1>1 DEF Frames
<1> HIDE DEF R
<1>5. R = SubSeq(d, 1, k)
    BY <1>1, <1>3, <1>4, SeqEqual
<1>6. R = <<>> <=> k = 0
    BY Zenon, <1>1, <1>4, EmptySeq
<1>7. ReadableTo(d, k) /\ Longest(d, k)
    BY <1>1, <1>2 DEF ReadableTo, Longest
<1>8. LoadStateWAL(d) = StateAt(d, k)
  <2>1. CASE k = 0
      BY Zenon, <1>6, <2>1 DEF LoadStateWAL, StateAt, R
  <2>2. CASE k # 0
    <3>1. Latest(R) = d[k] /\ R # <<>>
        BY <1>1, <1>6, <2>2 DEF Latest
    <3> QED BY Zenon, <1>5, <2>2, <3>1 DEF LoadStateWAL, StateAt, R
  <2> QED BY Zenon, <2>1, <2>2
<1> QED BY Zenon, <1>5, <1>6, <1>7, <1>8 DEF R

\* Two logs that agree on a prefix hold the same state there.
LEMMA SameState ==
    ASSUME NEW l \in Seq(Frames), NEW m \in Seq(Frames), NEW n \in Nat, n <= Len(l), n <= Len(m),
           \A i \in 1 .. n : m[i] = l[i]
    PROVE  StateAt(m, n) = StateAt(l, n)
<1>0. n \in 0 .. Len(l) /\ n \in 0 .. Len(m)
    BY LenProperties
<1>1. /\ SubSeq(l, 1, n) \in Seq(Frames) /\ Len(SubSeq(l, 1, n)) = n
      /\ \A i \in 1 .. n : SubSeq(l, 1, n)[i] = l[i]
    BY Zenon, <1>0, CutPrefix
<1>2. /\ SubSeq(m, 1, n) \in Seq(Frames) /\ Len(SubSeq(m, 1, n)) = n
      /\ \A i \in 1 .. n : SubSeq(m, 1, n)[i] = m[i]
    BY Zenon, <1>0, CutPrefix
<1>3. SubSeq(m, 1, n) = SubSeq(l, 1, n)
    BY Zenon, <1>1, <1>2, SeqEqual
<1>4. n # 0 => m[n] = l[n]
    OBVIOUS
<1> QED BY ZenonT(40), <1>3, <1>4 DEF StateAt

\* A log of records that all fit is read whole.
LEMMA WholeLog ==
    ASSUME RecordsFit, NEW w \in Seq(Records)
    PROVE  /\ w \in Seq(Frames) /\ \A n \in 0 .. Len(w) : ReadableTo(w, n)
           /\ \A n \in 0 .. Len(w) : Longest(w, n) => n = Len(w)
           /\ Replayed(w) = w /\ LoadStateWAL(w) = StateAt(w, Len(w))
<1>1. w \in Seq(Frames) /\ Len(w) \in Nat
    BY LenProperties DEF Frames
<1>2. \A i \in 1 .. Len(w) : Readable(w[i])
  <2> SUFFICES ASSUME NEW i \in 1 .. Len(w) PROVE Readable(w[i])
      BY Zenon
  <2>1. w[i] \in Records
      BY Zenon, ElementOfSeq
  <2> QED BY Zenon, <2>1, TornIsNoRecord DEF Readable, RecordsFit
<1>3. \A n \in 0 .. Len(w) : ReadableTo(w, n) /\ (Longest(w, n) => n = Len(w))
    BY <1>1, <1>2 DEF ReadableTo, Longest
<1>4. PICK k \in 0 .. Len(w) :
            Longest(w, k) /\ LoadStateWAL(w) = StateAt(w, k) /\ Replayed(w) = SubSeq(w, 1, k)
    BY Zenon, <1>1, LoadedAt
<1>5. k = Len(w)
    BY Zenon, <1>3, <1>4
<1>6. Len(w) \in 0 .. Len(w)
    BY <1>1
<1>7. SubSeq(w, 1, k) \in Seq(Frames) /\ Len(SubSeq(w, 1, k)) = k
      /\ \A i \in 1 .. k : SubSeq(w, 1, k)[i] = w[i]
    BY Zenon, <1>1, CutPrefix
<1>8. Replayed(w) = w
    BY Zenon, <1>1, <1>4, <1>5, <1>7, SeqEqual
<1> QED BY Zenon, <1>1, <1>3, <1>4, <1>5, <1>8

\* The snapshot that replaces a log loads to the state the log loaded to.
LEMMA CompactedLoads ==
    ASSUME RecordsFit, NEW d \in Seq(Frames)
    PROVE  LoadStateWAL(Compacted(d)) = LoadStateWAL(d)
<1> DEFINE R == Replayed(d)
           c == [Latest(R) EXCEPT !.delta = FALSE, !.out = Merged(R)]
<1>1. CASE R = <<>>
  <2>1. Compacted(d) = <<>> /\ LoadStateWAL(d) = NoState
      BY Zenon, <1>1 DEF Compacted, LoadStateWAL
  <2>2. <<>> \in Seq(Records) /\ Len(<<>>) = 0
      OBVIOUS
  <2>3. LoadStateWAL(<<>>) = StateAt(<<>>, 0)
      BY Zenon, <2>2, WholeLog
  <2> QED BY Zenon, <2>1, <2>3 DEF StateAt
<1>2. CASE R # <<>>
  <2>1. /\ Compacted(d) = Append(<<>>, c) /\ c \in Records /\ c.delta = FALSE
        /\ c.step = Latest(R).step /\ c.data = Latest(R).data /\ c.out = Merged(R)
      BY Zenon, <1>2, CompactedType
  <2>2. LoadStateWAL(d) = [step |-> Latest(R).step, data |-> Latest(R).data, out |-> Merged(R)]
      BY Zenon, <1>2 DEF LoadStateWAL
  <2> HIDE DEF c, R
  <2>3. /\ Append(<<>>, c) \in Seq(Records) /\ Len(Append(<<>>, c)) = 1 /\ Append(<<>>, c)[1] = c
        /\ <<>> \in Seq(Records)
      BY <2>1
  <2>4. Merged(Append(<<>>, c)) = c.out
      BY Zenon, <2>1, <2>3, MergeSnapshot
  <2>5. Replayed(Append(<<>>, c)) = Append(<<>>, c)
      BY Zenon, <2>3, WholeLog
  <2>7. Append(<<>>, c) # <<>>
      BY <2>3, EmptySeq
  <2>6. Latest(Append(<<>>, c)) = c
      BY Zenon, <2>3 DEF Latest
  <2> QED BY Zenon, <2>1, <2>2, <2>4, <2>5, <2>6, <2>7 DEF LoadStateWAL
<1> QED BY Zenon, <1>1, <1>2

\* A compaction that gets to the end, or that fails once the buffered records
\* are in the file, changes nothing that recovery can see.
THEOREM CompactionIsInvisible ==
    ASSUME RecordsFit
    PROVE  Spec => CompactionPreserves
<1>1. ASSUME LogInv, [Next]_vars, pc = "compact", pc' = "step", handle' # "sticky"
      PROVE  LoadStateWAL(disk' \o buffer') = LoadStateWAL(disk \o buffer)
  <2>1. MaybeCompact
    <3>1. ~(UNCHANGED pc)
        BY Zenon, <1>1
    <3>2. \A v \in Outputs : ~ExecuteStep(v)
        BY Zenon, <1>1 DEF ExecuteStep
    <3> QED BY Zenon, <1>1, <3>1, <3>2 DEF Next, Start, SkipStep, SyncLoop, Close, Crash, Finished, ProcessEnds, vars
  <2>2. LogTypes /\ Log \in Seq(Frames)
      BY Zenon, <1>1, LogFrames DEF LogInv
  <2>3. Log' = Log \/ Log' = Compacted(Log)
      BY Zenon, <1>1, <2>1, <2>2, CompactEffect
  <2>4. LoadStateWAL(Log') = LoadStateWAL(Log)
      BY Zenon, <2>2, <2>3, CompactedLoads
  <2> QED BY Zenon, <2>4 DEF Log
<1>2. LogInv /\ [Next]_vars
      => [pc = "compact" /\ pc' = "step" /\ handle' # "sticky"
             => LoadStateWAL(disk' \o buffer') = LoadStateWAL(disk \o buffer)]_vars
    BY Zenon, <1>1
<1> QED BY <1>2, LogInit, LogNext, PTL DEF Spec, CompactionPreserves

(* What a restart would find: a writer that has failed, or whose file was  *)
(* closed, keeps its records to itself.                                    *)
Full == IF handle = "open" THEN Log ELSE disk

(* Every prefix that can be read holds a state that was saved.             *)
AllSaved(l, S) == \A n \in 1 .. Len(l) : ReadableTo(l, n) => StateAt(l, n) \in S

\* What is in the log was saved, and the log of an open writer that has a
\* baseline holds it.
SavedInv ==
    /\ AllSaved(Full, saved)
    /\ handle = "open" =>
           /\ persisted = NoState \/ LoadStateWAL(Log) = persisted
           /\ DOMAIN persisted.out \subseteq DOMAIN engine.out

(* A prefix that reaches the fsynced part, or that is all there is to      *)
(* read, ends at or behind the step that was acknowledged.                 *)
AllAcked(l, low, a) ==
    \A n \in 0 .. Len(l) :
        ReadableTo(l, n) /\ (n >= low \/ Longest(l, n)) => StateAt(l, n).step >= a

\* What was acknowledged is in the fsynced part.
AckInv ==
    /\ acked \in Int /\ synced <= Len(disk)
    /\ AllAcked(Full, synced, acked)
    /\ handle = "open" => persisted.step < next /\ acked <= persisted.step

\* The inductive invariant of recovery.
RealInv == LogInv /\ SavedInv /\ AckInv

\* A prefix that can be read of a log that was cut off is one of the log.
LEMMA CutState ==
    ASSUME NEW lo \in Nat, NEW m \in Seq(Frames), NEW l \in Seq(Frames), CutFrom(lo, m, l),
           NEW n \in 0 .. Len(m), ReadableTo(m, n)
    PROVE  /\ n \in 0 .. Len(l) /\ ReadableTo(l, n) /\ StateAt(m, n) = StateAt(l, n)
           /\ Longest(m, n) => n >= lo \/ Longest(l, n)
<1>0. Len(l) \in Nat /\ Len(m) \in Nat
    BY Zenon, LenProperties
<1>1. PICK k \in lo .. Len(l) : /\ Len(m) = k \/ (Len(m) = k + 1 /\ m[k + 1] = Torn)
                                /\ \A i \in 1 .. k : m[i] = l[i]
    BY Zenon DEF CutFrom
<1>2. n <= k
    BY <1>0, <1>1 DEF ReadableTo, Readable
<1>3. n \in 0 .. Len(l) /\ ReadableTo(l, n) /\ \A i \in 1 .. n : m[i] = l[i]
    BY <1>0, <1>1, <1>2 DEF ReadableTo
<1>4. StateAt(m, n) = StateAt(l, n)
    BY <1>0, <1>3, SameState
<1>5. ASSUME Longest(m, n), ~(n >= lo) PROVE Longest(l, n)
  <2>1. n < k /\ n + 1 \in 1 .. k /\ n # Len(m)
      BY <1>0, <1>1, <1>2, <1>5
  <2> QED BY Zenon, <1>1, <1>5, <2>1 DEF Longest
<1> QED BY Zenon, <1>3, <1>4, <1>5

\* So what holds of its prefixes still holds when a log is cut off behind its
\* fsynced part.
LEMMA CutKeeps ==
    ASSUME NEW lo \in Nat, NEW m \in Seq(Frames), NEW l \in Seq(Frames), CutFrom(lo, m, l)
    PROVE  /\ \A S : AllSaved(l, S) => AllSaved(m, S)
           /\ \A low, low2 \in Nat, a \in Int :
                 low <= lo /\ low <= low2 /\ AllAcked(l, low, a) => AllAcked(m, low2, a)
<1>0. Len(m) \in Nat
    BY Zenon, LenProperties
<1>1. ASSUME NEW S, AllSaved(l, S), NEW n \in 1 .. Len(m), ReadableTo(m, n) PROVE StateAt(m, n) \in S
  <2>1. n \in 0 .. Len(l) /\ ReadableTo(l, n) /\ StateAt(m, n) = StateAt(l, n)
      BY <1>0, <1>1, CutState
  <2> QED BY <1>1, <2>1 DEF AllSaved
<1>2. ASSUME NEW low \in Nat, NEW low2 \in Nat, NEW a \in Int, low <= lo, low <= low2,
             AllAcked(l, low, a), NEW n \in 0 .. Len(m), ReadableTo(m, n), n >= low2 \/ Longest(m, n)
      PROVE  StateAt(m, n).step >= a
  <2>1. /\ n \in 0 .. Len(l) /\ ReadableTo(l, n) /\ StateAt(m, n) = StateAt(l, n)
        /\ Longest(m, n) => n >= lo \/ Longest(l, n)
      BY Zenon, <1>2, CutState
  <2>2. n >= low \/ Longest(l, n)
      BY <1>0, <1>2, <2>1
  <2> QED BY Zenon, <1>2, <2>1, <2>2 DEF AllAcked
<1> QED BY Zenon, <1>1, <1>2 DEF AllSaved, AllAcked

\* A log is itself cut off after its last frame.
LEMMA CutWhole ==
    ASSUME NEW l \in Seq(Frames)
    PROVE  CutFrom(Len(l), l, l)
    BY LenProperties DEF CutFrom

\* A log with a record more.
LEMMA AppendState ==
    ASSUME NEW w \in Seq(Records), NEW r \in Records
    PROVE  /\ Append(w, r) \in Seq(Records) /\ Len(Append(w, r)) = Len(w) + 1 /\ Len(w) \in Nat
           /\ \A n \in 0 .. Len(w) : StateAt(Append(w, r), n) = StateAt(w, n)
           /\ StateAt(Append(w, r), Len(w) + 1)
                = [step |-> r.step, data |-> r.data, out |-> Merged(Append(w, r))]
<1> DEFINE v == Append(w, r)
<1>1. /\ v \in Seq(Records) /\ Len(v) = Len(w) + 1 /\ Len(w) \in Nat
      /\ \A i \in 1 .. Len(w) : v[i] = w[i]
      /\ v[Len(w) + 1] = r
    BY AppendProperties, LenProperties
<1>2. v \in Seq(Frames) /\ w \in Seq(Frames)
    BY <1>1 DEF Frames
<1> HIDE DEF v
<1>3. \A n \in 0 .. Len(w) : StateAt(v, n) = StateAt(w, n)
    BY <1>1, <1>2, SameState
<1>4. /\ SubSeq(v, 1, Len(v)) \in Seq(Frames) /\ Len(SubSeq(v, 1, Len(v))) = Len(v)
      /\ \A i \in 1 .. Len(v) : SubSeq(v, 1, Len(v))[i] = v[i]
    BY <1>1, <1>2, CutPrefix
<1>5. SubSeq(v, 1, Len(v)) = v
    BY Zenon, <1>2, <1>4, SeqEqual
<1>6. StateAt(v, Len(w) + 1) = [step |-> r.step, data |-> r.data, out |-> Merged(v)]
  <2>1. Len(w) + 1 # 0 /\ SubSeq(v, 1, Len(w) + 1) = v
      BY <1>1, <1>5
  <2> QED BY Zenon, <1>1, <2>1 DEF StateAt
<1> QED BY Zenon, <1>1, <1>3, <1>6 DEF v

\* No frame of a log that is written to is torn.
TailIntact ==
    pc = "down" \/ handle \in {"none", "sticky"} \/ \A i \in DOMAIN disk : disk[i] # Torn

\* A log without a torn frame is a sequence of records.
LEMMA IntactRecords ==
    ASSUME NEW d \in Seq(Frames)
    PROVE  (\A i \in DOMAIN d : d[i] # Torn) <=> d \in Seq(Records)
<1>1. DOMAIN d = 1 .. Len(d) /\ Len(d) \in Nat
    BY Zenon, LenProperties
<1>2. ASSUME \A i \in DOMAIN d : d[i] # Torn PROVE d \in Seq(Records)
  <2>1. \A i \in 1 .. Len(d) : d[i] \in Records
      BY <1>1, <1>2, ElementOfSeq DEF Frames
  <2>2. d \in [1 .. Len(d) -> Records]
      BY <1>1, <2>1
  <2> QED BY Zenon, <1>1, <2>2, SeqDef
<1>3. ASSUME d \in Seq(Records) PROVE \A i \in DOMAIN d : d[i] # Torn
  <2>1. \A i \in DOMAIN d : d[i] \in Records
      BY Zenon, <1>1, <1>3, ElementOfSeq
  <2> QED BY Zenon, <2>1, TornIsNoRecord
<1> QED BY Zenon, <1>2, <1>3

\* The log of a writer that works, over an intact tail, is a sequence of records.
LEMMA OpenLog ==
    ASSUME LogTypes, TailIntact, handle = "open"
    PROVE  Log \in Seq(Records)
<1>1. \A i \in DOMAIN disk : disk[i] # Torn
    BY Zenon DEF TailIntact, LogTypes
<1>2. disk \in Seq(Records) /\ buffer \in Seq(Records)
    BY Zenon, <1>1, IntactRecords DEF LogTypes
<1> QED BY Zenon, <1>2, ConcatProperties DEF Log

\* The record that Save appends brings the log to the state it was given.
LEMMA SavedState ==
    ASSUME RecordsFit, LogTypes, TailIntact, SavedInv, handle = "open", NEW v \in Outputs, next < N
    PROVE  LET w == Append(Log, WALRecord(NextState(v), seq + 1))
           IN  StateAt(w, Len(Log) + 1) = NextState(v)
<1> DEFINE st == NextState(v)
           r == WALRecord(st, seq + 1)
           w == Append(Log, r)
<1>1. st \in States /\ DOMAIN engine.out \subseteq DOMAIN st.out /\ st.step = next /\ st.data = v
  <2>1. st \in States
      BY Zenon, StateType DEF NextState
  <2> QED BY Zenon, <2>1 DEF NextState, WithOutput
<1>2. r \in Records
    BY Zenon, <1>1, RecordType
<1>3. Log \in Seq(Records)
    BY Zenon, OpenLog
<1>4. r.step = st.step /\ r.data = st.data
    BY Zenon DEF WALRecord
<1>5. CASE persisted = NoState
  <2>1. r.delta = FALSE /\ r.out = st.out
      BY Zenon, <1>5 DEF WALRecord
  <2> HIDE DEF st, r
  <2>2. Merged(w) = st.out
      BY Zenon, <1>2, <1>3, <2>1, MergeSnapshot
  <2>3. StateAt(w, Len(Log) + 1) = [step |-> st.step, data |-> st.data, out |-> st.out]
      BY Zenon, <1>2, <1>3, <1>4, <2>2, AppendState
  <2>4. st = [step |-> st.step, data |-> st.data, out |-> st.out]
      BY Zenon, <1>1 DEF States
  <2> QED BY Zenon, <2>3, <2>4 DEF st, r
<1>6. CASE persisted # NoState
  <2>1. r.delta = TRUE /\ r.out = DiffStepOutputs(persisted.out, st.out)
      BY Zenon, <1>6 DEF WALRecord
  <2>2. /\ DOMAIN r.out = {t \in DOMAIN st.out : t \notin DOMAIN persisted.out \/ persisted.out[t] # st.out[t]}
        /\ \A t \in DOMAIN r.out : r.out[t] = st.out[t]
      BY Zenon, <2>1 DEF DiffStepOutputs
  <2>3. /\ LoadStateWAL(Log) = persisted /\ Replayed(Log) = Log
        /\ DOMAIN persisted.out \subseteq DOMAIN st.out
      BY Zenon, <1>1, <1>3, <1>6, WholeLog DEF SavedInv
  <2>4. Log # <<>> /\ Merged(Log) = persisted.out
      BY Zenon, <1>6, <2>3 DEF LoadStateWAL
  <2> HIDE DEF st, r
  <2>5. /\ DOMAIN Merged(w) = DOMAIN persisted.out \cup DOMAIN r.out
        /\ \A s \in DOMAIN r.out : Merged(w)[s] = r.out[s]
        /\ \A s \in DOMAIN persisted.out \ DOMAIN r.out : Merged(w)[s] = persisted.out[s]
    <3>1. r.delta
        BY Zenon, <2>1
    <3>2. /\ DOMAIN Merged(w) = DOMAIN Merged(Log) \cup DOMAIN r.out
          /\ \A s \in DOMAIN r.out : Merged(w)[s] = r.out[s]
          /\ \A s \in DOMAIN Merged(Log) \ DOMAIN r.out : Merged(w)[s] = Merged(Log)[s]
        BY Zenon, <1>2, <1>3, <2>4, <3>1, MergeDelta
    <3> HIDE DEF w
    <3> QED BY Zenon, <2>4, <3>2
  <2>6. Merged(w) \in Outs /\ st.out \in Outs
    <3>1. w \in Seq(Records)
        BY Zenon, <1>2, <1>3, AppendState
    <3>2. Merged(w) \in Outs
        BY Zenon, <3>1, MergedType
    <3> QED BY Zenon, <1>1, <3>2 DEF States
  <2> HIDE DEF w
  <2>7. DOMAIN Merged(w) = DOMAIN st.out /\ \A s \in DOMAIN st.out : Merged(w)[s] = st.out[s]
      BY Zenon, <2>2, <2>3, <2>5
  <2>8. Merged(w) = st.out
    <3>1. PICK D : Merged(w) \in [D -> Outputs \cup {0}]
        BY Zenon, <2>6 DEF Outs
    <3>2. PICK E : st.out \in [E -> Outputs \cup {0}]
        BY Zenon, <2>6 DEF Outs
    <3> QED BY <2>7, <3>1, <3>2
  <2>9. StateAt(w, Len(Log) + 1) = [step |-> st.step, data |-> st.data, out |-> st.out]
      BY Zenon, <1>2, <1>3, <1>4, <2>8, AppendState DEF w
  <2>10. st = [step |-> st.step, data |-> st.data, out |-> st.out]
      BY Zenon, <1>1 DEF States
  <2> QED BY Zenon, <2>9, <2>10 DEF st, r, w
<1> QED BY Zenon, <1>5, <1>6

\* Nothing is saved or acknowledged before the first process.
LEMMA RealInit == Init => RealInv
<1> SUFFICES ASSUME Init PROVE RealInv
    BY Zenon
<1>1. disk = <<>> /\ handle = "none" /\ synced = 0 /\ acked = -1
    BY Zenon DEF Init
<1>2. Full = <<>> /\ Len(Full) = 0 /\ Len(disk) = 0
    BY Zenon, <1>1 DEF Full
<1>3. \A n \in 0 .. Len(Full) : StateAt(Full, n).step = -1
    BY <1>2 DEF StateAt, NoState
<1>4. AllSaved(Full, saved) /\ AllAcked(Full, synced, acked)
    BY <1>1, <1>2, <1>3 DEF AllSaved, AllAcked
<1> QED BY <1>1, <1>2, <1>4, LogInit DEF RealInv, SavedInv, AckInv

\* A run that ends, or whose writer has failed, leaves a log cut off behind its
\* fsynced part.
LEMMA LeftBehind ==
    ASSUME RealInv, LogInv', handle' # "open", acked' = acked, synced <= synced', synced' <= Len(disk'),
           NEW F \in Seq(Frames), NEW lo \in Nat, synced <= lo, CutFrom(lo, disk', F),
           AllSaved(F, saved'), AllAcked(F, synced, acked)
    PROVE  RealInv'
<1>1. disk' \in Seq(Frames) /\ synced \in Nat /\ synced' \in Nat /\ acked \in Int
    BY Zenon DEF RealInv, LogInv, LogTypes, AckInv
<1>2. Full' = disk'
    BY Zenon DEF Full
<1>3. AllSaved(disk', saved')
    BY Zenon, <1>1, CutKeeps
<1>4. AllAcked(disk', synced', acked)
    BY Zenon, <1>1, CutKeeps
<1> QED BY Zenon, <1>1, <1>2, <1>3, <1>4 DEF RealInv, SavedInv, AckInv

\* What was saved stays saved.
LEMMA SavedGrows ==
    ASSUME NEW l, NEW S, NEW T, S \subseteq T, AllSaved(l, S)
    PROVE  AllSaved(l, T)
    BY Zenon DEF AllSaved

\* A writer that works, all of whose log was fsynced.
LEMMA AllSynced ==
    ASSUME RecordsFit, NEW w \in Seq(Records), NEW low \in Nat, low >= Len(w),
           NEW st \in States \cup {NoState}, st = NoState \/ LoadStateWAL(w) = st
    PROVE  AllAcked(w, low, st.step)
<1>1. /\ LoadStateWAL(w) = StateAt(w, Len(w)) /\ Len(w) \in Nat /\ w \in Seq(Frames)
      /\ \A n \in 0 .. Len(w) : Longest(w, n) => n = Len(w)
    BY Zenon, WholeLog, LenProperties
<1>2. LoadStateWAL(w).step \in Int /\ LoadStateWAL(w).step >= st.step
    BY <1>1, LoadedType DEF States, NoState, Steps
<1>3. \A n \in 0 .. Len(w) : n >= low \/ Longest(w, n) => n = Len(w)
    BY <1>1
<1> QED BY <1>1, <1>2, <1>3 DEF AllAcked

\* A step with a log.
LEMMA RealExecute ==
    ASSUME RecordsFit, RealInv, TailIntact, LogInv', NEW v \in Outputs, ExecuteStep(v), handle # "none"
    PROVE  RealInv'
<1> DEFINE st == NextState(v)
           rec == WALRecord(st, seq + 1)
           new == Append(Log, rec)
<1>1. LogTypes /\ SavedInv /\ AckInv /\ synced \in Nat /\ acked \in Int /\ disk \in Seq(Frames)
      /\ Len(disk) \in Nat
    BY Zenon, LogFrames DEF RealInv, LogInv, AckInv, LogTypes
<1>2. /\ st \in States /\ rec \in Records /\ LogTypes'
      /\ persisted' = st /\ saved' = saved \cup {st}
      /\ engine' = [out |-> st.out, data |-> v] /\ next' = next + 1
      /\ \/ handle = "sticky" /\ handle' = "sticky" /\ disk' = disk /\ UNCHANGED <<synced, acked>>
         \/ handle' = handle /\ handle \in {"open", "closed"} /\ Log' = new
            /\ (handle = "closed" => disk' = disk)
            /\ \/ UNCHANGED <<synced, acked>>
               \/ /\ handle = "open" /\ synced' = Len(disk') /\ buffer' = <<>>
                  /\ acked' = st.step
         \/ handle' = "sticky" /\ CutFrom(Len(disk), Log', new)
            /\ (handle # "open" => disk' = disk)
            /\ UNCHANGED <<synced, acked>>
    BY Zenon, <1>1, ExecuteEffect
<1>3. next < N /\ next \in Nat /\ next' \in Nat
    BY <1>1, <1>2 DEF ExecuteStep, LogTypes
<1>4. st.step = next
    BY Zenon DEF NextState
<1>5. CASE handle # "open"
  <2>1. handle' # "open" /\ disk' = disk /\ UNCHANGED <<synced, acked>> /\ Full = disk
      BY Zenon, <1>2, <1>5 DEF Full
  <2>2. AllSaved(disk, saved') /\ AllAcked(disk, synced, acked) /\ synced <= Len(disk)
      BY <1>1, <1>2, <2>1, SavedGrows DEF SavedInv, AckInv
  <2>3. CutFrom(Len(disk), disk, disk)
      BY Zenon, <1>1, CutWhole
  <2> QED BY <1>1, <2>1, <2>2, <2>3, LeftBehind
<1>6. CASE handle = "open"
  <2>1. Log \in Seq(Records) /\ Full = Log
      BY Zenon, <1>1, <1>6, OpenLog DEF Full
  <2>2. StateAt(new, Len(Log) + 1) = st
      BY Zenon, <1>1, <1>3, <1>6, SavedState
  <2>3. persisted.step < next /\ acked <= persisted.step /\ persisted.step \in Int
        /\ synced <= Len(disk)
        /\ AllSaved(Log, saved) /\ AllAcked(Log, synced, acked)
      BY <1>1, <1>6, <2>1 DEF SavedInv, AckInv, LogTypes, States, NoState, Steps
  <2> HIDE DEF st, rec
  <2>4. /\ new \in Seq(Records) /\ Len(new) = Len(Log) + 1 /\ Len(Log) \in Nat
        /\ \A n \in 0 .. Len(Log) : StateAt(new, n) = StateAt(Log, n)
      BY ZenonT(40), <1>2, <2>1, AppendState
  <2> HIDE DEF new
  <2>5. /\ Log \in Seq(Frames) /\ new \in Seq(Frames) /\ LoadStateWAL(new) = StateAt(new, Len(new))
        /\ \A n \in 0 .. Len(Log) : ReadableTo(Log, n)
        /\ \A n \in 0 .. Len(new) : Longest(new, n) => n = Len(new)
      BY Zenon, <2>1, <2>4, WholeLog
  <2>6. AllSaved(new, saved')
    <3> SUFFICES ASSUME NEW n \in 1 .. Len(new) PROVE StateAt(new, n) \in saved'
        BY Zenon DEF AllSaved
    <3>1. CASE n = Len(new)
        BY Zenon, <1>2, <2>2, <2>4, <3>1
    <3>2. CASE n # Len(new)
      <4>1. n \in 1 .. Len(Log)
          BY <2>4, <3>2
      <4>2. StateAt(new, n) = StateAt(Log, n) /\ ReadableTo(Log, n)
          BY <2>4, <2>5, <4>1
      <4> QED BY Zenon, <1>2, <2>3, <4>1, <4>2 DEF AllSaved
    <3> QED BY Zenon, <3>1, <3>2
  <2>8. AllAcked(new, synced, acked)
    <3> SUFFICES ASSUME NEW n \in 0 .. Len(new), n >= synced \/ Longest(new, n)
                 PROVE  StateAt(new, n).step >= acked
        BY Zenon DEF AllAcked
    <3>1. CASE n = Len(new)
        BY <1>1, <1>3, <1>4, <2>2, <2>3, <2>4, <3>1
    <3>2. CASE n # Len(new)
      <4>1. n \in 0 .. Len(Log) /\ n >= synced
          BY <2>4, <2>5, <3>2
      <4>2. StateAt(new, n) = StateAt(Log, n) /\ ReadableTo(Log, n)
          BY Zenon, <2>4, <2>5, <4>1
      <4> QED BY Zenon, <2>3, <4>1, <4>2 DEF AllAcked
    <3> QED BY Zenon, <3>1, <3>2
  <2>9. CASE handle' = "sticky"
    <3>1. CutFrom(Len(disk), Log', new) /\ UNCHANGED <<synced, acked>>
        BY Zenon, <1>2, <1>6, <2>9
    <3>2. Log' = disk' /\ disk' \in Seq(Frames)
        BY Zenon, <1>2, <2>9, FlushedLog DEF Log, LogTypes
    <3>3. synced <= Len(disk')
      <4>1. Len(disk') \in Nat
          BY Zenon, <3>2, LenProperties
      <4>2. Len(disk') >= Len(disk)
          BY <1>1, <2>4, <3>1, <3>2, <4>1 DEF CutFrom
      <4> QED BY <1>1, <2>3, <4>1, <4>2
    <3> QED BY <1>1, <2>3, <2>5, <2>6, <2>8, <2>9, <3>1, <3>2, <3>3, LeftBehind
  <2>10. CASE handle' = "open"
    <3>1. Log' = new /\ Full' = new
        BY Zenon, <1>2, <1>6, <2>10 DEF Full
    <3>2. LoadStateWAL(Log') = persisted' /\ DOMAIN persisted'.out \subseteq DOMAIN engine'.out
        BY Zenon, <1>2, <2>2, <2>4, <2>5, <3>1
    <3>3. persisted'.step < next' /\ acked <= persisted'.step /\ persisted'.step <= persisted'.step
        BY <1>1, <1>2, <1>3, <1>4, <2>3
    <3>4. disk' \in Seq(Frames) /\ Len(disk') \in Nat /\ buffer' \in Seq(Records) /\ Len(buffer') \in Nat
        BY Zenon, <1>2, LenProperties DEF LogTypes
    <3>5. CASE UNCHANGED <<synced, acked>>
      <4>1. synced <= Len(disk')
        <5>1. Len(disk') >= Len(disk)
            BY <1>2, <1>6, <2>10 DEF ExecuteStep, AppendRecord, FlushSucceeds, FlushFails
        <5> QED BY <1>1, <2>3, <3>4, <5>1
      <4> QED BY Zenon, <1>1, <2>6, <2>8, <3>1, <3>2, <3>3, <3>5, <4>1 DEF RealInv, SavedInv, AckInv
    <3>6. CASE synced' = Len(disk') /\ buffer' = <<>> /\ acked' = st.step
      <4>1. Log' = disk'
          BY Zenon, <3>4, <3>6, FlushedLog DEF Log
      <4>2. synced' = Len(new) /\ LoadStateWAL(new) = st
          BY Zenon, <2>2, <2>4, <2>5, <3>1, <3>6, <4>1
      <4>3. AllAcked(new, synced', acked')
          BY <1>2, <2>4, <3>4, <3>6, <4>2, AllSynced
      <4>4. acked' \in Int /\ synced' <= Len(disk')
        <5>1. st.step \in Int
            BY <1>3, <1>4
        <5>2. Len(disk') <= Len(disk')
            BY <3>4
        <5> QED BY Zenon, <3>6, <5>1, <5>2
      <4> QED BY Zenon, <1>2, <2>6, <3>1, <3>2, <3>3, <3>6, <4>3, <4>4 DEF RealInv, SavedInv, AckInv
    <3> QED BY Zenon, <1>2, <1>6, <2>10, <3>5, <3>6
  <2> QED BY Zenon, <1>2, <1>6, <2>9, <2>10
<1> QED BY Zenon, <1>5, <1>6

\* A process that starts takes over the state the log loads to.
LEMMA RealStart ==
    ASSUME RealInv, LogInv', Start
    PROVE  RealInv'
<1>1. LogTypes /\ SeqInv /\ SavedInv /\ AckInv /\ disk \in Seq(Frames)
    BY Zenon DEF RealInv, LogInv, LogTypes
<1>2. /\ UNCHANGED <<disk, synced, saved>> /\ Log' = disk /\ pc = "down"
      /\ \/ /\ handle' = "open" /\ acked' = acked
            /\ persisted' = LoadStateWAL(disk) /\ next' = ResumeFrom(persisted')
            /\ engine' = [out |-> persisted'.out, data |-> persisted'.data]
         \/ handle' = "open" /\ acked' = -1 /\ persisted' = NoState /\ next' = 0
         \/ handle' = "none" /\ acked' = acked
    BY Zenon, <1>1, StartEffect
<1>3. Full = disk /\ Full' = disk
    BY Zenon, <1>1, <1>2 DEF Full, LogTypes
<1>4. acked \in Int /\ synced \in Nat /\ Len(disk) \in Nat /\ AllSaved(disk, saved)
      /\ AllAcked(disk, synced, acked) /\ synced <= Len(disk)
    BY Zenon, <1>1, <1>3, LenProperties DEF RealInv, LogInv, SavedInv, AckInv
<1>5. PICK k \in 0 .. Len(disk) :
          ReadableTo(disk, k) /\ Longest(disk, k) /\ LoadStateWAL(disk) = StateAt(disk, k)
    BY Zenon, <1>1, LoadedAt
<1>6. CASE /\ handle' = "open" /\ acked' = acked
           /\ persisted' = LoadStateWAL(disk) /\ next' = ResumeFrom(persisted')
           /\ engine' = [out |-> persisted'.out, data |-> persisted'.data]
  <2>1. persisted' \in States \cup {NoState} /\ next' = Min({persisted'.step + 1, N})
      BY Zenon, <1>1, <1>6, LoadedType DEF ResumeFrom
  <2>2. persisted'.step \in Int /\ persisted'.step + 1 \in Nat /\ N \in Nat /\ persisted'.step < N
      BY <2>1, WALAssumption DEF States, NoState, Steps
  <2>3. Min({persisted'.step + 1, N}) \in {persisted'.step + 1, N}
      BY Zenon, <2>2, MinIsLeast
  <2>4. persisted'.step < next'
      BY <2>1, <2>2, <2>3
  <2>5. persisted'.step >= acked
      BY Zenon, <1>4, <1>5, <1>6 DEF AllAcked
  <2>6. acked' <= persisted'.step
      BY <1>4, <1>6, <2>2, <2>5
  <2>7. DOMAIN persisted'.out \subseteq DOMAIN engine'.out
      BY Zenon, <1>6
  <2> QED BY Zenon, <1>2, <1>3, <1>4, <1>6, <2>4, <2>6, <2>7 DEF RealInv, SavedInv, AckInv
<1>7. CASE handle' = "open" /\ acked' = -1 /\ persisted' = NoState /\ next' = 0
  <2>1. \A n \in 0 .. Len(disk) : ReadableTo(disk, n) => StateAt(disk, n).step >= -1
    <3> SUFFICES ASSUME NEW n \in 0 .. Len(disk), ReadableTo(disk, n) PROVE StateAt(disk, n).step >= -1
        BY Zenon
    <3>1. CASE n = 0
        BY <3>1 DEF StateAt, NoState
    <3>2. CASE n # 0
      <4>1. disk[n] \in Frames /\ Readable(disk[n])
          BY <1>1, <1>4, <3>2, ElementOfSeq DEF ReadableTo
      <4>2. disk[n].step \in Steps
          BY Zenon, <4>1 DEF Frames, Readable, Records
      <4> QED BY <3>2, <4>2, WALAssumption DEF StateAt, Steps
    <3> QED BY Zenon, <3>1, <3>2
  <2>2. AllAcked(disk, synced, -1)
      BY Zenon, <2>1 DEF AllAcked
  <2>3. /\ persisted'.step < next' /\ acked' <= persisted'.step /\ acked' \in Int
        /\ DOMAIN persisted'.out = {}
      BY <1>7 DEF NoState
  <2>4. DOMAIN persisted'.out \subseteq DOMAIN engine'.out
      BY Zenon, <2>3
  <2> QED BY Zenon, <1>2, <1>3, <1>4, <1>7, <2>2, <2>3, <2>4 DEF RealInv, SavedInv, AckInv
<1>8. CASE handle' = "none" /\ acked' = acked
    BY Zenon, <1>2, <1>3, <1>4, <1>8 DEF RealInv, SavedInv, AckInv
<1> QED BY Zenon, <1>2, <1>6, <1>7, <1>8

\* A compaction, at whatever point it stops.
LEMMA RealCompact ==
    ASSUME RecordsFit, RealInv, TailIntact, LogInv', MaybeCompact
    PROVE  RealInv'
<1>1. LogTypes /\ SavedInv /\ AckInv /\ synced \in Nat /\ acked \in Int /\ disk \in Seq(Frames)
      /\ Len(disk) \in Nat /\ synced <= Len(disk) /\ Log \in Seq(Frames)
    BY Zenon, LogFrames DEF RealInv, LogInv, AckInv, LogTypes
<1>2. /\ LogTypes' /\ UNCHANGED <<next, engine, persisted, saved>>
      /\ \/ Log' = Log /\ UNCHANGED <<synced, acked>>
            /\ \/ handle' = handle /\ disk' = disk
               \/ handle = "open" /\ handle' = "closed"
         \/ handle' = "sticky" /\ CutFrom(Len(disk), Log', Log)
            /\ (handle # "open" => disk' = disk)
            /\ UNCHANGED <<synced, acked>>
         \/ /\ handle = "open" /\ handle' \in {"open", "closed"}
            /\ Log' = Compacted(Log) /\ disk' = Log'
            /\ synced' = Len(disk') /\ acked' = persisted.step
    BY Zenon, <1>1, CompactEffect
<1>3. disk' \in Seq(Frames) /\ Len(disk') \in Nat
    BY Zenon, <1>2, LenProperties DEF LogTypes
<1>4. CASE Log' = Log /\ handle' = handle /\ disk' = disk /\ UNCHANGED <<synced, acked>>
  <2>1. Full' = Full
      BY Zenon, <1>4 DEF Full
  <2> QED BY Zenon, <1>1, <1>2, <1>4, <2>1 DEF RealInv, SavedInv, AckInv
<1>5. CASE handle # "open" /\ handle' = "sticky" /\ disk' = disk /\ UNCHANGED <<synced, acked>>
  <2>1. Full' = Full
      BY Zenon, <1>5 DEF Full
  <2> QED BY Zenon, <1>1, <1>2, <1>5, <2>1 DEF RealInv, SavedInv, AckInv
<1>6. ASSUME handle = "open"
      PROVE  /\ Log \in Seq(Records) /\ Full = Log /\ Len(Log) \in Nat /\ Len(Log) >= Len(disk)
             /\ AllSaved(Log, saved) /\ AllAcked(Log, synced, acked)
             /\ persisted = NoState \/ LoadStateWAL(Log) = persisted
             /\ persisted \in States \cup {NoState} /\ persisted.step \in Int
  <2>1. Log \in Seq(Records) /\ Full = Log
      BY Zenon, <1>1, <1>6, OpenLog DEF Full
  <2>2. Len(Log) \in Nat /\ Len(Log) >= Len(disk)
      BY <1>1, LogConcat DEF Log, LogTypes
  <2> QED BY <1>1, <1>6, <2>1, <2>2 DEF SavedInv, AckInv, LogTypes, States, NoState, Steps
<1>7. CASE handle = "open" /\ handle' = "closed" /\ Log' = Log /\ UNCHANGED <<synced, acked>>
  <2>1. disk' = Log
    <3>1. disk' = Log /\ buffer' = <<>>
        BY <1>1, <1>2, <1>7 DEF MaybeCompact, Compact, FlushFails, logVars, Log, Compacted
    <3> QED BY Zenon, <3>1
  <2>2. CutFrom(Len(Log), Log, Log)
      BY Zenon, <1>1, CutWhole
  <2> QED BY <1>1, <1>2, <1>6, <1>7, <2>1, <2>2, LeftBehind
<1>8. CASE handle = "open" /\ handle' = "sticky" /\ CutFrom(Len(disk), Log', Log)
           /\ UNCHANGED <<synced, acked>>
  <2>1. Log' = disk'
      BY Zenon, <1>2, <1>3, <1>8, FlushedLog DEF Log, LogTypes
  <2>2. Len(disk') >= Len(disk)
      BY <1>1, <1>3, <1>6, <1>8, <2>1 DEF CutFrom
  <2> QED BY <1>1, <1>2, <1>3, <1>6, <1>8, <2>1, <2>2, LeftBehind
<1>9. CASE /\ handle = "open" /\ handle' \in {"open", "closed"}
           /\ Log' = Compacted(Log) /\ disk' = Log'
           /\ synced' = Len(disk') /\ acked' = persisted.step
  <2>1. Full' = Log' /\ Log' \in Seq(Records)
      BY Zenon, <1>1, <1>9, CompactedType DEF Full
  <2>2. LoadStateWAL(Log') = LoadStateWAL(Log) /\ (persisted = NoState \/ LoadStateWAL(Log') = persisted)
      BY Zenon, <1>1, <1>6, <1>9, CompactedLoads
  <2>3. AllAcked(Log', synced', acked')
      BY <1>3, <1>6, <1>9, <2>1, <2>2, AllSynced
  <2>4. AllSaved(Log', saved')
    <3> SUFFICES ASSUME NEW n \in 1 .. Len(Log') PROVE StateAt(Log', n) \in saved
        BY Zenon, <1>2 DEF AllSaved
    <3>1. n = Len(Log') /\ Replayed(Log) # <<>>
      <4>1. CASE Replayed(Log) = <<>>
        <5>1. Log' = <<>> /\ Len(<<>>) = 0
            BY Zenon, <1>9, <4>1 DEF Compacted
        <5> QED BY <5>1
      <4>2. CASE Replayed(Log) # <<>>
        <5> DEFINE c == [Latest(Replayed(Log)) EXCEPT !.delta = FALSE, !.out = Merged(Replayed(Log))]
        <5>1. Log' = <<c>>
            BY Zenon, <1>1, <1>9, <4>2, CompactedType
        <5> HIDE DEF c
        <5>2. Len(Log') = 1
            BY Zenon, <5>1
        <5> QED BY <4>2, <5>2
      <4> QED BY Zenon, <4>1, <4>2
    <3>2. StateAt(Log', n) = LoadStateWAL(Log)
        BY Zenon, <2>1, <2>2, <3>1, WholeLog
    <3>3. Log # <<>> /\ Len(Log) \in 1 .. Len(Log)
      <4>1. Replayed(Log) = Log
          BY Zenon, <1>6, <1>9, WholeLog
      <4> QED BY <1>6, <1>9, <3>1, <4>1, EmptySeq
    <3>4. ReadableTo(Log, Len(Log)) /\ StateAt(Log, Len(Log)) = LoadStateWAL(Log)
        BY <1>6, <1>9, <3>3, WholeLog
    <3> QED BY Zenon, <1>6, <1>9, <3>2, <3>3, <3>4 DEF AllSaved
  <2>5. persisted' = persisted /\ engine' = engine /\ next' = next /\ handle = "open"
      BY Zenon, <1>2, <1>9
  <2>6. SavedInv'
      BY Zenon, <1>1, <2>1, <2>2, <2>4, <2>5 DEF SavedInv
  <2>7. acked' \in Int /\ synced' <= Len(disk') /\ acked' <= persisted'.step
      BY <1>3, <1>6, <1>9, <2>5
  <2>8. AckInv'
      BY Zenon, <1>1, <2>1, <2>3, <2>5, <2>7 DEF AckInv
  <2> QED BY Zenon, <2>6, <2>8 DEF RealInv
<1> QED BY Zenon, <1>2, <1>4, <1>5, <1>7, <1>8, <1>9

\* The background fsync.
LEMMA RealSync ==
    ASSUME RecordsFit, RealInv, TailIntact, LogInv', SyncLoop
    PROVE  RealInv'
<1>1. LogTypes /\ SavedInv /\ AckInv /\ synced \in Nat /\ acked \in Int /\ disk \in Seq(Frames)
      /\ Len(disk) \in Nat /\ synced <= Len(disk) /\ Log \in Seq(Frames)
    BY Zenon, LogFrames DEF RealInv, LogInv, AckInv, LogTypes
<1>2. /\ LogTypes' /\ UNCHANGED <<next, engine, persisted, saved>>
      /\ \/ handle' = handle /\ Log' = Log /\ handle \in {"open", "closed"}
            /\ (handle = "closed" => disk' = disk)
            /\ \/ UNCHANGED <<synced, acked>>
               \/ /\ handle = "open" /\ synced' = Len(disk') /\ buffer' = <<>>
                  /\ acked' = persisted.step
         \/ handle' = "sticky" /\ CutFrom(Len(disk), Log', Log)
            /\ (handle # "open" => disk' = disk)
            /\ UNCHANGED <<synced, acked>>
    BY Zenon, <1>1, SyncEffect
<1>3. disk' \in Seq(Frames) /\ Len(disk') \in Nat
    BY Zenon, <1>2, LenProperties DEF LogTypes
<1>4. CASE handle # "open"
  <2>1. Full' = Full /\ disk' = disk /\ UNCHANGED <<synced, acked>> /\ handle' # "open"
      BY Zenon, <1>2, <1>4 DEF Full
  <2> QED BY Zenon, <1>1, <1>2, <2>1 DEF RealInv, SavedInv, AckInv
<1>5. CASE handle = "open"
  <2>1. Log \in Seq(Records) /\ Full = Log /\ Len(Log) \in Nat /\ Len(Log) >= Len(disk)
      BY <1>1, <1>5, OpenLog, LogConcat DEF Full, Log, LogTypes
  <2>2. /\ AllSaved(Log, saved) /\ AllAcked(Log, synced, acked)
        /\ persisted = NoState \/ LoadStateWAL(Log) = persisted
        /\ persisted \in States \cup {NoState} /\ persisted.step \in Int
      BY <1>1, <1>5, <2>1 DEF SavedInv, AckInv, LogTypes, States, NoState, Steps
  <2>3. CASE handle' = "sticky"
    <3>1. CutFrom(Len(disk), Log', Log) /\ UNCHANGED <<synced, acked>>
        BY Zenon, <1>2, <1>5, <2>3
    <3>2. Log' = disk'
        BY Zenon, <1>2, <1>3, <2>3, FlushedLog DEF Log, LogTypes
    <3>3. Len(disk') >= Len(disk)
        BY <1>1, <1>3, <2>1, <3>1, <3>2 DEF CutFrom
    <3> QED BY <1>1, <1>2, <1>3, <2>1, <2>2, <2>3, <3>1, <3>2, <3>3, LeftBehind
  <2>4. CASE handle' = "open"
    <3>1. Full' = Log /\ Log' = Log
        BY Zenon, <1>2, <1>5, <2>4 DEF Full
    <3>2. CASE UNCHANGED <<synced, acked>>
      <4>1. Len(disk') >= Len(disk)
          BY Zenon, <1>1, <1>5, <2>1, <2>4 DEF SyncLoop, FlushSucceeds, FlushFails, Log
      <4> QED BY <1>1, <1>2, <1>3, <3>1, <3>2, <2>1, <2>4, <4>1 DEF RealInv, SavedInv, AckInv
    <3>3. CASE synced' = Len(disk') /\ buffer' = <<>> /\ acked' = persisted.step
      <4>1. disk' = Log
          BY Zenon, <1>3, <3>1, <3>3, FlushedLog DEF Log
      <4>2. AllAcked(Log, synced', acked')
          BY <1>3, <2>1, <2>2, <3>3, <4>1, AllSynced
      <4> QED BY <1>1, <1>2, <1>3, <2>1, <2>2, <3>1, <3>3, <4>2 DEF RealInv, SavedInv, AckInv
    <3> QED BY Zenon, <1>2, <1>5, <2>4, <3>2, <3>3
  <2> QED BY Zenon, <1>2, <1>5, <2>3, <2>4
<1> QED BY Zenon, <1>4, <1>5

\* The end of a process, orderly or not.
LEMMA RealEnd ==
    ASSUME RecordsFit, RealInv, TailIntact, LogInv', Close \/ Crash
    PROVE  RealInv'
<1>1. LogTypes /\ SavedInv /\ AckInv /\ synced \in Nat /\ acked \in Int /\ disk \in Seq(Frames)
      /\ Len(disk) \in Nat /\ synced <= Len(disk) /\ Log \in Seq(Frames) /\ Len(Log) \in Nat
      /\ Len(Log) >= Len(disk)
  <2>1. LogTypes /\ SavedInv /\ AckInv /\ synced \in Nat
      BY Zenon DEF RealInv, LogInv
  <2>2. disk \in Seq(Frames) /\ buffer \in Seq(Records)
      BY Zenon, <2>1 DEF LogTypes
  <2>3. Log \in Seq(Frames) /\ Len(disk) \in Nat /\ Len(buffer) \in Nat /\ Len(Log) = Len(disk) + Len(buffer)
      BY Zenon, <2>2, LogConcat DEF Log
  <2>4. acked \in Int /\ synced <= Len(disk)
      BY Zenon, <2>1 DEF AckInv
  <2>5. Len(Log) \in Nat /\ Len(Log) >= Len(disk)
      BY <2>3
  <2> QED BY Zenon, <2>1, <2>2, <2>3, <2>4, <2>5
<1>2. Full \in Seq(Frames) /\ AllSaved(Full, saved) /\ AllAcked(Full, synced, acked)
      /\ Len(Full) \in Nat /\ Len(Full) >= Len(disk)
  <2>1. AllSaved(Full, saved) /\ AllAcked(Full, synced, acked)
      BY Zenon, <1>1 DEF SavedInv, AckInv
  <2>2. Full = Log \/ Full = disk
      BY Zenon DEF Full
  <2>3. Len(disk) >= Len(disk)
      BY <1>1
  <2> QED BY Zenon, <1>1, <2>1, <2>2, <2>3
<1>3. CASE Crash
  <2>1. /\ handle' = "none" /\ UNCHANGED <<saved, acked>> /\ synced' = Len(disk')
        /\ CutFrom(synced, disk', Full) /\ disk' \in Seq(Frames)
      BY Zenon, <1>1, <1>3, CrashEffect DEF Ended, Full, LogTypes
  <2>2. Len(disk') \in Nat /\ Len(disk') >= synced
    <3>1. Len(disk') \in Nat
        BY Zenon, <2>1, LenProperties
    <3> QED BY <1>1, <1>2, <2>1, <3>1 DEF CutFrom
  <2> QED BY <1>1, <1>2, <2>1, <2>2, LeftBehind
<1>4. CASE Close
  <2>1. /\ handle' = "none" /\ UNCHANGED saved /\ disk' \in Seq(Frames)
        /\ \/ handle = "open" /\ disk' = Log /\ UNCHANGED <<synced, acked>>
           \/ handle = "open" /\ disk' = Log /\ synced' = Len(disk') /\ acked' = persisted.step
           \/ handle = "open" /\ CutFrom(Len(disk), disk', Log) /\ UNCHANGED <<synced, acked>>
           \/ handle # "open" /\ UNCHANGED <<disk, synced, acked>>
      BY Zenon, <1>1, <1>4, CloseEffect DEF Ended, LogTypes
  <2>2. Len(disk') \in Nat
      BY Zenon, <2>1, LenProperties
  <2>3. CASE handle = "open" /\ disk' = Log /\ UNCHANGED <<synced, acked>>
    <3>1. CutFrom(Len(Log), Log, Log) /\ Full = Log
        BY Zenon, <1>1, <2>3, CutWhole DEF Full
    <3> QED BY <1>1, <1>2, <2>1, <2>3, <3>1, LeftBehind
  <2>4. CASE handle = "open" /\ CutFrom(Len(disk), disk', Log) /\ UNCHANGED <<synced, acked>>
    <3>1. Len(disk') >= Len(disk) /\ Full = Log
        BY <1>1, <2>2, <2>4 DEF CutFrom, Full
    <3> QED BY <1>1, <1>2, <2>1, <2>2, <2>4, <3>1, LeftBehind
  <2>5. CASE handle # "open" /\ UNCHANGED <<disk, synced, acked>>
    <3>1. CutFrom(Len(disk), disk, disk) /\ Full = disk
        BY Zenon, <1>1, <2>5, CutWhole DEF Full
    <3> QED BY <1>1, <1>2, <2>1, <2>5, <3>1, LeftBehind
  <2>6. CASE handle = "open" /\ disk' = Log /\ synced' = Len(disk') /\ acked' = persisted.step
    <3>1. Full = Log /\ Full' = Log /\ Log \in Seq(Records)
        BY Zenon, <1>1, <2>1, <2>6, OpenLog DEF Full
    <3>2. /\ persisted = NoState \/ LoadStateWAL(Log) = persisted
          /\ persisted \in States \cup {NoState} /\ persisted.step \in Int
        BY <1>1, <2>6 DEF SavedInv, LogTypes, States, NoState, Steps
    <3>3. AllAcked(Log, synced', acked')
      <4>1. synced' \in Nat /\ synced' >= Len(Log)
          BY <2>2, <2>6
      <4>2. AllAcked(Log, synced', persisted.step)
          BY Zenon, <3>1, <3>2, <4>1, AllSynced
      <4> QED BY Zenon, <2>6, <3>2, <4>2
    <3> QED BY <1>2, <2>1, <2>2, <2>6, <3>1, <3>2, <3>3 DEF RealInv, SavedInv, AckInv
  <2> QED BY Zenon, <2>1, <2>3, <2>4, <2>5, <2>6
<1> QED BY Zenon, <1>3, <1>4

\* Every step of a process over an intact tail keeps the log to what was saved.
LEMMA RealNext ==
    ASSUME RecordsFit, RealInv, TailIntact, [Next]_vars
    PROVE  RealInv'
<1>0. LogInv'
    BY Zenon, LogNext DEF RealInv
<1>1. CASE Start
    BY Zenon, <1>0, <1>1, RealStart
<1>2. ASSUME SkipStep \/ (handle = "none" /\ \E v \in Outputs : ExecuteStep(v)) \/ UNCHANGED vars
      PROVE  RealInv'
  <2>1. /\ UNCHANGED <<disk, buffer, handle, synced, saved, acked, persisted>> /\ next \in Nat
        /\ \/ handle = "none"
           \/ next' = next + 1 /\ engine'.out = WithOutput(engine.out, next, 0)
           \/ UNCHANGED <<next, engine>>
    <3>1. next \in Nat /\ engine \in [out : Outs, data : Outputs \cup {0}]
        BY DEF RealInv, LogInv, LogTypes
    <3>2. CASE SkipStep
      <4>1. /\ UNCHANGED <<disk, buffer, handle, synced, saved, acked, persisted>> /\ next' = next + 1
            /\ engine' = [engine EXCEPT !.out = WithOutput(engine.out, next, 0)]
          BY Zenon, <3>2 DEF SkipStep, logVars
      <4>2. engine'.out = WithOutput(engine.out, next, 0)
          BY Zenon, <3>1, <4>1
      <4> QED BY Zenon, <3>1, <4>1, <4>2
    <3>3. CASE handle = "none" /\ \E v \in Outputs : ExecuteStep(v)
        BY Zenon, <3>1, <3>3 DEF ExecuteStep, logVars
    <3>4. CASE UNCHANGED vars
        BY Zenon, <3>1, <3>4 DEF vars, logVars, runVars
    <3> QED BY Zenon, <1>2, <3>2, <3>3, <3>4
  <2>2. Full' = Full /\ Log' = Log
      BY Zenon, <2>1 DEF Full, Log
  <2>3. handle = "open" => DOMAIN engine.out \subseteq DOMAIN engine'.out
      BY Zenon, <2>1 DEF WithOutput
  <2>4. handle = "open" => persisted.step \in Int /\ next' >= next /\ next' \in Nat
      BY <2>1 DEF RealInv, LogInv, LogTypes, States, NoState, Steps
  <2>5. SavedInv /\ AckInv
      BY Zenon DEF RealInv
  <2>6. SavedInv'
    <3>1. AllSaved(Full', saved')
        BY Zenon, <2>1, <2>2, <2>5 DEF SavedInv
    <3>2. ASSUME handle' = "open"
          PROVE  /\ persisted' = NoState \/ LoadStateWAL(Log') = persisted'
                 /\ DOMAIN persisted'.out \subseteq DOMAIN engine'.out
        BY Zenon, <2>1, <2>2, <2>3, <2>5, <3>2 DEF SavedInv
    <3> QED BY Zenon, <3>1, <3>2 DEF SavedInv
  <2>7. AckInv'
    <3>1. acked' \in Int /\ synced' <= Len(disk') /\ AllAcked(Full', synced', acked')
        BY Zenon, <2>1, <2>2, <2>5 DEF AckInv
    <3>2. handle' = "open" => persisted'.step < next' /\ acked' <= persisted'.step
        BY <2>1, <2>4, <2>5 DEF AckInv
    <3> QED BY Zenon, <3>1, <3>2 DEF AckInv
  <2> QED BY Zenon, <1>0, <2>6, <2>7 DEF RealInv
<1>3. ASSUME NEW v \in Outputs, ExecuteStep(v), handle # "none" PROVE RealInv'
    BY Zenon, <1>0, <1>3, RealExecute
<1>4. CASE MaybeCompact
    BY Zenon, <1>0, <1>4, RealCompact
<1>5. CASE SyncLoop
    BY Zenon, <1>0, <1>5, RealSync
<1>6. CASE Close \/ Crash
    BY Zenon, <1>0, <1>6, RealEnd
<1> QED BY Zenon, <1>1, <1>2, <1>3, <1>4, <1>5, <1>6 DEF Next, Finished

\* Only the start of a process puts a torn frame into a log that is written to.
LEMMA TailKept ==
    ASSUME LogInv, TailIntact, [Next]_vars, ~overTorn'
    PROVE  TailIntact' /\ ~overTorn
<1>1. /\ disk \in Seq(Frames) /\ disk' \in Seq(Frames) /\ buffer \in Seq(Records)
      /\ pc = "down" => handle = "none"
    BY Zenon, LogNext DEF LogInv, LogTypes
<1>2. ASSUME disk' = disk, handle' = handle, pc # "down" \/ pc' = pc PROVE TailIntact'
    BY Zenon, <1>2 DEF TailIntact
<1>3. ASSUME disk' \in Seq(Records) PROVE TailIntact'
    BY Zenon, <1>1, <1>3, IntactRecords DEF TailIntact
<1>4. ASSUME handle \in {"open", "closed"}, pc # "down" PROVE disk \in Seq(Records)
    BY Zenon, <1>1, <1>4, IntactRecords DEF TailIntact
<1>5. ASSUME NEW b \in Seq(Records), FlushFails(b) \/ FlushSucceeds(b), pc # "down" PROVE TailIntact'
  <2>1. CASE FlushFails(b)
      BY Zenon, <2>1 DEF FlushFails, TailIntact
  <2>2. CASE FlushSucceeds(b)
    <3>1. disk' = disk \o b /\ handle \in {"open", "closed"}
        BY Zenon, <2>2 DEF FlushSucceeds
    <3>2. disk \o b \in Seq(Records)
        BY Zenon, <1>4, <1>5, <3>1, ConcatProperties
    <3> QED BY Zenon, <1>3, <3>1, <3>2
  <2> QED BY Zenon, <1>5, <2>1, <2>2
<1>6. CASE Start
  <2>1. /\ disk' = disk
        /\ IF handle' = "open" THEN overTorn' = (overTorn \/ \E i \in DOMAIN disk : disk[i] = Torn)
           ELSE overTorn' = overTorn
        /\ handle' \in {"none", "open"}
      BY Zenon, <1>6 DEF Start
  <2> QED BY Zenon, <2>1 DEF TailIntact
<1>7. CASE SkipStep \/ UNCHANGED vars
  <2>1. UNCHANGED <<disk, handle, pc, overTorn>>
      BY Zenon, <1>7 DEF SkipStep, vars, logVars
  <2> QED BY Zenon, <1>2, <2>1
<1>8. ASSUME NEW v \in Outputs, ExecuteStep(v) PROVE TailIntact' /\ ~overTorn
  <2>1. overTorn' = overTorn /\ pc # "down"
      BY Zenon, <1>8 DEF ExecuteStep
  <2>2. CASE handle = "none"
    <3>1. disk' = disk /\ handle' = handle
        BY Zenon, <1>8, <2>2 DEF ExecuteStep, logVars
    <3> QED BY Zenon, <1>2, <2>1, <3>1
  <2>3. CASE handle # "none"
    <3> DEFINE b == Append(buffer, WALRecord(NextState(v), seq + 1))
    <3>1. next < N /\ AppendRecord(NextState(v))
        BY Zenon, <1>8, <2>3 DEF ExecuteStep, NextState
    <3>2. NextState(v) \in States
        BY Zenon, <3>1, StateType DEF NextState, LogInv
    <3>3. WALRecord(NextState(v), seq + 1) \in Records
        BY Zenon, <3>2, RecordType DEF LogInv
    <3>4. b \in Seq(Records)
        BY Zenon, <1>1, <3>3, AppendProperties
    <3>5. (disk' = disk /\ handle' = handle) \/ FlushFails(b) \/ FlushSucceeds(b)
        BY Zenon, <3>1 DEF AppendRecord
    <3> QED BY Zenon, <1>2, <1>5, <2>1, <3>4, <3>5
  <2> QED BY Zenon, <2>2, <2>3
<1>9. CASE MaybeCompact
  <2>1. overTorn' = overTorn /\ pc = "compact"
      BY Zenon, <1>9 DEF MaybeCompact
  <2>2. \/ disk' = disk /\ handle' = handle
        \/ FlushFails(buffer)
        \/ handle \in {"open", "closed"} /\ disk' = disk \o buffer
        \/ disk' = Compacted(disk \o buffer)
      BY Zenon, <1>9 DEF MaybeCompact, Compact, logVars
  <2>3. disk \o buffer \in Seq(Frames)
      BY Zenon, <1>1, LogConcat
  <2>4. Compacted(disk \o buffer) \in Seq(Records)
      BY Zenon, <2>3, CompactedType
  <2>5. handle \in {"open", "closed"} => disk \o buffer \in Seq(Records)
      BY Zenon, <1>1, <1>4, <2>1, ConcatProperties
  <2> QED BY Zenon, <1>1, <1>2, <1>3, <1>5, <2>1, <2>2, <2>4, <2>5
<1>10. CASE SyncLoop
    BY Zenon, <1>1, <1>5, <1>10 DEF SyncLoop
<1>11. CASE Close \/ Crash
  <2>1. overTorn' = overTorn /\ ProcessEnds
      BY Zenon, <1>11 DEF Close, Crash
  <2> QED BY Zenon, <2>1 DEF ProcessEnds, TailIntact
<1> QED BY Zenon, <1>6, <1>7, <1>8, <1>9, <1>10, <1>11 DEF Next, Finished

\* Until some process resumes over a torn frame the tail is intact and the
\* invariant of recovery holds.
TornInv == LogInv /\ (~overTorn => TailIntact /\ RealInv)

LEMMA TornInit == Init => TornInv
    BY Zenon, LogInit, RealInit DEF TornInv, TailIntact, Init

LEMMA TornNext ==
    ASSUME RecordsFit
    PROVE  TornInv /\ [Next]_vars => TornInv'
<1> SUFFICES ASSUME TornInv, [Next]_vars PROVE TornInv'
    BY Zenon
<1>1. LogInv /\ LogInv'
    BY Zenon, LogNext DEF TornInv
<1>2. ASSUME ~overTorn' PROVE TailIntact' /\ RealInv'
  <2>2. ~overTorn
    <3>1. CASE Start
        BY Zenon, <1>2, <3>1 DEF Start
    <3>2. CASE ~Start
        BY Zenon, <1>2, <3>2 DEF Next, Finished, SkipStep, ExecuteStep, MaybeCompact, SyncLoop, Close, Crash, vars
    <3> QED BY Zenon, <3>1, <3>2
  <2>3. TailIntact /\ RealInv
      BY Zenon, <2>2 DEF TornInv
  <2> QED BY Zenon, <1>1, <1>2, <2>3, TailKept, RealNext
<1> QED BY Zenon, <1>1, <1>2 DEF TornInv

\* If no record is larger than replay accepts then, until some process resumes
\* over a torn frame, what LoadStateWAL makes of the log is at every moment a
\* state that was handed to Save.
THEOREM RecoveryIsFaithful ==
    ASSUME RecordsFit
    PROVE  Spec => []RecoveredIsReal
<1>1. ASSUME RealInv PROVE RecoveredIsReal
  <2>1. disk \in Seq(Frames) /\ buffer \in Seq(Records) /\ AllSaved(Full, saved) /\ Len(disk) \in Nat
      BY Zenon, <1>1, LenProperties DEF RealInv, LogInv, LogTypes, SavedInv
  <2>2. Full \in Seq(Frames) /\ CutFrom(Len(disk), disk, Full)
      BY Zenon, <2>1, LogConcat, DiskIsCut, CutWhole DEF Full, Log
  <2>3. AllSaved(disk, saved)
      BY Zenon, <2>1, <2>2, CutKeeps
  <2>4. PICK k \in 0 .. Len(disk) : ReadableTo(disk, k) /\ LoadStateWAL(disk) = StateAt(disk, k)
      BY Zenon, <2>1, LoadedAt
  <2>5. CASE k = 0
      BY Zenon, <2>4, <2>5 DEF StateAt, RecoveredIsReal
  <2>6. CASE k # 0
      BY <2>3, <2>4, <2>6 DEF AllSaved, RecoveredIsReal
  <2> QED BY Zenon, <2>5, <2>6
<1>2. TornInv => RecoveredIsReal
    BY Zenon, <1>1 DEF TornInv, RecoveredIsReal
<1> QED BY <1>2, TornInit, TornNext, PTL DEF Spec

\* Under the same assumption a record that was reported durable survives every
\* crash, restart, failed write and compaction behind it, until some process
\* resumes over a torn frame or one that could not replay the log starts over
\* (Start then takes back what was acknowledged).
THEOREM AcknowledgedIsDurable ==
    ASSUME RecordsFit
    PROVE  Spec => []AckedSurvives
<1>1. ASSUME RealInv, pc = "down" PROVE LoadStateWAL(disk).step >= acked
  <2>1. disk \in Seq(Frames) /\ Full = disk /\ AllAcked(disk, synced, acked)
      BY Zenon, <1>1 DEF RealInv, LogInv, LogTypes, AckInv, Full
  <2>2. PICK k \in 0 .. Len(disk) :
              ReadableTo(disk, k) /\ Longest(disk, k) /\ LoadStateWAL(disk) = StateAt(disk, k)
      BY Zenon, <2>1, LoadedAt
  <2> QED BY Zenon, <2>1, <2>2 DEF AllAcked
<1>2. TornInv => AckedSurvives
    BY Zenon, <1>1 DEF TornInv, AckedSurvives, DurableSurvives
<1> QED BY <1>2, TornInit, TornNext, PTL DEF Spec

\* Frames that are written whole or not at all leave no torn tail.
LEMMA WholeWrites ==
    ASSUME ~MayTear, NEW b \in Seq(Records), LogTypes, disk \in Seq(Records)
    PROVE  /\ disk \o b \in Seq(Records)
           /\ \A m \in Partial(disk, b) : m \in Seq(Records)
<1>1. disk \o b \in Seq(Records)
    BY Zenon, ConcatProperties
<1>2. ASSUME NEW m \in Partial(disk, b) PROVE m \in Seq(Records)
  <2>1. PICK k \in 0 .. Len(b) - 1 : m = disk \o SubSeq(b, 1, k)
      BY Zenon, <1>2 DEF Partial
  <2>2. SubSeq(b, 1, k) \in Seq(Records)
      BY LenProperties, SubSeqProperties
  <2> QED BY Zenon, <2>1, <2>2, ConcatProperties
<1> QED BY Zenon, <1>1, <1>2

\* Where every write of a frame reaches the file whole or not at all, no
\* process ever resumes over a torn frame: there RecoveredIsReal and
\* AckedSurvives hold without that exception (NewWAL, Append).
THEOREM WholeFramesLeaveTailIntact ==
    ASSUME ~MayTear
    PROVE  Spec => []~overTorn
<1> DEFINE Inv == LogInv /\ disk \in Seq(Records) /\ ~overTorn
<1>1. ASSUME Init PROVE Inv
    BY <1>1, LogInit DEF Init
<1>2. ASSUME Inv, [Next]_vars PROVE Inv'
  <2>1. LogTypes /\ LogInv' /\ disk \in Seq(Records) /\ buffer \in Seq(Records)
      BY Zenon, <1>2, LogNext DEF LogInv, LogTypes
  <2>2. ASSUME NEW b \in Seq(Records), FlushFails(b) \/ FlushSucceeds(b) PROVE disk' \in Seq(Records)
      BY Zenon, <2>1, <2>2, WholeWrites DEF FlushFails, FlushSucceeds
  <2>3. ASSUME NEW v \in Outputs, ExecuteStep(v) PROVE disk' \in Seq(Records)
    <3>1. CASE handle = "none"
        BY Zenon, <2>1, <2>3, <3>1 DEF ExecuteStep, logVars
    <3>2. CASE handle # "none"
      <4> DEFINE b == Append(buffer, WALRecord(NextState(v), seq + 1))
      <4>1. next < N /\ AppendRecord(NextState(v))
          BY Zenon, <2>3, <3>2 DEF ExecuteStep, NextState
      <4>2. NextState(v) \in States
          BY Zenon, <2>1, <4>1, StateType DEF NextState
      <4>3. WALRecord(NextState(v), seq + 1) \in Records
          BY Zenon, <2>1, <4>2, RecordType
      <4>4. b \in Seq(Records)
          BY Zenon, <2>1, <4>3, AppendProperties
      <4>5. disk' = disk \/ FlushFails(b) \/ FlushSucceeds(b)
          BY Zenon, <4>1 DEF AppendRecord
      <4> QED BY Zenon, <2>1, <2>2, <4>4, <4>5
    <3> QED BY Zenon, <3>1, <3>2
  <2>4. ASSUME MaybeCompact PROVE disk' \in Seq(Records)
    <3>1. \/ disk' = disk \/ FlushFails(buffer) \/ disk' = disk \o buffer
          \/ disk' = Compacted(disk \o buffer)
        BY Zenon, <2>4 DEF MaybeCompact, Compact, logVars
    <3>2. disk \o buffer \in Seq(Frames)
        BY Zenon, <2>1, LogConcat DEF LogTypes
    <3>3. Compacted(disk \o buffer) \in Seq(Records)
        BY Zenon, <3>2, CompactedType
    <3> QED BY ZenonT(40), <2>1, <2>2, <3>1, <3>3, WholeWrites
  <2>5. ASSUME SyncLoop PROVE disk' \in Seq(Records)
      BY Zenon, <2>1, <2>2, <2>5 DEF SyncLoop
  <2>6. ASSUME Close PROVE disk' \in Seq(Records)
      BY Zenon, <2>1, <2>6, WholeWrites DEF Close
  <2>7. ASSUME Crash PROVE disk' \in Seq(Records)
    <3>1. PICK l \in {disk, disk \o buffer} : \E n \in synced .. Len(l) : disk' = SubSeq(l, 1, n)
        BY Zenon, <2>7 DEF Crash
    <3>2. l \in Seq(Records) /\ Len(l) \in Nat /\ synced \in Nat
      <4>1. l \in Seq(Records)
          BY Zenon, <2>1, WholeWrites
      <4> QED BY Zenon, <1>2, <4>1, LenProperties DEF LogInv
    <3>3. PICK n \in synced .. Len(l) : disk' = SubSeq(l, 1, n)
        BY Zenon, <3>1
    <3>4. SubSeq(l, 1, n) \in Seq(Records)
        BY <3>2, SubSeqProperties
    <3> QED BY Zenon, <2>1, <3>3, <3>4
  <2>8. ASSUME Start \/ SkipStep \/ UNCHANGED vars PROVE disk' \in Seq(Records)
      BY Zenon, <2>1, <2>8 DEF Start, SkipStep, vars, logVars
  <2>9. disk' \in Seq(Records)
      BY Zenon, <1>2, <2>3, <2>4, <2>5, <2>6, <2>7, <2>8 DEF Next, Finished
  <2>10. ~overTorn'
    <3>1. \A i \in DOMAIN disk : disk[i] # Torn
        BY Zenon, <2>1, IntactRecords DEF LogTypes
    <3>2. CASE Start
        BY Zenon, <1>2, <3>1, <3>2 DEF Start
    <3>3. CASE ~Start
        BY Zenon, <1>2, <3>3 DEF Next, Finished, SkipStep, ExecuteStep, MaybeCompact, SyncLoop, Close, Crash, vars
    <3> QED BY Zenon, <3>2, <3>3
  <2> QED BY Zenon, <2>1, <2>9, <2>10
<1> QED BY <1>1, <1>2, PTL DEF Spec
=============================================================================
