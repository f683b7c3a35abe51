--------------------------- MODULE ServiceProofs ----------------------------
(***************************************************************************)
(* What callers are given, whatever fails or gives up around them: the     *)
(* resumption of a paused run, the webhook server, the answers of an LLM   *)
(* node and its cache, and the stages of a pipeline.                       *)
(***************************************************************************)
EXTENDS PausedRuns, LLMCall, Pipeline, Webhook, FiniteSetTheorems, TLAPS

-----------------------------------------------------------------------------
(* Numbers and sequences *)

\* Every nonempty set of natural numbers has a least element.
LEMMA LeastNatural ==
    ASSUME NEW T \in SUBSET Nat, T # {}
    PROVE  \E x \in T : \A y \in T : x <= y
<1> DEFINE R == OpToRel(<, Nat)
<1>1. IsWellFoundedOn(R, Nat)
    BY Zenon, NatLessThanWellFounded
<1>2. \A x, y \in Nat : x < y => <<x, y>> \in R
    BY DEF OpToRel
<1> HIDE DEF R
<1>3. PICK x \in T : \A y \in T : ~(<<y, x>> \in R)
    BY Zenon, <1>1, WFMin
<1>4. \A y \in T : ~(y < x)
    BY Zenon, <1>2, <1>3
<1> QED BY <1>3, <1>4

\* The empty sequence.
LEMMA EmptySeq ==
    ASSUME NEW S
    PROVE  <<>> \in Seq(S) /\ Len(<<>>) = 0 /\ \A q \in Seq(S) : q # <<>> => Len(q) \in Nat \ {0}
OBVIOUS

\* A sequence is a function on the numbers up to its length.
LEMMA LenProperties ==
    ASSUME NEW S, NEW q \in Seq(S)
    PROVE  Len(q) \in Nat /\ DOMAIN q = 1 .. Len(q) /\ q \in [1 .. Len(q) -> S]
OBVIOUS

\* What concatenation does.
LEMMA ConcatProperties ==
    ASSUME NEW S, NEW p \in Seq(S), NEW q \in Seq(S)
    PROVE  /\ p \o q \in Seq(S) /\ Len(p \o q) = Len(p) + Len(q)
           /\ \A i \in 1 .. Len(p) + Len(q) : (p \o q)[i] = IF i <= Len(p) THEN p[i] ELSE q[i - Len(p)]
OBVIOUS

\* What SubSeq does.
LEMMA SubSeqProperties ==
    ASSUME NEW S, NEW q, NEW m \in Int, NEW n \in Int, \A i \in m .. n : q[i] \in S
    PROVE  /\ SubSeq(q, m, n) \in Seq(S) /\ Len(SubSeq(q, m, n)) = IF m <= n THEN n - m + 1 ELSE 0
           /\ \A i \in 1 .. n - m + 1 : SubSeq(q, m, n)[i] = q[m + i - 1]
OBVIOUS

\* What Append does.
LEMMA AppendProperties ==
    ASSUME NEW S, NEW q \in Seq(S), NEW e \in S
    PROVE  /\ Append(q, e) \in Seq(S) /\ Append(q, e) # <<>> /\ Len(Append(q, e)) = Len(q) + 1
           /\ Append(q, e)[Len(q) + 1] = e /\ \A i \in 1 .. Len(q) : Append(q, e)[i] = q[i]
OBVIOUS

-----------------------------------------------------------------------------
(* Paused runs                                                             *)

\* The states of a run directory, and the runs with a log: 0 is the first run.
Statuses == {"none", "paused", "resumed", "failed", "completed"}
RunIds == {0} \cup Runs

\* The types of the runs, their logs and the processes.
PausedTypeOK ==
    /\ status \in [Runs -> Statuses]
    /\ log \in [RunIds -> Nat]
    /\ runner \in [Procs -> [pc : {"idle", "checked", "parse", "loop", "save", "end"},
                             run : {NoRun} \cup RunIds, step : Nat,
                             end : {"none", "failed", "paused", "completed"}]]

(* A request works on a run directory and the first process on run 0, each *)
(* only until it ends; a run that ends knows its last status.              *)
RunnerInv ==
    \A h \in Procs :
        /\ runner[h].run = NoRun <=> runner[h].pc = "idle"
        /\ h = Cli => runner[h].run \in {0, NoRun} /\ runner[h].pc \notin {"checked", "parse"}
        /\ h # Cli => runner[h].run # 0
        /\ runner[h].pc = "end" => runner[h].end # "none"

\* The inductive invariant of who owns a run.
OwnedInv == PausedTypeOK /\ RunnerInv /\ ResumedIsOwned

\* The run directory PauseWorkflow makes.
RunMade == CHOOSE n \in Runs : status[n] = "none" /\ \A m \in 1..(n - 1) : status[m] # "none"

\* PauseWorkflow finds a run directory that is free, where there is one.
LEMMA FreeRun ==
    ASSUME \E n \in Runs : status[n] = "none"
    PROVE  RunMade \in Runs /\ status[RunMade] = "none"
<1> DEFINE T == {n \in Runs : status[n] = "none"}
<1>0. T \in SUBSET Nat /\ T # {}
    BY PausedAssumption DEF Runs
<1>1. PICK x \in T : \A y \in T : x <= y
    BY Zenon, <1>0, LeastNatural
<1>2. \A m \in 1..(x - 1) : m \in Runs /\ m \notin T
    BY <1>1, PausedAssumption DEF Runs
<1> QED BY Zenon, <1>1, <1>2 DEF RunMade

\* What PauseWorkflow does, with the run directory it creates named.
LEMMA PauseEffect ==
    ASSUME NEW h \in Procs, PauseWorkflow(h)
    PROVE  \E r \in Runs :
              /\ AtStep(h) /\ status[r] = "none"
              /\ status' = [status EXCEPT ![r] = "paused"]
              /\ \/ /\ log' = [log EXCEPT ![r] = log[runner[h].run]]
                    /\ excuse' = IF runner[h].run # 0 THEN excuse \cup {"repeat"} ELSE excuse
                 \/ /\ log' = [log EXCEPT ![r] = 0]
                    /\ excuse' = excuse \cup {"repeat"}
              /\ runner' = endWith(h, "paused")
              /\ UNCHANGED observed
<1>1. RunMade \in Runs /\ status[RunMade] = "none"
    BY Zenon, FreeRun DEF PauseWorkflow
<1> QED BY Zenon, <1>1 DEF PauseWorkflow, RunMade, copyWAL

\* Run 0 has no run directory, and no run at all is not a run.
LEMMA RunNumbers == NoRun \notin RunIds /\ 0 \notin Runs /\ NoRun # 0
    BY PausedAssumption DEF NoRun, RunIds, Runs

\* The first run starts, and no run directory is there.
LEMMA OwnedInit == PausedInit => OwnedInv
<1> SUFFICES ASSUME PausedInit PROVE OwnedInv
    BY Zenon
<1> USE RunNumbers DEF PausedInit, Statuses, RunIds, idle
<1>1. PausedTypeOK
    BY Zenon DEF PausedTypeOK
<1>2. RunnerInv
    BY Zenon DEF RunnerInv
<1>3. ResumedIsOwned
    BY Zenon DEF ResumedIsOwned
<1> QED BY Zenon, <1>1, <1>2, <1>3 DEF OwnedInv

\* Every step keeps the types, and an owner for every run that is resumed.
LEMMA OwnedNext == OwnedInv /\ [PausedNext]_pausedVars => OwnedInv'
<1> SUFFICES ASSUME OwnedInv, [PausedNext]_pausedVars PROVE OwnedInv'
    BY Zenon
<1> USE PausedAssumption, RunNumbers
    DEF OwnedInv, PausedTypeOK, RunnerInv, ResumedIsOwned, Statuses, RunIds, Procs, idle
<1>1. ASSUME NEW h \in Procs, NEW r \in Runs, LoadRunMeta(h, r) PROVE OwnedInv'
    BY <1>1 DEF LoadRunMeta
<1>2. ASSUME NEW h \in Procs, markResumed(h) PROVE OwnedInv'
    BY <1>2 DEF markResumed, UpdateRunMetaStatus
<1>3. ASSUME NEW h \in Procs, parseFails(h) PROVE OwnedInv'
    BY Zenon, <1>3 DEF parseFails
<1>4. ASSUME NEW h \in Procs, policyRejects(h) PROVE OwnedInv'
    BY <1>4 DEF policyRejects, UpdateRunMetaStatus
<1>5. ASSUME NEW h \in Procs, initResumeState(h) PROVE OwnedInv'
    BY <1>5 DEF initResumeState, resumeFromStep
<1>17. ASSUME NEW h \in Procs, nodePanics(h) PROVE OwnedInv'
    BY Zenon, <1>17 DEF nodePanics, AtStep
<1>6. ASSUME NEW h \in Procs, executeStep(h) PROVE OwnedInv'
    BY <1>6 DEF executeStep, AtStep, observed
<1>7. ASSUME NEW h \in Procs, saveCP(h) PROVE OwnedInv'
  <2>1. runner[h].run \in RunIds /\ runner[h].step \in Nat
      BY Zenon, <1>7 DEF saveCP
  <2> QED BY <1>7, <2>1 DEF saveCP, advance
<1>8. ASSUME NEW h \in Procs, skipStep(h) PROVE OwnedInv'
    BY <1>8 DEF skipStep, AtStep, advance
<1>9. ASSUME NEW h \in Procs, stepFails(h) PROVE OwnedInv'
    BY <1>9 DEF stepFails, AtStep, endWith
<1>10. ASSUME NEW h \in Procs, PauseWorkflow(h) PROVE OwnedInv'
  <2>1. PICK r \in Runs :
            /\ AtStep(h) /\ status[r] = "none"
            /\ status' = [status EXCEPT ![r] = "paused"]
            /\ log' = [log EXCEPT ![r] = log[runner[h].run]] \/ log' = [log EXCEPT ![r] = 0]
            /\ excuse \subseteq excuse'
            /\ runner' = endWith(h, "paused")
      BY Zenon, <1>10, PauseEffect
  <2>2. runner[h].run \in RunIds
      BY Zenon, <2>1 DEF AtStep
  <2>3. ResumedIsOwned'
      BY <2>1 DEF AtStep, endWith
  <2>4. RunnerInv'
      BY <2>1 DEF AtStep, endWith
  <2> QED BY <2>1, <2>2, <2>3, <2>4 DEF AtStep, endWith
<1>11. ASSUME NEW h \in Procs, leaveLoop(h) PROVE OwnedInv'
    BY <1>11 DEF leaveLoop, endWith
<1>12. ASSUME NEW h \in Procs, resumeEnds(h) PROVE OwnedInv'
    BY <1>12 DEF resumeEnds, UpdateRunMetaStatus
<1>13. CASE SignalShutdown
    BY Zenon, <1>13 DEF SignalShutdown
<1>14. CASE RestartServer
    BY <1>14 DEF RestartServer, lostWork
<1>15. CASE CliCrash
    BY Zenon, <1>15 DEF CliCrash, lostWork
<1>16. CASE UNCHANGED pausedVars
    BY Zenon, <1>16 DEF pausedVars
<1> QED BY Zenon, <1>1, <1>2, <1>3, <1>4, <1>5, <1>6, <1>7, <1>8, <1>9, <1>10, <1>11, <1>12, <1>13,
           <1>14, <1>15, <1>16, <1>17 DEF PausedNext, runnerStep

\* A run that is marked as resumed has a request that works on it, unless a
\* crash, a panic of a node, an unreadable workflow file or metadata that could
\* not be written has stranded one (ResumeWorkflow, UpdateRunMetaStatus).
THEOREM ResumedRunsAreOwned == PausedSpec => []ResumedIsOwned
<1>1. OwnedInv => ResumedIsOwned
    BY Zenon DEF OwnedInv
<1> QED BY OwnedInit, OwnedNext, <1>1, PTL DEF PausedSpec

(* A log and a loop are behind steps that were passed.                     *)
PassedInv ==
    /\ \A r \in RunIds : 1..log[r] \subseteq passed
    /\ \A h \in Procs :
          /\ runner[h].pc = "loop" => 1..(runner[h].step - 1) \subseteq passed
          /\ runner[h].pc = "save" => 1..runner[h].step \subseteq passed
          /\ runner[h].pc = "end" /\ runner[h].end = "completed" /\ runner[h].run \notin cut
                => Steps \subseteq passed
    /\ \A r \in Runs \ cut : status[r] = "completed" => Steps \subseteq passed

\* Nothing is saved and no loop has passed anything at the start.
LEMMA PassedInit == PausedInit => PassedInv
    BY DEF PausedInit, PassedInv, RunIds, idle

\* Every step keeps the logs and the loops behind what was passed.
LEMMA PassedNext == OwnedInv /\ PassedInv /\ [PausedNext]_pausedVars => PassedInv'
<1> SUFFICES ASSUME OwnedInv, PassedInv, [PausedNext]_pausedVars PROVE PassedInv'
    BY Zenon
<1> USE RunNumbers DEF OwnedInv, PausedTypeOK, RunnerInv, PassedInv, observed
<1>1. ASSUME NEW h \in Procs, NEW r \in Runs, LoadRunMeta(h, r) PROVE PassedInv'
    BY <1>1 DEF LoadRunMeta
<1>2. ASSUME NEW h \in Procs, markResumed(h) PROVE PassedInv'
    BY <1>2 DEF markResumed, UpdateRunMetaStatus
<1>3. ASSUME NEW h \in Procs, parseFails(h) PROVE PassedInv'
    BY Zenon, <1>3 DEF parseFails, idle
<1>4. ASSUME NEW h \in Procs, policyRejects(h) PROVE PassedInv'
    BY Zenon, <1>4 DEF policyRejects, UpdateRunMetaStatus, idle
<1>5. ASSUME NEW h \in Procs, initResumeState(h) PROVE PassedInv'
  <2>1. runner[h].run \in RunIds
      BY Zenon, <1>5 DEF initResumeState
  <2>2. resumeFromStep(runner[h].run) - 1 = log[runner[h].run]
      BY <2>1 DEF resumeFromStep
  <2>3. 1..(1 - 1) = {}
      OBVIOUS
  <2> QED BY <1>5, <2>1, <2>2, <2>3 DEF initResumeState
<1>17. ASSUME NEW h \in Procs, nodePanics(h) PROVE PassedInv'
    BY Zenon, <1>17 DEF nodePanics, AtStep, idle
<1>6. ASSUME NEW h \in Procs, executeStep(h) PROVE PassedInv'
  <2>1. runner[h].step \in Nat /\ 1..runner[h].step \subseteq passed'
      BY <1>6 DEF executeStep, AtStep
  <2> QED BY <1>6, <2>1 DEF executeStep, AtStep
<1>7. ASSUME NEW h \in Procs, saveCP(h) PROVE PassedInv'
  <2>1. runner[h].run \in RunIds /\ runner[h].step \in Nat
      BY Zenon, <1>7 DEF saveCP
  <2>2. runner[h].step + 1 - 1 = runner[h].step
      BY <2>1
  <2> QED BY <1>7, <2>1, <2>2 DEF saveCP, advance
<1>8. ASSUME NEW h \in Procs, skipStep(h) PROVE PassedInv'
  <2>1. runner[h].step \in Nat /\ 1..runner[h].step \subseteq passed'
      BY <1>8 DEF skipStep, AtStep
  <2>2. runner[h].step + 1 - 1 = runner[h].step
      BY <2>1
  <2> QED BY <1>8, <2>1, <2>2 DEF skipStep, AtStep, advance
<1>9. ASSUME NEW h \in Procs, stepFails(h) PROVE PassedInv'
    BY <1>9 DEF stepFails, AtStep, endWith
<1>10. ASSUME NEW h \in Procs, PauseWorkflow(h) PROVE PassedInv'
  <2>1. PICK r \in Runs :
            /\ AtStep(h) /\ status[r] = "none"
            /\ status' = [status EXCEPT ![r] = "paused"]
            /\ log' = [log EXCEPT ![r] = log[runner[h].run]] \/ log' = [log EXCEPT ![r] = 0]
            /\ runner' = endWith(h, "paused") /\ UNCHANGED observed
      BY Zenon, <1>10, PauseEffect
  <2>2. runner[h].run \in RunIds
      BY Zenon, <2>1 DEF AtStep
  <2>3. \A q \in RunIds : 1..log'[q] \subseteq passed'
      BY <2>1, <2>2
  <2> QED BY <2>1, <2>3 DEF AtStep, endWith
<1>11. ASSUME NEW h \in Procs, leaveLoop(h) PROVE PassedInv'
  <2>1. runner[h].step > LastStep => Steps \subseteq passed
      BY <1>11, PausedAssumption DEF leaveLoop, Steps
  <2>2. runner[h].step \in Nat
      BY Zenon, <1>11
  <2> QED BY <1>11, <2>1, <2>2, PausedAssumption DEF leaveLoop, endWith
<1>12. ASSUME NEW h \in Procs, resumeEnds(h) PROVE PassedInv'
    BY <1>12 DEF resumeEnds, UpdateRunMetaStatus, idle
<1>13. CASE SignalShutdown
    BY Zenon, <1>13 DEF SignalShutdown
<1>14. CASE RestartServer
    BY Zenon, <1>14 DEF RestartServer, idle
<1>15. CASE CliCrash
    BY Zenon, <1>15 DEF CliCrash, idle
<1>16. CASE UNCHANGED pausedVars
    BY Zenon, <1>16 DEF pausedVars
<1> QED BY Zenon, <1>1, <1>2, <1>3, <1>4, <1>5, <1>6, <1>7, <1>8, <1>9, <1>10, <1>11, <1>12, <1>13,
           <1>14, <1>15, <1>16, <1>17 DEF PausedNext, runnerStep

\* No resumption passes over a step: what a log claims and what a run marked
\* as completed claims was executed or skipped by its condition, whatever
\* crashes, failed saves and concurrent requests there were (initResumeState).
THEOREM NoStepPassedOver == PausedSpec => []NothingPassedOver
<1>1. PassedInv => NothingPassedOver
    BY Zenon DEF PassedInv, NothingPassedOver, RunIds
<1> QED BY OwnedInit, OwnedNext, PassedInit, PassedNext, <1>1, PTL DEF PausedSpec

(* What holds as long as nothing has happened that may repeat a step: one  *)
(* run directory at most, one request at most that works on it, and only   *)
(* then when the first run is over; and every step executed so far lies    *)
(* behind the log of the run that is alive.                                *)
Singular ==
    /\ \A r, q \in Runs : status[r] # "none" /\ status[q] # "none" => r = q
    /\ \A g, h \in Resumers : runner[g].run = runner[h].run /\ runner[g].run # NoRun => g = h
    /\ \A h \in Resumers : runner[h].run # NoRun => status[runner[h].run] # "none"
    /\ runner[Cli].pc \in {"loop", "save"} => \A r \in Runs : status[r] = "none"

\* Every step that succeeded is covered by the log of the run that is alive, or
\* its process is about to save it.
DoneBehind ==
    /\ runner[Cli].pc = "loop" => done \subseteq 1..log[0]
    /\ \A r \in Runs :
          status[r] # "none" => \/ done \subseteq 1..log[r]
                               \/ \E h \in Resumers : runner[h].run = r /\ runner[h].pc = "save"
    /\ \A h \in Procs :
          /\ runner[h].pc \in {"loop", "save"} => log[runner[h].run] < runner[h].step
          /\ runner[h].pc = "save" => done \subseteq 1..runner[h].step

\* The inductive invariant of the steps done once.
OnceInv == "repeat" \in excuse \/ (~twice /\ Singular /\ DoneBehind)

\* The first run has executed nothing, and no run directory is there.
LEMMA OnceInit == PausedInit => OnceInv
    BY RunNumbers, PausedAssumption DEF PausedInit, OnceInv, Singular, DoneBehind, RunIds, Procs, idle

\* Every step keeps the run that is alive the only one, unless a fault lets
\* steps be repeated from then on.
LEMMA OnceNext == OwnedInv /\ OnceInv /\ [PausedNext]_pausedVars => OnceInv'
<1> SUFFICES ASSUME OwnedInv, OnceInv, [PausedNext]_pausedVars, "repeat" \notin excuse'
             PROVE  ~twice' /\ Singular' /\ DoneBehind'
    BY Zenon DEF OnceInv
<1>0. "repeat" \notin excuse /\ ~twice /\ Singular /\ DoneBehind
  <2>1. excuse \subseteq excuse' \/ "repeat" \in excuse'
    <3>1. ASSUME NEW h \in Procs, PauseWorkflow(h) PROVE excuse \subseteq excuse'
        BY Zenon, <3>1, PauseEffect
    <3>2. ASSUME NEW h \in Procs, runnerStep(h) PROVE excuse \subseteq excuse'
        BY Zenon, <3>1, <3>2 DEF runnerStep, LoadRunMeta, markResumed, parseFails, policyRejects,
           initResumeState, executeStep, saveCP, skipStep, stepFails, leaveLoop, resumeEnds,
           UpdateRunMetaStatus, nodePanics
    <3> QED BY Zenon, <3>2 DEF PausedNext, SignalShutdown, RestartServer, CliCrash, lostWork, pausedVars
  <2> QED BY Zenon, <2>1 DEF OnceInv
<1> USE RunNumbers, PausedAssumption, <1>0
    DEF OwnedInv, PausedTypeOK, RunnerInv, Singular, DoneBehind, Procs, RunIds, observed
<1> DEFINE Goal == ~twice' /\ Singular' /\ DoneBehind'
<1>1. ASSUME NEW h \in Procs, NEW r \in Runs, LoadRunMeta(h, r) PROVE Goal
    BY <1>1 DEF LoadRunMeta
<1>2. ASSUME NEW h \in Procs, markResumed(h) PROVE Goal
    BY <1>2 DEF markResumed, UpdateRunMetaStatus
<1>3. ASSUME NEW h \in Procs, parseFails(h) PROVE Goal
    BY <1>3 DEF parseFails, idle
<1>4. ASSUME NEW h \in Procs, policyRejects(h) PROVE Goal
    BY <1>4 DEF policyRejects, UpdateRunMetaStatus, idle
<1>5. ASSUME NEW h \in Procs, initResumeState(h) PROVE Goal
    BY <1>5 DEF initResumeState, resumeFromStep
<1>17. ASSUME NEW h \in Procs, nodePanics(h) PROVE Goal
    BY <1>17 DEF nodePanics, AtStep, idle
<1>6. ASSUME NEW h \in Procs, executeStep(h) PROVE Goal
  <2>1. /\ runner[h].pc = "loop" /\ runner[h].step \in Nat /\ runner[h].run \in RunIds
        /\ runner' = [runner EXCEPT ![h].pc = "save"] /\ UNCHANGED <<status, log>>
        /\ done' = done \cup {runner[h].step} /\ twice' = (twice \/ runner[h].step \in done)
      BY <1>6 DEF executeStep, AtStep
  <2>2. done \subseteq 1..log[runner[h].run] /\ log[runner[h].run] < runner[h].step
      BY <2>1
  <2>3. ~twice' /\ done' \subseteq 1..runner[h].step
    <3>1. log[runner[h].run] \in Nat
        BY <2>1
    <3>2. runner[h].step \notin done /\ runner[h].step >= 1
        BY <2>1, <2>2, <3>1
    <3>3. done' \subseteq 1..runner[h].step
        BY <2>1, <2>2, <3>1, <3>2
    <3> QED BY Zenon, <1>0, <2>1, <3>2, <3>3
  <2>4. Singular'
      BY <2>1
  <2>5. \A r \in Runs : status'[r] # "none" => runner[h].run = r /\ h \in Resumers
      BY <2>1
  <2> QED BY <2>1, <2>2, <2>3, <2>4, <2>5
<1>7. ASSUME NEW h \in Procs, saveCP(h) PROVE Goal
    BY <1>7 DEF saveCP, advance
<1>8. ASSUME NEW h \in Procs, skipStep(h) PROVE Goal
    BY <1>8 DEF skipStep, AtStep, advance
<1>9. ASSUME NEW h \in Procs, stepFails(h) PROVE Goal
    BY <1>9 DEF stepFails, AtStep, endWith
<1>10. ASSUME NEW h \in Procs, PauseWorkflow(h) PROVE Goal
  <2>1. PICK r \in Runs :
            /\ AtStep(h) /\ status[r] = "none" /\ runner[h].run = 0
            /\ status' = [status EXCEPT ![r] = "paused"]
            /\ log' = [log EXCEPT ![r] = log[runner[h].run]]
            /\ runner' = endWith(h, "paused") /\ UNCHANGED observed
      BY <1>10, PauseEffect
  <2> QED BY <2>1 DEF AtStep, endWith
<1>11. ASSUME NEW h \in Procs, leaveLoop(h) PROVE Goal
    BY <1>11 DEF leaveLoop, endWith
<1>12. ASSUME NEW h \in Procs, resumeEnds(h) PROVE Goal
    BY <1>12 DEF resumeEnds, UpdateRunMetaStatus, idle
<1>13. CASE SignalShutdown
    BY <1>13 DEF SignalShutdown
<1>14. CASE RestartServer
    BY Zenon, <1>14 DEF RestartServer, lostWork, idle
<1>15. CASE CliCrash
    BY Zenon, <1>15 DEF CliCrash, lostWork
<1>16. CASE UNCHANGED pausedVars
    BY <1>16 DEF pausedVars
<1> QED BY Zenon, <1>1, <1>2, <1>3, <1>4, <1>5, <1>6, <1>7, <1>8, <1>9, <1>10, <1>11, <1>12, <1>13,
           <1>14, <1>15, <1>16, <1>17 DEF PausedNext, runnerStep

\* No step succeeds twice over all the resumptions of a run as long as no
\* save or copy fails, every resumption can open and replay its log, no process
\* dies at work, no two requests read the same paused run and no resumed run
\* pauses again (saveCP, initResumeState, ResumeWorkflow).
THEOREM StepsSucceedOnce == PausedSpec => []NoStepTwice
<1>1. OnceInv => NoStepTwice
    BY Zenon DEF OnceInv, NoStepTwice
<1> QED BY OwnedInit, OwnedNext, OnceInit, OnceNext, <1>1, PTL DEF PausedSpec

-----------------------------------------------------------------------------
(* The webhook server                                                      *)

\* A request that passed the check of its delivery.
Passed == {"find", "slot"}

\* The types of the requests and of the delivery cache.
HandlerType == handler \in [Handlers -> {Idle} \cup [at : {"auth"} \cup Passed, d : Deliveries]]
SeenType == seen \in [Deliveries -> {"no", "fresh", "expired"}]

(* One request in hand at most, and none beside an accepted task; either   *)
(* keeps the delivery in the cache, where the sweep leaves it.             *)
DeliveryInv ==
    /\ HandlerType /\ SeenType /\ accepted \in [Deliveries -> {0, 1}]
    /\ \A d \in Deliveries : accepted[d] = 1 \/ InHand(d) => seen[d] = "fresh"
    /\ \A d \in Deliveries : accepted[d] = 1 => ~InHand(d)
    /\ \A g, h \in Handlers :
          handler[g].at \in Passed /\ handler[h].at \in Passed /\ handler[g].d = handler[h].d
              => g = h

\* The server starts with an empty cache and nobody in hand.
LEMMA DeliveryInit == WebhookInit => DeliveryInv
    BY DEF WebhookInit, DeliveryInv, HandlerType, SeenType, InHand, Passed, Idle

\* Every step keeps at most one request and one task per delivery.
LEMMA DeliveryStep == DeliveryInv /\ [WebhookNext]_webhookVars => DeliveryInv'
<1> SUFFICES ASSUME DeliveryInv, [WebhookNext]_webhookVars PROVE DeliveryInv'
    BY Zenon
<1> USE DEF DeliveryInv, HandlerType, SeenType, InHand, Passed, Idle
<1>1. ASSUME UNCHANGED <<handler, seen, accepted>> PROVE DeliveryInv'
    BY Zenon, <1>1
<1>2. ASSUME NEW h \in Handlers, NEW d \in Deliveries, receive(h, d) PROVE DeliveryInv'
    BY <1>2 DEF receive
<1>3. ASSUME NEW h \in Handlers, Record(h) PROVE DeliveryInv'
  <2> DEFINE d == handler[h].d
  <2>1. handler[h].at = "auth" /\ d \in Deliveries
      BY <1>3 DEF Record
  <2>2. CASE seen[d] = "fresh"
      BY <1>3, <2>1, <2>2 DEF Record, Answered
  <2>3. CASE seen[d] # "fresh"
    <3>1. /\ handler' = [handler EXCEPT ![h].at = "find"] /\ accepted' = accepted
          /\ accepted[d] = 0 /\ ~InHand(d)
        BY Zenon, <1>3, <2>1, <2>3 DEF Record
    <3>2. /\ seen' \in [Deliveries -> {"no", "fresh", "expired"}] /\ seen'[d] = "fresh"
          /\ \A e \in Deliveries : seen[e] = "fresh" => seen'[e] = "fresh"
        BY ZenonT(60), <1>3, <2>1, <2>3 DEF Record, sweepLocked
    <3>3. handler' \in [Handlers -> {Idle} \cup [at : {"auth"} \cup Passed, d : Deliveries]]
        BY <2>1, <3>1
    <3>4. \A g \in Handlers \ {h} : handler'[g] = handler[g]
        BY Zenon, <3>1
    <3>5. handler'[h].at = "find" /\ handler'[h].d = d
        BY <2>1, <3>1
    <3> QED BY <3>1, <3>2, <3>3, <3>4, <3>5
  <2> QED BY Zenon, <2>2, <2>3
<1>4. ASSUME NEW h \in Handlers, takeSlot(h) PROVE DeliveryInv'
  <2>1. handler[h].at = "find" /\ UNCHANGED <<seen, accepted>>
      BY Zenon, <1>4 DEF takeSlot
  <2>2. CASE handler' = [handler EXCEPT ![h] = Idle]
      BY <2>1, <2>2
  <2>3. CASE handler' = [handler EXCEPT ![h].at = "slot"]
    <3>1. handler'[h].at = "slot" /\ handler'[h].d = handler[h].d
        BY <2>1, <2>3
    <3>2. HandlerType'
        BY <2>1, <2>3
    <3>3. \A g \in Handlers \ {h} : handler'[g] = handler[g]
        BY Zenon, <2>3
    <3> QED BY <2>1, <3>1, <3>2, <3>3
  <2> QED BY Zenon, <1>4, <2>2, <2>3 DEF takeSlot, Answered
<1>5. ASSUME NEW h \in Handlers, addTask(h) PROVE DeliveryInv'
    BY <1>5 DEF addTask, Answered
<1>6. ASSUME NEW d \in Deliveries, ExpireDelivery(d) PROVE DeliveryInv'
    BY <1>6 DEF ExpireDelivery
<1>7. ASSUME NEW i \in Ids, runTask(i) \/ completeTask(i) \/ release(i) PROVE DeliveryInv'
    BY Zenon, <1>1, <1>7 DEF runTask, completeTask, release
<1>8. ASSUME cleanupTasks \/ cleanupStops \/ ExpireWindow \/ Stop \/ StopReturns PROVE DeliveryInv'
    BY Zenon, <1>1, <1>8 DEF cleanupTasks, cleanupStops, ExpireWindow, Stop, StopReturns
<1>9. CASE UNCHANGED webhookVars
    BY Zenon, <1>1, <1>9 DEF webhookVars
<1> QED BY Zenon, <1>2, <1>3, <1>4, <1>5, <1>6, <1>7, <1>8, <1>9 DEF WebhookNext

\* However often and concurrently a delivery arrives, one task is started
\* for it in its window, for any size of the cache (deliveryCache.Record).
THEOREM DeliveredOnce == WebhookSpec => []OncePerDelivery
<1>1. DeliveryInv => OncePerDelivery
    BY DEF DeliveryInv, OncePerDelivery
<1> QED BY DeliveryInit, DeliveryStep, <1>1, PTL DEF WebhookSpec
-----------------------------------------------------------------------------
(* Stop *)

\* The requests in hand, those about to start a task, the identifiers given
\* out and the tasks whose goroutine runs.
Requests == {h \in Handlers : handler[h].at # "idle"}
SlotHolders == {h \in Handlers : handler[h].at = "slot"}
Started == {i \in Ids : worker[i] # "none"}
Working == {i \in Ids : worker[i] \in {"start", "run", "end"}}

\* The types of the tasks and their goroutines.
TaskType ==
    /\ task \in [Ids -> {NoTask} \cup [d : Deliveries,
                                       status : {"pending", "running", "completed", "failed"}]]
    /\ worker \in [Ids -> {"none", "start", "run", "end", "gone"}]
    /\ sends \in 0..MaxSends

(* A slot belongs to a request about to start a task or to a task's        *)
(* goroutine; a task is unsettled only while its goroutine sees to it; and *)
(* every request sent is in hand, answered or a task, so an identifier is  *)
(* left for the next one.                                                  *)
TaskInv ==
    /\ TaskType
    /\ slots = Cardinality(SlotHolders) + Cardinality(Working)
    /\ Cardinality(Started) + Cardinality(Requests) <= sends
    /\ \A i \in Ids : /\ task[i].status = "pending" => worker[i] = "start"
                      /\ task[i].status = "running" => worker[i] = "run"
    /\ server = "stopped" => Requests = {} /\ Working = {}

\* The sets that are counted are finite.
LEMMA CountedFinite ==
    /\ IsFiniteSet(Requests) /\ IsFiniteSet(SlotHolders) /\ IsFiniteSet(Started) /\ IsFiniteSet(Working)
    /\ IsFiniteSet(Ids) /\ Cardinality(Ids) = MaxSends
<1>1. IsFiniteSet(Ids) /\ Cardinality(Ids) = MaxSends
  <2>1. MaxSends \in Nat
      BY Zenon, WebhookAssumption
  <2>2. MaxSends \in Int /\ 1 \in Int /\ (IF 1 > MaxSends THEN 0 ELSE MaxSends - 1 + 1) = MaxSends
      BY <2>1
  <2>3. /\ IsFiniteSet(1 .. MaxSends)
        /\ Cardinality(1 .. MaxSends) = IF 1 > MaxSends THEN 0 ELSE MaxSends - 1 + 1
      BY <2>2, FS_Interval
  <2>4. Cardinality(1 .. MaxSends) = MaxSends
      BY <2>2, <2>3
  <2> QED BY Zenon, <2>3, <2>4 DEF Ids
<1>2. Requests \subseteq Handlers /\ SlotHolders \subseteq Handlers
    BY Zenon DEF Requests, SlotHolders
<1>3. Started \subseteq Ids /\ Working \subseteq Ids
    BY Zenon DEF Started, Working
<1> QED BY Zenon, <1>1, <1>2, <1>3, FS_Subset, WebhookAssumption

\* One more in a set, one more counted.
LEMMA CountAdd ==
    ASSUME NEW S, IsFiniteSet(S), NEW x, x \notin S
    PROVE  Cardinality(S \cup {x}) = Cardinality(S) + 1
    BY Zenon, FS_AddElement

\* One less in a set, one less counted.
LEMMA CountRemove ==
    ASSUME NEW S, IsFiniteSet(S), NEW x \in S
    PROVE  Cardinality(S \ {x}) = Cardinality(S) - 1
    BY Zenon, FS_RemoveElement

\* Nothing is counted before the first request.
LEMMA TaskInit == WebhookInit => TaskInv
<1> SUFFICES ASSUME WebhookInit PROVE TaskInv
    BY Zenon
<1>1. TaskType
    BY WebhookAssumption DEF WebhookInit, TaskType
<1>2. Requests = {} /\ SlotHolders = {} /\ Started = {} /\ Working = {}
    BY Zenon DEF WebhookInit, Requests, SlotHolders, Started, Working, Idle
<1> QED BY <1>1, <1>2, FS_EmptySet DEF WebhookInit, TaskInv, NoTask

\* A step that leaves the goroutines and the requests as they are, or
\* settles tasks that were settled before.
LEMMA TaskQuiet ==
    ASSUME TaskInv, UNCHANGED <<handler, worker, slots, sends>>, TaskType',
           \A i \in Ids : task'[i].status \in {task[i].status, "none"},
           server' = "stopped" => server = "stopped" \/ (Requests = {} /\ Working = {})
    PROVE  TaskInv'
<1>1. Requests' = Requests /\ SlotHolders' = SlotHolders /\ Started' = Started /\ Working' = Working
    BY Zenon DEF Requests, SlotHolders, Started, Working
<1> QED BY Zenon, <1>1 DEF TaskInv

\* A request: it is in hand from the limiter to its answer.
LEMMA TaskRequest ==
    ASSUME TaskInv, DeliveryInv, NEW h \in Handlers,
           (\E d \in Deliveries : receive(h, d)) \/ Record(h) \/ takeSlot(h)
    PROVE  TaskInv'
<1> USE DEF DeliveryInv, HandlerType, Passed, Idle
<1>1. /\ UNCHANGED <<task, worker, server>>
      /\ Started' = Started /\ Working' = Working
    BY Zenon DEF receive, Record, takeSlot, taskVars, Started, Working
<1>2. /\ Cardinality(Requests) \in Nat /\ Cardinality(SlotHolders) \in Nat
      /\ Cardinality(Started) \in Nat /\ Cardinality(Working) \in Nat
    BY Zenon, CountedFinite, FS_CardinalityType
<1>3. ASSUME TaskType', slots' = Cardinality(SlotHolders') + Cardinality(Working),
             Cardinality(Started) + Cardinality(Requests') <= sends',
             server = "stopped" => Requests' = {}
      PROVE  TaskInv'
    BY Zenon, <1>1, <1>3 DEF TaskInv
<1>4. ASSUME NEW d \in Deliveries, receive(h, d) PROVE TaskInv'
  <2>1. /\ server = "up" /\ handler[h].at = "idle" /\ slots' = slots
        /\ sends < MaxSends /\ sends' = sends + 1
      BY Zenon, <1>4 DEF receive, taskVars
  <2>2. TaskType'
    <3>1. TaskType /\ sends \in 0..MaxSends /\ MaxSends \in Nat
        BY Zenon, WebhookAssumption DEF TaskInv, TaskType
    <3>2. sends' \in 0..MaxSends
        BY <2>1, <3>1
    <3> QED BY Zenon, <1>1, <3>1, <3>2 DEF TaskType
  <2>3. CASE handler' = handler
    <3>1. Requests' = Requests /\ SlotHolders' = SlotHolders
        BY Zenon, <2>3 DEF Requests, SlotHolders
    <3>2. /\ slots = Cardinality(SlotHolders) + Cardinality(Working) /\ sends \in 0..MaxSends
          /\ Cardinality(Started) + Cardinality(Requests) <= sends
        BY Zenon DEF TaskInv, TaskType
    <3>3. Cardinality(Started) + Cardinality(Requests) <= sends'
        BY SMTT(30), <1>2, <2>1, <3>2
    <3> QED BY Zenon, <1>3, <2>1, <2>2, <3>1, <3>2, <3>3
  <2>4. CASE handler' = [handler EXCEPT ![h] = [at |-> "auth", d |-> d]]
    <3>1. Requests' = Requests \cup {h} /\ h \notin Requests /\ SlotHolders' = SlotHolders
        BY Zenon, <2>1, <2>4 DEF Requests, SlotHolders
    <3>2. Cardinality(Requests') = Cardinality(Requests) + 1
        BY Zenon, <3>1, CountedFinite, CountAdd
    <3> QED BY <1>2, <1>3, <2>1, <2>2, <3>1, <3>2 DEF TaskInv, TaskType
  <2> QED BY Zenon, <1>4, <2>3, <2>4 DEF receive
<1>5. ASSUME handler[h].at # "idle", slots' = slots, sends' = sends, handler[h].at # "slot",
             handler' = [handler EXCEPT ![h] = Idle]
      PROVE  TaskInv'
  <2>1. Requests' = Requests \ {h} /\ h \in Requests /\ SlotHolders' = SlotHolders
      BY Zenon, <1>5 DEF Requests, SlotHolders
  <2>2. Cardinality(Requests') = Cardinality(Requests) - 1
      BY Zenon, <2>1, CountedFinite, CountRemove
  <2>3. TaskType'
      BY Zenon, <1>1, <1>5 DEF TaskInv, TaskType
  <2> QED BY <1>2, <1>3, <1>5, <2>1, <2>2, <2>3 DEF TaskInv, TaskType
<1>6. ASSUME Record(h) PROVE TaskInv'
  <2>1. handler[h].at = "auth" /\ slots' = slots /\ sends' = sends
      BY Zenon, <1>6 DEF Record, taskVars
  <2>2. CASE handler' = [handler EXCEPT ![h] = Idle]
      BY Zenon, <1>5, <2>1, <2>2
  <2>3. CASE handler' = [handler EXCEPT ![h].at = "find"]
    <3>1. handler'[h].at = "find" /\ \A g \in Handlers \ {h} : handler'[g] = handler[g]
        BY SMTT(30), <2>1, <2>3
    <3>2. Requests' = Requests /\ SlotHolders' = SlotHolders
        BY <2>1, <3>1 DEF Requests, SlotHolders
    <3>3. TaskType'
        BY Zenon, <1>1, <2>1 DEF TaskInv, TaskType
    <3> QED BY Zenon, <1>3, <2>1, <3>2, <3>3 DEF TaskInv
  <2> QED BY Zenon, <1>6, <2>2, <2>3 DEF Record, Answered
<1>7. ASSUME takeSlot(h) PROVE TaskInv'
  <2>1. handler[h].at = "find" /\ sends' = sends
      BY Zenon, <1>7 DEF takeSlot
  <2>2. CASE handler' = [handler EXCEPT ![h] = Idle] /\ slots' = slots
      BY Zenon, <1>5, <2>1, <2>2
  <2>3. CASE handler' = [handler EXCEPT ![h].at = "slot"] /\ slots' = slots + 1
    <3>1. handler'[h].at = "slot" /\ \A g \in Handlers \ {h} : handler'[g] = handler[g]
        BY <2>1, <2>3
    <3>2. Requests' = Requests /\ SlotHolders' = SlotHolders \cup {h} /\ h \notin SlotHolders
        BY <2>1, <3>1 DEF Requests, SlotHolders
    <3>3. Cardinality(SlotHolders') = Cardinality(SlotHolders) + 1
        BY Zenon, <3>2, CountedFinite, CountAdd
    <3>4. TaskType'
        BY Zenon, <1>1, <2>1 DEF TaskInv, TaskType
    <3> QED BY <1>2, <1>3, <2>1, <2>3, <3>2, <3>3, <3>4 DEF TaskInv
  <2> QED BY Zenon, <1>7, <2>2, <2>3 DEF takeSlot, Answered
<1> QED BY Zenon, <1>4, <1>6, <1>7

\* A new task takes over the slot of the request that started it.
LEMMA TaskAdded ==
    ASSUME TaskInv, DeliveryInv, NEW h \in Handlers, addTask(h)
    PROVE  TaskInv'
<1> DEFINE i == CHOOSE n \in Ids : worker[n] = "none"
<1>1. /\ Cardinality(Requests) \in Nat /\ Cardinality(SlotHolders) \in Nat
      /\ Cardinality(Started) \in Nat /\ Cardinality(Working) \in Nat
    BY Zenon, CountedFinite, FS_CardinalityType
<1>2. /\ handler[h].at = "slot" /\ handler' = [handler EXCEPT ![h] = Idle]
      /\ task' = [task EXCEPT ![i] = [d |-> handler[h].d, status |-> "pending"]]
      /\ worker' = [worker EXCEPT ![i] = "start"] /\ UNCHANGED <<server, slots, sends>>
    BY Zenon DEF addTask, Answered
<1>3. /\ Requests' = Requests \ {h} /\ h \in Requests
      /\ SlotHolders' = SlotHolders \ {h} /\ h \in SlotHolders
    BY Zenon, <1>2 DEF Requests, SlotHolders, DeliveryInv, HandlerType, Passed, Idle
<1>4. /\ Cardinality(Requests') = Cardinality(Requests) - 1
      /\ Cardinality(SlotHolders') = Cardinality(SlotHolders) - 1
    BY Zenon, <1>3, CountedFinite, CountRemove
<1>5. Cardinality(Requests) # 0
    BY Zenon, <1>3, CountedFinite, FS_EmptySet
<1>6. Started # Ids
  <2>1. sends <= MaxSends /\ MaxSends \in Nat /\ sends \in Nat
      BY WebhookAssumption DEF TaskInv, TaskType
  <2>2. Cardinality(Started) + Cardinality(Requests) <= sends
      BY Zenon DEF TaskInv
  <2>3. Cardinality(Started) < MaxSends
      BY <1>1, <1>5, <2>1, <2>2
  <2> QED BY <2>1, <2>3, CountedFinite
<1>7. \E n \in Ids : worker[n] = "none"
    BY Zenon, <1>6 DEF Started
<1>8. i \in Ids /\ worker[i] = "none"
    BY Zenon, <1>7
<1> HIDE DEF i
<1>9. /\ Started' = Started \cup {i} /\ i \notin Started
      /\ Working' = Working \cup {i} /\ i \notin Working
    BY <1>2, <1>8 DEF Started, Working, TaskInv, TaskType
<1>10. /\ Cardinality(Started') = Cardinality(Started) + 1
       /\ Cardinality(Working') = Cardinality(Working) + 1
    BY Zenon, <1>9, CountedFinite, CountAdd
<1>11. TaskType'
    BY <1>2, <1>8 DEF TaskInv, TaskType, DeliveryInv, HandlerType, Passed, Idle
<1>12. server' # "stopped"
    BY Zenon, <1>2, <1>3 DEF TaskInv
<1>13. \A n \in Ids : /\ task'[n].status = "pending" => worker'[n] = "start"
                      /\ task'[n].status = "running" => worker'[n] = "run"
    BY Zenon, <1>2, <1>8 DEF TaskInv, TaskType
<1>14. /\ slots' = Cardinality(SlotHolders') + Cardinality(Working')
       /\ Cardinality(Started') + Cardinality(Requests') <= sends'
  <2>1. /\ slots = Cardinality(SlotHolders) + Cardinality(Working) /\ sends \in Int
        /\ Cardinality(Started) + Cardinality(Requests) <= sends
        /\ slots' = slots /\ sends' = sends
      BY <1>2 DEF TaskInv, TaskType
  <2> QED BY <1>1, <1>4, <1>10, <2>1
<1>15. (server = "stopped" => Requests = {} /\ Working = {})'
    BY Zenon, <1>12
<1> QED BY Zenon, <1>11, <1>13, <1>14, <1>15 DEF TaskInv

\* A task's goroutine holds its slot until it has settled the task.
LEMMA TaskRuns ==
    ASSUME TaskInv, NEW i \in Ids, runTask(i) \/ completeTask(i) \/ release(i)
    PROVE  TaskInv'
<1>1. /\ UNCHANGED <<handler, server, sends>> /\ worker[i] \in {"start", "run", "end"}
      /\ Requests' = Requests /\ SlotHolders' = SlotHolders
    BY Zenon DEF runTask, completeTask, release, Requests, SlotHolders
<1>2. i \in Working /\ server # "stopped"
    BY Zenon, <1>1 DEF TaskInv, Working
<1>3. ASSUME NEW s \in {"running", "completed", "failed"}, NEW w \in {"run", "end"},
             Update(i, s), worker' = [worker EXCEPT ![i] = w], slots' = slots,
             s = "running" => w = "run"
      PROVE  TaskInv'
  <2>1. Started' = Started /\ Working' = Working
      BY Zenon, <1>1, <1>3 DEF Started, Working, TaskInv, TaskType
  <2>2. /\ \A n \in Ids \ {i} : task'[n] = task[n] /\ worker'[n] = worker[n]
        /\ task'[i] = NoTask \/ task'[i].status = s
        /\ worker'[i] = w
      BY Zenon, <1>3 DEF Update, TaskInv, TaskType
  <2>3. TaskType'
    <3>1. task[i] = NoTask \/ [task[i] EXCEPT !.status = s] \in
              [d : Deliveries, status : {"pending", "running", "completed", "failed"}]
        BY Zenon, <1>3 DEF TaskInv, TaskType
    <3> QED BY Zenon, <1>1, <1>3, <3>1 DEF Update, TaskInv, TaskType
  <2> QED BY <1>1, <1>2, <1>3, <2>1, <2>2, <2>3 DEF TaskInv, NoTask
<1>4. ASSUME release(i) PROVE TaskInv'
  <2>1. /\ worker[i] = "end" /\ worker' = [worker EXCEPT ![i] = "gone"]
        /\ slots' = slots - 1 /\ task' = task
      BY Zenon, <1>4 DEF release
  <2>2. Started' = Started /\ Working' = Working \ {i}
      BY Zenon, <2>1 DEF Started, Working, TaskInv, TaskType
  <2>3. Cardinality(Working') = Cardinality(Working) - 1
      BY Zenon, <1>2, <2>2, CountedFinite, CountRemove
  <2>4. Cardinality(SlotHolders) \in Nat /\ Cardinality(Working) \in Nat
      BY Zenon, CountedFinite, FS_CardinalityType
  <2>5. TaskType'
      BY Zenon, <1>1, <2>1 DEF TaskInv, TaskType
  <2>6. \A n \in Ids : /\ task'[n].status = "pending" => worker'[n] = "start"
                       /\ task'[n].status = "running" => worker'[n] = "run"
      BY Zenon, <2>1 DEF TaskInv, TaskType
  <2> QED BY <1>1, <1>2, <2>1, <2>2, <2>3, <2>4, <2>5, <2>6 DEF TaskInv
<1>5. CASE runTask(i)
    BY Zenon, <1>3, <1>5 DEF runTask
<1>6. CASE completeTask(i)
    BY Zenon, <1>3, <1>6 DEF completeTask
<1> QED BY Zenon, <1>4, <1>5, <1>6

\* Every step keeps the slots accounted for and the tasks attended to.
LEMMA TaskStep == TaskInv /\ DeliveryInv /\ [WebhookNext]_webhookVars => TaskInv'
<1> SUFFICES ASSUME TaskInv, DeliveryInv, [WebhookNext]_webhookVars PROVE TaskInv'
    BY Zenon
<1>1. CASE cleanupTasks
  <2>1. /\ UNCHANGED <<handler, worker, slots, sends>> /\ server' = server
        /\ \A i \in Ids : task'[i] \in {task[i], NoTask}
      BY Zenon, <1>1 DEF cleanupTasks
  <2>2. TaskType'
      BY Zenon, <1>1, <2>1 DEF cleanupTasks, TaskInv, TaskType
  <2>3. \A i \in Ids : task'[i].status \in {task[i].status, "none"}
      BY <2>1 DEF NoTask
  <2>4. server' = "stopped" => server = "stopped" \/ (Requests = {} /\ Working = {})
      BY Zenon, <2>1
  <2> QED BY Zenon, <2>1, <2>2, <2>3, <2>4, TaskQuiet
<1>2. CASE StopReturns
  <2>1. UNCHANGED <<handler, worker, slots, sends, task>>
      BY Zenon, <1>2 DEF StopReturns, taskVars
  <2>2. server' = "stopped" => Requests = {} /\ Working = {}
      BY Zenon, <1>2 DEF StopReturns, Drained, Requests, Working
  <2> QED BY Zenon, <2>1, <2>2, TaskQuiet DEF TaskInv, TaskType
<1>3. CASE cleanupStops \/ ExpireWindow \/ (\E d \in Deliveries : ExpireDelivery(d)) \/ Stop
           \/ UNCHANGED webhookVars
  <2>1. UNCHANGED <<handler, worker, slots, sends, task>> /\ (server' = "stopped" => server = "stopped")
      BY Zenon, <1>3 DEF cleanupStops, ExpireWindow, ExpireDelivery, Stop, webhookVars, taskVars
  <2> QED BY Zenon, <2>1, TaskQuiet DEF TaskInv, TaskType
<1> QED BY Zenon, <1>1, <1>2, <1>3, TaskRequest, TaskAdded, TaskRuns DEF WebhookNext

\* When Stop returns without an error, whatever requests, panics and
\* clean-ups it raced, no accepted task is left without its final status
\* and every slot has been given back (WebhookServer.Stop).
THEOREM StopLeavesNothing == WebhookSpec => []StopSettles
<1>1. TaskInv => StopSettles
    BY FS_EmptySet, CountedFinite DEF TaskInv, TaskType, StopSettles, Requests, SlotHolders, Working
<1> QED BY TaskInit, TaskStep, DeliveryInit, DeliveryStep, <1>1, PTL DEF WebhookSpec

-----------------------------------------------------------------------------
(* The LLM node                                                            *)

\* The entries but the oldest.
Front(q) == SubSeq(q, 1, Len(q) - 1)

\* An entry answers its own key and expires a TTL after its answer.
Entries == [key : Keys, content : [key : Keys, born : Nat], expiresAt : Nat]
EntryOK(e) == e \in Entries /\ e.content.key = e.key /\ e.expiresAt = e.content.born + TTL

\* A list of such entries with no key twice.
IsCache(s) ==
    /\ s \in Seq(Entries)
    /\ \A i \in 1 .. Len(s) : EntryOK(s[i])
    /\ \A i, j \in 1 .. Len(s) : s[i].key = s[j].key => i = j

\* An entry in front of entries of other keys.
LEMMA ConsCache ==
    ASSUME NEW t, IsCache(t), NEW e, EntryOK(e), \A i \in 1 .. Len(t) : t[i].key # e.key
    PROVE  IsCache(<<e>> \o t) /\ Len(<<e>> \o t) = Len(t) + 1 /\ Len(t) \in Nat
<1>1. t \in Seq(Entries) /\ e \in Entries /\ Len(t) \in Nat
  BY Zenon, LenProperties DEF IsCache, EntryOK
<1>2. <<e>> \in Seq(Entries) /\ Len(<<e>>) = 1 /\ <<e>>[1] = e
  BY <1>1
<1>3. PICK s : s = <<e>> \o t
  BY Zenon
<1>4. s \in Seq(Entries) /\ Len(s) = Len(t) + 1 /\ s[1] = e /\ \A i \in 2 .. Len(t) + 1 : s[i] = t[i - 1]
  BY <1>1, <1>2, <1>3, ConcatProperties
<1>5. ASSUME NEW i \in 1 .. Len(t) + 1 PROVE i = 1 \/ (i \in 2 .. Len(t) + 1 /\ i - 1 \in 1 .. Len(t) /\ s[i] = t[i - 1])
  BY <1>1, <1>4
<1>6. \A i \in 1 .. Len(s) : EntryOK(s[i])
  BY Zenon, <1>4, <1>5 DEF IsCache
<1>7. ASSUME NEW i \in 1 .. Len(t) + 1, NEW j \in 1 .. Len(t) + 1, s[i].key = s[j].key PROVE i = j
  <2>1. CASE i = 1 /\ j # 1
    <3>1. j - 1 \in 1 .. Len(t) /\ s[j] = t[j - 1] BY Zenon, <2>1, <1>5
    <3>2. t[j - 1].key # e.key BY Zenon, <3>1
    <3> QED BY Zenon, <2>1, <3>1, <3>2, <1>4, <1>7
  <2>2. CASE i # 1 /\ j = 1
    <3>1. i - 1 \in 1 .. Len(t) /\ s[i] = t[i - 1] BY Zenon, <2>2, <1>5
    <3>2. t[i - 1].key # e.key BY Zenon, <3>1
    <3> QED BY Zenon, <2>2, <3>1, <3>2, <1>4, <1>7
  <2>3. CASE i # 1 /\ j # 1
    <3>1. i - 1 \in 1 .. Len(t) /\ s[i] = t[i - 1] BY Zenon, <2>3, <1>5
    <3>2. j - 1 \in 1 .. Len(t) /\ s[j] = t[j - 1] BY Zenon, <2>3, <1>5
    <3>3. t[i - 1].key = t[j - 1].key BY Zenon, <3>1, <3>2, <1>7
    <3>4. i - 1 = j - 1 BY Zenon, <3>1, <3>2, <3>3 DEF IsCache
    <3> QED BY <3>4
  <2> QED BY Zenon, <2>1, <2>2, <2>3
<1> QED BY Zenon, <1>1, <1>3, <1>4, <1>6, <1>7 DEF IsCache

\* A list without one of its elements.
LEMMA RemovedCache ==
    ASSUME NEW s, IsCache(s), NEW n \in 1 .. Len(s)
    PROVE  /\ IsCache(removeElement(s, n)) /\ Len(removeElement(s, n)) = Len(s) - 1 /\ Len(s) \in Nat
           /\ \A i \in 1 .. Len(s) - 1 : removeElement(s, n)[i].key # s[n].key
<1>1. s \in Seq(Entries) /\ Len(s) \in Nat
  BY Zenon, LenProperties DEF IsCache
<1>2. PICK a, b : a = SubSeq(s, 1, n - 1) /\ b = SubSeq(s, n + 1, Len(s))
  BY Zenon
<1>3. a \in Seq(Entries) /\ Len(a) = n - 1 /\ \A i \in 1 .. n - 1 : a[i] = s[i]
  <2>1. 1 \in 1 .. Len(s) + 1 /\ n - 1 \in 0 .. Len(s) BY <1>1
  <2> QED BY <1>1, <1>2, <2>1, SubSeqProperties
<1>4. b \in Seq(Entries) /\ Len(b) = Len(s) - n /\ \A i \in 1 .. Len(s) - n : b[i] = s[n + i]
  <2>1. n + 1 \in 1 .. Len(s) + 1 /\ Len(s) \in n .. Len(s) BY <1>1
  <2> QED BY <1>1, <1>2, <2>1, SubSeqProperties
<1>5. PICK t : t = removeElement(s, n)
  BY Zenon
<1>6. t = a \o b
  BY Zenon, <1>2, <1>5 DEF removeElement
<1>7. t \in Seq(Entries) /\ Len(t) = Len(s) - 1
  <2>1. t \in Seq(Entries) /\ Len(t) = Len(a) + Len(b) BY Zenon, <1>3, <1>4, <1>6, ConcatProperties
  <2> QED BY <2>1, <1>1, <1>3, <1>4
<1>8. ASSUME NEW i \in 1 .. Len(s) - 1
      PROVE  \E h \in 1 .. Len(s) : t[i] = s[h] /\ h = IF i < n THEN i ELSE i + 1
  <2>1. CASE i < n
    <3>1. i \in 1 .. n - 1 /\ i \in 1 .. Len(s) BY <2>1, <1>1
    <3>2. t[i] = a[i] BY <3>1, <1>3, <1>4, <1>6, ConcatProperties
    <3> QED BY Zenon, <2>1, <3>1, <3>2, <1>3
  <2>2. CASE ~(i < n)
    <3>1. i - (n - 1) \in 1 .. Len(s) - n /\ i + 1 \in 1 .. Len(s) BY <2>2, <1>1
    <3>2. i > Len(a) /\ i <= Len(a) + Len(b) BY <2>2, <1>1, <1>3, <1>4
    <3>3. t[i] = b[i - Len(a)]
      <4>1. i \in 1 .. Len(a) + Len(b) /\ ~(i <= Len(a)) BY <3>2, <1>1, <1>3, <1>4
      <4>2. t[i] = IF i <= Len(a) THEN a[i] ELSE b[i - Len(a)]
          BY Zenon, <4>1, <1>3, <1>4, <1>6, ConcatProperties
      <4> QED BY Zenon, <4>1, <4>2
    <3>4. b[i - (n - 1)] = s[n + (i - (n - 1))] BY Zenon, <3>1, <1>4
    <3>5. n + (i - (n - 1)) = i + 1 /\ i - Len(a) = i - (n - 1) BY <1>1, <1>3
    <3>6. t[i] = s[i + 1] BY Zenon, <3>3, <3>4, <3>5
    <3> QED BY Zenon, <2>2, <3>1, <3>6
  <2> QED BY Zenon, <2>1, <2>2
<1>9. \A i \in 1 .. Len(t) : EntryOK(t[i])
  <2> SUFFICES ASSUME NEW i \in 1 .. Len(s) - 1 PROVE EntryOK(t[i]) BY Zenon, <1>7
  <2>1. PICK h \in 1 .. Len(s) : t[i] = s[h] BY Zenon, <1>8
  <2> QED BY Zenon, <2>1 DEF IsCache
<1>10. ASSUME NEW i \in 1 .. Len(s) - 1, NEW j \in 1 .. Len(s) - 1, t[i].key = t[j].key PROVE i = j
  <2>1. PICK h \in 1 .. Len(s) : t[i] = s[h] /\ h = IF i < n THEN i ELSE i + 1 BY Zenon, <1>8
  <2>2. PICK l \in 1 .. Len(s) : t[j] = s[l] /\ l = IF j < n THEN j ELSE j + 1 BY Zenon, <1>8
  <2>3. h = l BY Zenon, <2>1, <2>2, <1>10 DEF IsCache
  <2>4. h = (IF i < n THEN i ELSE i + 1) /\ l = (IF j < n THEN j ELSE j + 1) BY Zenon, <2>1, <2>2
  <2>5. ASSUME NEW x \in Int, NEW y \in Int, NEW z \in Int,
               (IF x < z THEN x ELSE x + 1) = (IF y < z THEN y ELSE y + 1)
        PROVE  x = y
    BY <2>5
  <2>6. i \in Int /\ j \in Int /\ n \in Int BY <1>1
  <2> QED BY Zenon, <2>3, <2>4, <2>5, <2>6
<1>11. ASSUME NEW i \in 1 .. Len(s) - 1 PROVE t[i].key # s[n].key
  <2>1. PICK h \in 1 .. Len(s) : t[i] = s[h] /\ h = IF i < n THEN i ELSE i + 1 BY Zenon, <1>8
  <2>2. h = (IF i < n THEN i ELSE i + 1) BY Zenon, <2>1
  <2>3. h # n BY <2>2, <1>1
  <2> QED BY Zenon, <2>1, <2>3 DEF IsCache
<1> QED BY Zenon, <1>1, <1>5, <1>7, <1>9, <1>10, <1>11 DEF IsCache

\* A list without its last element.
LEMMA FrontCache ==
    ASSUME NEW s, IsCache(s), s # <<>>
    PROVE  /\ IsCache(Front(s)) /\ Len(Front(s)) = Len(s) - 1 /\ Len(s) \in Nat
           /\ \A i \in 1 .. Len(s) - 1 : Front(s)[i] = s[i]
<1>1. s \in Seq(Entries) /\ Len(s) \in Nat /\ Len(s) > 0
  BY LenProperties, EmptySeq DEF IsCache
<1>2. PICK t : t = SubSeq(s, 1, Len(s) - 1)
  BY Zenon
<1>3. t \in Seq(Entries) /\ Len(t) = Len(s) - 1 /\ \A i \in 1 .. Len(s) - 1 : t[i] = s[i]
  <2>1. PICK m \in Nat : m = Len(s) - 1 BY <1>1
  <2>2. \A i \in 1 .. m : s[i] \in Entries BY <1>1, <2>1
  <2>3. t \in Seq(Entries) /\ Len(t) = (IF 1 <= m THEN m - 1 + 1 ELSE 0) /\ \A i \in 1 .. m - 1 + 1 : t[i] = s[1 + i - 1]
    BY <1>2, <2>1, <2>2, SubSeqProperties
  <2>4. Len(t) = m BY <2>3
  <2>5. \A i \in 1 .. m : t[i] = s[i] BY <2>3
  <2> QED BY Zenon, <2>1, <2>3, <2>4, <2>5
<1>4. \A i \in 1 .. Len(t) : i \in 1 .. Len(s)
  BY <1>1, <1>3
<1>5. IsCache(t)
  BY Zenon, <1>3, <1>4 DEF IsCache
<1> QED BY Zenon, <1>1, <1>2, <1>3, <1>5 DEF Front

\* The list grows by an entry at its end.
LEMMA AppendCache ==
    ASSUME NEW t, IsCache(t), NEW e, EntryOK(e), \A i \in 1 .. Len(t) : t[i].key # e.key
    PROVE  /\ IsCache(Append(t, e)) /\ Len(Append(t, e)) = Len(t) + 1 /\ Len(t) \in Nat
           /\ \A i \in 1 .. Len(t) : Append(t, e)[i] = t[i]
           /\ Append(t, e)[Len(t) + 1] = e
<1>1. t \in Seq(Entries) /\ e \in Entries /\ Len(t) \in Nat
  BY Zenon, LenProperties DEF IsCache, EntryOK
<1>2. PICK s : s = Append(t, e)
  BY Zenon
<1>3. /\ s \in Seq(Entries) /\ Len(s) = Len(t) + 1 /\ s[Len(t) + 1] = e
      /\ \A i \in 1 .. Len(t) : s[i] = t[i]
  BY <1>1, <1>2, AppendProperties
<1>4. \A i \in 1 .. Len(s) : i \in 1 .. Len(t) \/ i = Len(t) + 1
  BY <1>1, <1>3
<1>5. \A i \in 1 .. Len(s) : EntryOK(s[i])
  BY Zenon, <1>3, <1>4 DEF IsCache
<1>6. \A i, j \in 1 .. Len(s) : s[i].key = s[j].key => i = j
  BY Zenon, <1>3, <1>4 DEF IsCache
<1> QED BY Zenon, <1>1, <1>2, <1>3, <1>5, <1>6 DEF IsCache

\* The scan of the cleanup, over the first n entries.
IsScan(f, n) ==
    f = [i \in 0 .. n |-> IF i = 0 THEN <<>>
                          ELSE IF expired(lru[i]) THEN f[i - 1] ELSE Append(f[i - 1], lru[i])]

\* The scan goes as far as one likes.
LEMMA ScanExists ==
    ASSUME NEW n \in Nat
    PROVE  \E f : IsScan(f, n)
<1> SUFFICES ASSUME ~\E f : IsScan(f, n) PROVE FALSE
  BY Zenon
<1> DEFINE T == {m \in Nat : ~\E f : IsScan(f, m)}
<1>1. T \in SUBSET Nat /\ T # {}
  BY Zenon
<1> HIDE DEF T
<1>2. PICK x \in T : \A y \in T : x <= y
  BY Zenon, <1>1, LeastNatural
<1>3. x \in Nat /\ ~\E f : IsScan(f, x)
  BY Zenon, <1>2 DEF T
<1>4. CASE x = 0
  <2> DEFINE h == [i \in 0 .. 0 |-> <<>>]
  <2>1. h = [i \in 0 .. 0 |-> IF i = 0 THEN <<>>
                              ELSE IF expired(lru[i]) THEN h[i - 1] ELSE Append(h[i - 1], lru[i])]
    OBVIOUS
  <2> HIDE DEF h
  <2>2. IsScan(h, 0)
    BY Zenon, <2>1 DEF IsScan
  <2> QED BY Zenon, <1>3, <1>4, <2>2
<1>5. CASE x # 0
  <2>1. x - 1 \in Nat /\ ~(x <= x - 1)
    BY <1>3, <1>5
  <2>2. PICK g : IsScan(g, x - 1)
    <3>1. x - 1 \notin T BY Zenon, <1>2, <2>1
    <3> QED BY Zenon, <3>1, <2>1 DEF T
  <2>3. \A i \in 0 .. x - 1 :
           g[i] = IF i = 0 THEN <<>> ELSE IF expired(lru[i]) THEN g[i - 1] ELSE Append(g[i - 1], lru[i])
    BY Zenon, <2>2 DEF IsScan
  <2>4. PICK last : last = IF expired(lru[x]) THEN g[x - 1] ELSE Append(g[x - 1], lru[x])
    BY Zenon
  <2> DEFINE h == [i \in 0 .. x |-> IF i = x THEN last ELSE g[i]]
  <2>5. \A i \in 0 .. x : h[i] = IF i = x THEN last ELSE g[i]
    BY Zenon
  <2>6. h = [i \in 0 .. x |-> h[i]]
    BY Zenon
  <2> HIDE DEF h
  <2>7. ASSUME NEW i \in 0 .. x
        PROVE  h[i] = IF i = 0 THEN <<>> ELSE IF expired(lru[i]) THEN h[i - 1] ELSE Append(h[i - 1], lru[i])
    <3>1. CASE i = x
      <4>1. i - 1 \in 0 .. x /\ i - 1 # x /\ i # 0 BY <3>1, <1>3, <1>5
      <4>2. h[i - 1] = g[x - 1] /\ h[i] = last BY Zenon, <4>1, <2>5, <3>1
      <4> QED BY Zenon, <3>1, <4>1, <4>2, <2>4
    <3>2. CASE i # x /\ i # 0
      <4>1. i \in 0 .. x - 1 /\ i - 1 \in 0 .. x /\ i - 1 # x BY <3>2, <1>3
      <4>2. h[i] = g[i] /\ h[i - 1] = g[i - 1] BY Zenon, <4>1, <2>5, <3>2
      <4> QED BY Zenon, <4>1, <4>2, <3>2, <2>3
    <3>3. CASE i # x /\ i = 0
      <4>1. 0 \in 0 .. x - 1 /\ 0 \in 0 .. x BY <1>3, <1>5
      <4> QED BY Zenon, <4>1, <3>3, <2>3, <2>5
    <3> QED BY Zenon, <3>1, <3>2, <3>3
  <2>8. IsScan(h, x)
    BY Zenon, <2>6, <2>7 DEF IsScan
  <2> QED BY Zenon, <1>3, <2>8
<1> QED BY Zenon, <1>4, <1>5

\* The scan keeps entries of the list, in a list of the same kind.
ScanOK(t, i) == /\ IsCache(t) /\ Len(t) \in Nat /\ Len(t) <= i
                /\ \A j \in 1 .. Len(t) : \E h \in 1 .. i : t[j] = lru[h]

\* One entry of the scan of cleanupExpired, dropped or kept.
LEMMA ScanStep ==
    ASSUME IsCache(lru), NEW i \in 1 .. Len(lru), NEW t, ScanOK(t, i - 1)
    PROVE  ScanOK(t, i) /\ ScanOK(Append(t, lru[i]), i)
<1>0. Len(lru) \in Nat
  BY Zenon, LenProperties DEF IsCache
<1>1. IsCache(t) /\ Len(t) \in Nat /\ Len(t) <= i - 1 /\ Len(t) <= i
  BY <1>0 DEF ScanOK
<1>2. ASSUME NEW j \in 1 .. Len(t) PROVE \E h \in 1 .. i - 1 : t[j] = lru[h] /\ h \in 1 .. i /\ h # i
  <2>1. PICK h \in 1 .. i - 1 : t[j] = lru[h] BY Zenon DEF ScanOK
  <2>2. h \in 1 .. i /\ h # i BY <1>0
  <2> QED BY Zenon, <2>1, <2>2
<1>3. ScanOK(t, i)
  BY Zenon, <1>1, <1>2 DEF ScanOK
<1>4. PICK e : e = lru[i]
  BY Zenon
<1>5. EntryOK(e)
  BY Zenon, <1>4 DEF IsCache
<1>6. ASSUME NEW j \in 1 .. Len(t) PROVE t[j].key # e.key
  <2>1. PICK h \in 1 .. i - 1 : t[j] = lru[h] /\ h # i BY Zenon, <1>2
  <2>2. h \in 1 .. Len(lru) BY <1>0
  <2> QED BY Zenon, <2>1, <2>2, <1>4 DEF IsCache
<1>7. PICK u : u = Append(t, e)
  BY Zenon
<1>8. /\ IsCache(u) /\ Len(u) = Len(t) + 1 /\ u[Len(t) + 1] = e
      /\ \A j \in 1 .. Len(t) : u[j] = t[j]
  BY <1>1, <1>5, <1>6, <1>7, AppendCache
<1>9. Len(u) \in Nat /\ Len(u) <= i
  BY <1>0, <1>1, <1>8
<1>10. ASSUME NEW j \in 1 .. Len(u) PROVE \E h \in 1 .. i : u[j] = lru[h]
  <2>1. j \in 1 .. Len(t) \/ j = Len(t) + 1 BY <1>1, <1>8
  <2>2. CASE j \in 1 .. Len(t) BY Zenon, <2>2, <1>2, <1>8
  <2>3. CASE j = Len(t) + 1
    <3>1. i \in 1 .. i BY <1>0
    <3> QED BY Zenon, <2>3, <3>1, <1>4, <1>8
  <2> QED BY Zenon, <2>1, <2>2, <2>3
<1>11. ScanOK(u, i)
  BY Zenon, <1>8, <1>9, <1>10 DEF ScanOK
<1> QED BY Zenon, <1>3, <1>4, <1>7, <1>11

\* What the cleanup leaves is such a list, and not a longer one.
LEMMA UnexpiredCache ==
    ASSUME IsCache(lru)
    PROVE  IsCache(unexpired[Len(lru)]) /\ Len(unexpired[Len(lru)]) <= Len(lru) /\ Len(unexpired[Len(lru)]) \in Nat
<1>1. PICK n \in Nat : n = Len(lru)
  BY Zenon, LenProperties DEF IsCache
<1>2. PICK f : IsScan(f, n)
  BY Zenon, ScanExists
<1>3. unexpired = CHOOSE g : IsScan(g, n)
  BY Zenon, <1>1 DEF unexpired, IsScan
<1>4. IsScan(unexpired, n)
  BY Zenon, <1>2, <1>3
<1>5. PICK g : g = unexpired
  BY Zenon
<1>6. g = [i \in 0 .. n |-> IF i = 0 THEN <<>>
                            ELSE IF expired(lru[i]) THEN g[i - 1] ELSE Append(g[i - 1], lru[i])]
  BY Zenon, <1>4, <1>5 DEF IsScan
<1>7. \A i \in 0 .. n : g[i] = IF i = 0 THEN <<>>
                               ELSE IF expired(lru[i]) THEN g[i - 1] ELSE Append(g[i - 1], lru[i])
  BY Zenon, <1>6
<1> DEFINE T == {m \in 0 .. n : ~ScanOK(g[m], m)}
<1>8. T = {}
  <2> SUFFICES ASSUME T # {} PROVE FALSE BY Zenon
  <2>1. T \in SUBSET Nat OBVIOUS
  <2>2. PICK x \in T : \A y \in T : x <= y BY Zenon, <2>1, LeastNatural
  <2>3. x \in 0 .. n /\ ~ScanOK(g[x], x) BY Zenon
  <2>4. CASE x = 0
    <3>1. g[0] = <<>> BY Zenon, <1>7, <2>3, <2>4
    <3>2. <<>> \in Seq(Entries) /\ Len(<<>>) = 0 OBVIOUS
    <3>3. 1 .. 0 = {} OBVIOUS
    <3>4. IsCache(<<>>) BY Zenon, <3>2, <3>3 DEF IsCache
    <3>5. ScanOK(<<>>, 0) BY <3>2, <3>3, <3>4 DEF ScanOK
    <3> QED BY Zenon, <2>3, <2>4, <3>1, <3>5
  <2>5. CASE x # 0
    <3>1. x - 1 \in 0 .. n /\ ~(x <= x - 1) /\ x \in 1 .. n BY <2>3, <2>5
    <3>2. ScanOK(g[x - 1], x - 1) BY Zenon, <2>2, <3>1
    <3>3. ScanOK(g[x - 1], x) /\ ScanOK(Append(g[x - 1], lru[x]), x) BY Zenon, <1>1, <3>1, <3>2, ScanStep
    <3>4. g[x] \in {g[x - 1], Append(g[x - 1], lru[x])} BY Zenon, <1>7, <2>3, <2>5
    <3> QED BY Zenon, <2>3, <3>3, <3>4
  <2> QED BY Zenon, <2>4, <2>5
<1>9. ScanOK(g[n], n)
  <2>1. n \in 0 .. n OBVIOUS
  <2> QED BY Zenon, <1>8, <2>1
<1> QED BY Zenon, <1>1, <1>5, <1>9 DEF ScanOK

\* The list once the entry of a key is out.
LEMMA WithoutCache ==
    ASSUME IsCache(lru), NEW k
    PROVE  /\ IsCache(without(k)) /\ \A i \in 1 .. Len(without(k)) : without(k)[i].key # k
           /\ Len(without(k)) \in Nat /\ Len(lru) \in Nat
           /\ entryOf(k) # {} => Len(without(k)) = Len(lru) - 1
           /\ entryOf(k) = {} => without(k) = lru
<1>1. lru \in Seq(Entries) /\ Len(lru) \in Nat /\ DOMAIN lru = 1 .. Len(lru)
  BY Zenon, LenProperties DEF IsCache
<1>2. CASE entryOf(k) = {}
  <2>1. without(k) = lru BY Zenon, <1>2 DEF without
  <2>2. \A i \in 1 .. Len(lru) : lru[i].key # k BY Zenon, <1>1, <1>2 DEF entryOf
  <2> QED BY Zenon, <1>1, <1>2, <2>1, <2>2
<1>3. CASE entryOf(k) # {}
  <2>1. PICK n : n = CHOOSE i \in entryOf(k) : TRUE BY Zenon
  <2>2. n \in 1 .. Len(lru) /\ lru[n].key = k BY Zenon, <1>1, <1>3, <2>1 DEF entryOf
  <2>3. without(k) = removeElement(lru, n) BY Zenon, <1>3, <2>1 DEF without
  <2>4. /\ IsCache(removeElement(lru, n)) /\ Len(removeElement(lru, n)) = Len(lru) - 1
        /\ \A i \in 1 .. Len(lru) - 1 : removeElement(lru, n)[i].key # lru[n].key
    BY Zenon, <2>2, RemovedCache
  <2>5. Len(lru) - 1 \in Nat BY <1>1, <2>2
  <2> QED BY Zenon, <1>1, <1>3, <2>2, <2>3, <2>4, <2>5
<1> QED BY Zenon, <1>2, <1>3

\* What Get finds answers the key and is not older than the TTL.
LEMMA GetFresh ==
    ASSUME IsCache(lru), clock \in Nat, NEW k, NEW i \in Get(k)
    PROVE  /\ EntryOK(lru[i]) /\ lru[i].key = k /\ k \in Keys /\ lru[i].content.key = k
           /\ clock - lru[i].content.born \in Int /\ clock - lru[i].content.born <= TTL
           /\ entryOf(k) # {}
<1>1. i \in DOMAIN lru /\ lru[i].key = k /\ ~expired(lru[i]) /\ entryOf(k) # {}
  BY Zenon DEF Get, entryOf
<1>2. i \in 1 .. Len(lru)
  BY Zenon, <1>1, LenProperties DEF IsCache
<1>3. EntryOK(lru[i])
  BY Zenon, <1>2 DEF IsCache
<1>4. k \in Keys /\ lru[i].content.key = k
  BY Zenon, <1>1, <1>3 DEF EntryOK, Entries
<1>5. PICK b \in Nat : b = lru[i].content.born /\ lru[i].expiresAt = b + TTL
  BY Zenon, <1>3 DEF EntryOK, Entries
<1>6. ~(clock > b + TTL)
  BY Zenon, <1>1, <1>5 DEF expired
<1>7. TTL \in Nat
  BY Zenon, CallAssumption
<1>8. clock - b \in Int /\ clock - b <= TTL
  BY <1>5, <1>6, <1>7
<1> QED BY Zenon, <1>1, <1>3, <1>4, <1>5, <1>8

\* Set keeps the list short and its keys apart.
LEMMA SetCache ==
    ASSUME IsCache(lru), Len(lru) <= MaxEntries, clock \in Nat, NEW k \in Keys
    PROVE  IsCache(Set(k, [key |-> k, born |-> clock])) /\ Len(Set(k, [key |-> k, born |-> clock])) <= MaxEntries
<1>0. MaxEntries \in Nat \ {0} /\ TTL \in Nat /\ Len(lru) \in Nat /\ lru \in Seq(Entries) /\ DOMAIN lru = 1 .. Len(lru)
  BY Zenon, CallAssumption, LenProperties DEF IsCache
<1>1. PICK e : e = [key |-> k, content |-> [key |-> k, born |-> clock], expiresAt |-> clock + TTL]
  BY Zenon
<1>2. e.key = k /\ e.content.key = k /\ e.content.born = clock /\ e.expiresAt = clock + TTL
  BY Zenon, <1>1
<1>3. EntryOK(e)
  <2>1. clock + TTL \in Nat BY <1>0
  <2>2. e \in Entries BY Zenon, <1>1, <2>1 DEF Entries
  <2> QED BY Zenon, <1>2, <2>2 DEF EntryOK
<1>4. PICK s : s = Set(k, [key |-> k, born |-> clock])
  BY Zenon
<1>5. CASE entryOf(k) # {}
  <2>1. s = <<e>> \o without(k) BY Zenon, <1>1, <1>4, <1>5 DEF Set
  <2>2. IsCache(without(k)) /\ Len(without(k)) = Len(lru) - 1 /\ \A i \in 1 .. Len(without(k)) : without(k)[i].key # k
    BY Zenon, <1>5, WithoutCache
  <2>3. IsCache(s) /\ Len(s) = Len(without(k)) + 1 BY Zenon, <1>2, <1>3, <2>1, <2>2, ConsCache
  <2>4. Len(s) <= MaxEntries BY <1>0, <2>2, <2>3
  <2> QED BY Zenon, <1>4, <2>3, <2>4
<1>6. CASE entryOf(k) = {}
  <2>0. \A i \in 1 .. Len(lru) : lru[i].key # k BY Zenon, <1>0, <1>6 DEF entryOf
  <2>1. CASE Len(lru) >= MaxEntries
    <3>1. s = <<e>> \o Front(lru) BY Zenon, <1>1, <1>4, <1>6, <2>1 DEF Set, Front
    <3>2. lru # <<>> BY <1>0, <2>1
    <3>3. IsCache(Front(lru)) /\ Len(Front(lru)) = Len(lru) - 1 /\ \A i \in 1 .. Len(lru) - 1 : Front(lru)[i] = lru[i]
      BY Zenon, <3>2, FrontCache
    <3>4. \A i \in 1 .. Len(Front(lru)) : Front(lru)[i].key # e.key
      <4>1. \A i \in 1 .. Len(lru) - 1 : i \in 1 .. Len(lru) BY <1>0
      <4> QED BY Zenon, <1>2, <2>0, <3>3, <4>1
    <3>5. IsCache(s) /\ Len(s) = Len(Front(lru)) + 1 BY Zenon, <1>3, <3>1, <3>3, <3>4, ConsCache
    <3>6. Len(s) <= MaxEntries BY <1>0, <3>3, <3>5
    <3> QED BY Zenon, <1>4, <3>5, <3>6
  <2>2. CASE ~(Len(lru) >= MaxEntries)
    <3>1. s = <<e>> \o lru BY Zenon, <1>1, <1>4, <1>6, <2>2 DEF Set
    <3>2. IsCache(s) /\ Len(s) = Len(lru) + 1 BY Zenon, <1>2, <1>3, <2>0, <3>1, ConsCache
    <3>3. Len(s) <= MaxEntries BY <1>0, <2>2, <3>2
    <3> QED BY Zenon, <1>4, <3>2, <3>3
  <2> QED BY Zenon, <2>1, <2>2
<1> QED BY Zenon, <1>5, <1>6

-----------------------------------------------------------------------------
\* A caller of the node: what it asked for and what it was answered.
CallerRecords ==
    [pc : {"idle", "missed", "waiting", "returned"}, key : Keys \cup {"none"}, leader : Callers \cup {"none"},
     cancelled : BOOLEAN, answer : {"none", "content", "error", "canceled"}, from : Keys \cup {"none"}, age : Int]

\* A request that callers share.
Flights ==
    [leader : Callers \cup {"none"}, members : SUBSET Callers, ctxDone : BOOLEAN,
     result : {"none", "small", "large", "error", "canceled"}]

\* A caller that has content has that of its key, fresh; one on its way has
\* nothing yet.
CallerOK(r) ==
    /\ r.answer = "content" => r.from = r.key /\ r.age <= TTL
    /\ r.pc \in {"missed", "waiting"} => r.key \in Keys /\ r.age = 0 /\ r.answer = "none"

\* The members of a flight wait for its key.
Waits(r, k) == r.pc = "waiting" /\ r.key = k

\* The inductive invariant of the cache and the shared requests.
CallInv ==
    /\ clock \in Nat /\ IsCache(lru) /\ Len(lru) <= MaxEntries
    /\ caller \in [Callers -> CallerRecords] /\ flight \in [Keys -> Flights]
    /\ \A c \in Callers : CallerOK(caller[c])
    /\ \A k \in Keys : \A c \in flight[k].members : Waits(caller[c], k)

\* One caller changes; if it waited it has left its flight, or still waits.
LEMMA OneCaller ==
    ASSUME CallInv, clock' \in Nat, IsCache(lru'), Len(lru') <= MaxEntries,
           flight' \in [Keys -> Flights],
           NEW c \in Callers, NEW r \in CallerRecords, CallerOK(r), caller' = [caller EXCEPT ![c] = r],
           \A k \in Keys : \A d \in flight'[k].members \ {c} : d \in flight[k].members,
           \A k \in Keys : c \in flight'[k].members => Waits(r, k)
    PROVE  CallInv'
<1>1. caller \in [Callers -> CallerRecords]
  BY ZenonT(40) DEF CallInv
<1>2. caller' \in [Callers -> CallerRecords] /\ caller'[c] = r /\ \A d \in Callers \ {c} : caller'[d] = caller[d]
  BY ZenonT(40), <1>1
<1>3. \A d \in Callers : CallerOK(caller'[d])
  <2> SUFFICES ASSUME NEW d \in Callers PROVE CallerOK(caller'[d]) BY ZenonT(40)
  <2>1. CASE d = c BY ZenonT(40), <2>1, <1>2
  <2>2. CASE d # c
    <3>1. caller'[d] = caller[d] BY ZenonT(40), <2>2, <1>2
    <3> QED BY ZenonT(40), <3>1 DEF CallInv
  <2> QED BY ZenonT(40), <2>1, <2>2
<1>4. ASSUME NEW k \in Keys, NEW d \in flight'[k].members PROVE Waits(caller'[d], k)
  <2>0. d \in Callers BY ZenonT(40) DEF Flights
  <2>1. CASE d = c BY ZenonT(40), <2>1, <1>2
  <2>2. CASE d # c
    <3>1. d \in flight[k].members /\ caller'[d] = caller[d] BY ZenonT(40), <2>0, <2>2, <1>2
    <3> QED BY ZenonT(40), <3>1 DEF CallInv
  <2> QED BY ZenonT(40), <2>1, <2>2
<1>5. \A d \in Callers : CallerOK(caller[d])'
  BY ZenonT(40), <1>3 DEF CallerOK
<1> QED BY ZenonT(40), <1>2, <1>4, <1>5 DEF CallInv, IsCache, EntryOK, Waits

\* The facts of one caller.
LEMMA CallerIs ==
    ASSUME CallInv, NEW c \in Callers
    PROVE  caller[c] \in CallerRecords /\ CallerOK(caller[c])
BY ZenonT(40) DEF CallInv

\* A caller that does not wait is in no flight.
LEMMA NotAboard ==
    ASSUME CallInv, NEW c \in Callers, caller[c].pc # "waiting"
    PROVE  \A k \in Keys : c \notin flight[k].members
BY Zenon DEF CallInv, Waits

\* The lookup in the cache.
LEMMA LookupStep ==
    ASSUME CallInv, NEW c \in Callers, NEW k \in Keys, checkLLMCache(c, k)
    PROVE  CallInv'
<1>0. clock \in Nat /\ IsCache(lru) /\ Len(lru) <= MaxEntries /\ flight \in [Keys -> Flights] /\ MaxEntries \in Nat /\ TTL \in Nat
  BY Zenon, CallAssumption DEF CallInv
<1>1. UNCHANGED <<clock, flight>> /\ caller[c].pc # "waiting"
  BY Zenon DEF checkLLMCache
<1>2. \A j \in Keys : c \notin flight'[j].members
  BY Zenon, <1>1, NotAboard
<1>3. \A j \in Keys : \A d \in flight'[j].members \ {c} : d \in flight[j].members
  BY Zenon, <1>1
<1>4. CASE Get(k) # {}
  <2>1. PICK i \in Get(k) : i = CHOOSE x \in Get(k) : TRUE BY Zenon, <1>4
  <2>2. PICK e : e = lru[i] BY Zenon
  <2>3. /\ EntryOK(e) /\ e.key = k /\ e.content.key = k /\ clock - e.content.born \in Int
        /\ clock - e.content.born <= TTL /\ entryOf(k) # {}
    BY Zenon, <1>0, <2>1, <2>2, GetFresh
  <2>4. lru' = <<e>> \o without(k) BY Zenon, <1>4, <2>1, <2>2 DEF checkLLMCache
  <2>5. /\ IsCache(without(k)) /\ \A j \in 1 .. Len(without(k)) : without(k)[j].key # k
        /\ Len(without(k)) = Len(lru) - 1 /\ Len(lru) \in Nat
    BY ZenonT(40), <1>0, <2>3, WithoutCache
  <2>6. IsCache(lru') /\ Len(lru') = Len(without(k)) + 1 BY Zenon, <2>3, <2>4, <2>5, ConsCache
  <2>7. Len(lru') <= MaxEntries BY <1>0, <2>5, <2>6
  <2>8. PICK a \in Int : a = clock - e.content.born /\ a <= TTL BY ZenonT(40), <2>3
  <2>9. PICK r : r = [pc |-> "returned", key |-> k, leader |-> "none", cancelled |-> FALSE,
                      answer |-> "content", from |-> k, age |-> a]
    BY Zenon
  <2>10. r \in CallerRecords /\ CallerOK(r) BY Zenon, <2>8, <2>9 DEF CallerRecords, CallerOK
  <2>11. caller' = [caller EXCEPT ![c] = r]
    BY ZenonT(40), <1>4, <2>1, <2>2, <2>3, <2>8, <2>9 DEF checkLLMCache, idleCaller
  <2> QED BY Zenon, <1>0, <1>1, <1>2, <1>3, <2>6, <2>7, <2>10, <2>11, OneCaller
<1>5. CASE Get(k) = {}
  <2>1. lru' = without(k) BY Zenon, <1>5 DEF checkLLMCache
  <2>2. IsCache(lru') /\ Len(lru') <= MaxEntries
    <3>1. IsCache(without(k)) /\ Len(without(k)) \in Nat /\ Len(lru) \in Nat
          /\ (without(k) = lru \/ Len(without(k)) = Len(lru) - 1)
      BY Zenon, <1>0, WithoutCache
    <3>2. Len(without(k)) <= Len(lru) BY <3>1
    <3> QED BY <1>0, <2>1, <3>1, <3>2
  <2>3. PICK r : r = [pc |-> "missed", key |-> k, leader |-> "none", cancelled |-> FALSE,
                      answer |-> "none", from |-> "none", age |-> 0]
    BY Zenon
  <2>4. r \in CallerRecords /\ CallerOK(r) BY <2>3 DEF CallerRecords, CallerOK
  <2>5. caller' = [caller EXCEPT ![c] = r]
    BY Zenon, <1>5, <2>3 DEF checkLLMCache, idleCaller
  <2> QED BY Zenon, <1>0, <1>1, <1>2, <1>3, <2>2, <2>4, <2>5, OneCaller
<1> QED BY Zenon, <1>4, <1>5

\* A caller joins the flight of its key, or leads it.
LEMMA JoinStep ==
    ASSUME CallInv, NEW c \in Callers, DoChan(c)
    PROVE  CallInv'
<1>0. clock \in Nat /\ IsCache(lru) /\ Len(lru) <= MaxEntries /\ flight \in [Keys -> Flights]
  BY Zenon DEF CallInv
<1>1. caller[c] \in CallerRecords /\ CallerOK(caller[c]) /\ caller[c].pc = "missed" /\ UNCHANGED <<clock, lru>>
  BY Zenon, CallerIs DEF DoChan
<1>2. PICK k \in Keys : k = caller[c].key
  BY Zenon, <1>1 DEF CallerOK
<1>3. PICK f : f = joinFlight(flight[k], c)
  BY Zenon
<1>4. flight[k] \in Flights
  BY Zenon, <1>0
<1>5. f \in Flights /\ f.members \subseteq flight[k].members \cup {c}
  <2>1. CASE flight[k] = NoFlight
    <3>1. f = [leader |-> c, members |-> {c}, ctxDone |-> caller[c].cancelled, result |-> "none"]
      BY Zenon, <1>3, <2>1 DEF joinFlight, newFlight, NoFlight
    <3> QED BY Zenon, <3>1, <1>1 DEF Flights, CallerRecords
  <2>2. CASE flight[k] # NoFlight
    <3>1. f = [flight[k] EXCEPT !.members = @ \cup {c}] BY Zenon, <1>3, <2>2 DEF joinFlight
    <3> QED BY Zenon, <3>1, <1>4 DEF Flights
  <2> QED BY Zenon, <2>1, <2>2
<1>6. PICK r : r = [caller[c] EXCEPT !.pc = "waiting", !.leader = f.leader]
  BY Zenon
<1>7. /\ r \in CallerRecords /\ r.pc = "waiting" /\ r.key = k /\ r.answer = caller[c].answer
      /\ r.from = caller[c].from /\ r.age = caller[c].age
  BY Zenon, <1>1, <1>2, <1>5, <1>6 DEF CallerRecords, Flights
<1>8. CallerOK(r)
  BY Zenon, <1>1, <1>2, <1>7 DEF CallerOK
<1>9. flight' = [flight EXCEPT ![k] = f]
  BY Zenon, <1>2, <1>3 DEF DoChan
<1>10. caller' = [caller EXCEPT ![c] = r]
  BY ZenonT(40), <1>2, <1>3, <1>6 DEF DoChan
<1>11. flight' \in [Keys -> Flights] /\ flight'[k] = f /\ \A j \in Keys \ {k} : flight'[j] = flight[j]
  BY Zenon, <1>0, <1>5, <1>9
<1>12. \A j \in Keys : c \notin flight[j].members
  BY Zenon, <1>1, NotAboard
<1>13. \A j \in Keys : c \in flight'[j].members => Waits(r, j)
  BY Zenon, <1>7, <1>11, <1>12 DEF Waits
<1>14. \A j \in Keys : \A d \in flight'[j].members \ {c} : d \in flight[j].members
  BY Zenon, <1>5, <1>11
<1> QED BY Zenon, <1>0, <1>1, <1>7, <1>8, <1>10, <1>11, <1>13, <1>14, OneCaller

\* The context of a caller ends.
LEMMA CancelStep ==
    ASSUME CallInv, NEW c \in Callers, Cancel(c)
    PROVE  CallInv'
<1>0. clock \in Nat /\ IsCache(lru) /\ Len(lru) <= MaxEntries /\ flight \in [Keys -> Flights]
  BY Zenon DEF CallInv
<1>1. caller[c] \in CallerRecords /\ CallerOK(caller[c]) /\ UNCHANGED <<clock, lru>>
  BY Zenon, CallerIs DEF Cancel
<1>2. PICK r : r = [caller[c] EXCEPT !.cancelled = TRUE]
  BY Zenon
<1>3. /\ r \in CallerRecords /\ r.pc = caller[c].pc /\ r.key = caller[c].key /\ r.answer = caller[c].answer
      /\ r.from = caller[c].from /\ r.age = caller[c].age
  BY ZenonT(40), <1>1, <1>2 DEF CallerRecords
<1>4. CallerOK(r)
  BY Zenon, <1>1, <1>3 DEF CallerOK
<1>5. caller' = [caller EXCEPT ![c] = r]
  BY Zenon, <1>2 DEF Cancel
<1>6. ASSUME NEW k \in Keys PROVE flight'[k] \in Flights /\ flight'[k].members = flight[k].members
  <2>1. flight[k] \in Flights BY Zenon, <1>0
  <2>2. flight'[k] \in {flight[k], [flight[k] EXCEPT !.ctxDone = TRUE]} BY Zenon DEF Cancel
  <2>3. PICK f : f = [flight[k] EXCEPT !.ctxDone = TRUE] BY Zenon
  <2>4. f \in Flights /\ f.members = flight[k].members BY ZenonT(40), <2>1, <2>3 DEF Flights
  <2> QED BY Zenon, <2>1, <2>2, <2>3, <2>4
<1>7. flight' \in [Keys -> Flights]
  BY Zenon, <1>6 DEF Cancel
<1>8. \A j \in Keys : \A d \in flight'[j].members \ {c} : d \in flight[j].members
  BY Zenon, <1>6
<1>9. \A j \in Keys : c \in flight'[j].members => Waits(r, j)
  BY ZenonT(40), <1>3, <1>6 DEF CallInv, Waits
<1> QED BY Zenon, <1>0, <1>1, <1>3, <1>4, <1>5, <1>7, <1>8, <1>9, OneCaller

\* A cancelled caller leaves its flight.
LEMMA LeaveStep ==
    ASSUME CallInv, NEW c \in Callers, leaveFlight(c)
    PROVE  CallInv'
<1>0. clock \in Nat /\ IsCache(lru) /\ Len(lru) <= MaxEntries /\ flight \in [Keys -> Flights]
  BY Zenon DEF CallInv
<1>1. caller[c] \in CallerRecords /\ CallerOK(caller[c]) /\ caller[c].pc = "waiting" /\ UNCHANGED <<clock, lru>>
  BY Zenon, CallerIs DEF leaveFlight
<1>2. PICK k \in Keys : k = caller[c].key
  BY Zenon, <1>1 DEF CallerOK
<1>3. PICK r : r = [caller[c] EXCEPT !.pc = "returned", !.answer = "canceled", !.leader = "none", !.cancelled = FALSE]
  BY Zenon
<1>4. r \in CallerRecords /\ r.pc = "returned" /\ r.answer = "canceled"
  BY Zenon, <1>1, <1>3 DEF CallerRecords
<1>5. CallerOK(r)
  BY Zenon, <1>4 DEF CallerOK
<1>6. caller' = [caller EXCEPT ![c] = r]
  BY Zenon, <1>3 DEF leaveFlight
<1>7. PICK f : f = [flight[k] EXCEPT !.members = @ \ {c}]
  BY ZenonT(40)
<1>8. f \in Flights /\ f.members = flight[k].members \ {c}
  <2>1. flight[k] \in Flights BY Zenon, <1>0
  <2> QED BY Zenon, <2>1, <1>7 DEF Flights
<1>9. flight' = [flight EXCEPT ![k] = f]
  BY Zenon, <1>2, <1>7 DEF leaveFlight
<1>10. flight' \in [Keys -> Flights] /\ flight'[k] = f /\ \A j \in Keys \ {k} : flight'[j] = flight[j]
  BY Zenon, <1>0, <1>8, <1>9
<1>11. \A j \in Keys : \A d \in flight'[j].members \ {c} : d \in flight[j].members
  BY Zenon, <1>8, <1>10
<1>12. \A j \in Keys : c \notin flight'[j].members
  BY ZenonT(40), <1>2, <1>8, <1>10 DEF CallInv, Waits
<1> QED BY Zenon, <1>0, <1>1, <1>4, <1>5, <1>6, <1>10, <1>11, <1>12, OneCaller

\* The upstream request ends.
LEMMA UpstreamStep ==
    ASSUME CallInv, NEW k \in Keys, NEW res \in {"small", "large", "error", "canceled"}, doUpstreamCall(k, res)
    PROVE  CallInv'
<1>0. clock \in Nat /\ IsCache(lru) /\ Len(lru) <= MaxEntries /\ flight \in [Keys -> Flights] /\ UNCHANGED <<clock, caller>>
  BY Zenon DEF CallInv, doUpstreamCall
<1>1. PICK f : f = [flight[k] EXCEPT !.result = res]
  BY Zenon
<1>2. f \in Flights /\ f.members = flight[k].members
  <2>1. flight[k] \in Flights BY Zenon, <1>0
  <2> QED BY Zenon, <2>1, <1>1 DEF Flights
<1>3. flight' = [flight EXCEPT ![k] = f]
  BY Zenon, <1>1 DEF doUpstreamCall
<1>4. flight' \in [Keys -> Flights] /\ \A j \in Keys : flight'[j].members = flight[j].members
  BY Zenon, <1>0, <1>2, <1>3
<1>5. IsCache(lru') /\ Len(lru') <= MaxEntries
  <2>1. lru' \in {lru, Set(k, [key |-> k, born |-> clock])} BY Zenon DEF doUpstreamCall
  <2> QED BY Zenon, <2>1, <1>0, SetCache
<1>6. \A j \in Keys : \A d \in flight'[j].members : Waits(caller[d], j)
  BY ZenonT(40), <1>4 DEF CallInv
<1> QED BY Zenon, <1>0, <1>4, <1>5, <1>6 DEF CallInv, IsCache, EntryOK, CallerOK, Waits

\* The result goes to every member.
LEMMA DeliverStep ==
    ASSUME CallInv, NEW k \in Keys, deliver(k)
    PROVE  CallInv'
<1>0. /\ clock \in Nat /\ IsCache(lru) /\ Len(lru) <= MaxEntries /\ flight \in [Keys -> Flights] /\ UNCHANGED <<clock, lru>>
      /\ TTL \in Nat
  BY ZenonT(40), CallAssumption DEF CallInv, deliver
<1>1. flight[k] \in Flights /\ flight[k].result \in {"small", "large", "error", "canceled"}
  BY Zenon, <1>0 DEF deliver, Flights
<1>2. PICK a : a = IF flight[k].result \in {"small", "large"} THEN "content" ELSE flight[k].result
  BY Zenon
<1>3. a \in {"content", "error", "canceled"}
  BY Zenon, <1>1, <1>2
<1>4. /\ flight' = [flight EXCEPT ![k] = NoFlight]
      /\ caller' = [c \in Callers |-> IF c \in flight[k].members
                        THEN [caller[c] EXCEPT !.pc = "returned", !.answer = a, !.from = k, !.leader = "none", !.cancelled = FALSE]
                        ELSE caller[c]]
  BY ZenonT(40), <1>2 DEF deliver
<1>5. NoFlight \in Flights /\ NoFlight.members = {}
  BY Zenon DEF NoFlight, Flights
<1>6. flight' \in [Keys -> Flights] /\ flight'[k].members = {} /\ \A j \in Keys \ {k} : flight'[j] = flight[j]
  BY Zenon, <1>0, <1>4, <1>5
<1>7. ASSUME NEW c \in Callers PROVE caller'[c] \in CallerRecords /\ CallerOK(caller'[c])
  <2>0. caller[c] \in CallerRecords /\ CallerOK(caller[c]) BY Zenon, CallerIs
  <2>1. CASE c \notin flight[k].members
    BY ZenonT(40), <1>4, <2>0, <2>1
  <2>2. CASE c \in flight[k].members
    <3>1. Waits(caller[c], k) BY Zenon, <2>2 DEF CallInv
    <3>2. PICK r : r = [caller[c] EXCEPT !.pc = "returned", !.answer = a, !.from = k, !.leader = "none", !.cancelled = FALSE]
      BY Zenon
    <3>3. r \in CallerRecords /\ r.pc = "returned" /\ r.from = k /\ r.key = caller[c].key /\ r.age = caller[c].age
      BY Zenon, <1>3, <2>0, <3>2 DEF CallerRecords
    <3>4. r.key = k /\ r.age = 0 BY Zenon, <2>0, <3>1, <3>3 DEF Waits, CallerOK
    <3>5. r.age <= TTL BY <1>0, <3>4
    <3>6. CallerOK(r) BY Zenon, <3>3, <3>4, <3>5 DEF CallerOK
    <3> QED BY ZenonT(40), <1>4, <2>2, <3>2, <3>3, <3>6
  <2> QED BY Zenon, <2>1, <2>2
<1>8. caller' \in [Callers -> CallerRecords]
  BY Zenon, <1>4, <1>7
<1>9. ASSUME NEW j \in Keys, NEW d \in flight'[j].members PROVE Waits(caller'[d], j)
  <2>1. j # k /\ flight'[j] = flight[j] BY Zenon, <1>6
  <2>2. Waits(caller[d], j) /\ d \in Callers BY ZenonT(40), <1>0, <2>1 DEF CallInv, Flights
  <2>3. d \notin flight[k].members BY ZenonT(40), <2>1, <2>2 DEF CallInv, Waits
  <2>4. caller'[d] = caller[d] BY Zenon, <1>4, <2>2, <2>3
  <2> QED BY Zenon, <2>2, <2>4
<1> QED BY ZenonT(40), <1>0, <1>6, <1>7, <1>8, <1>9 DEF CallInv, IsCache, EntryOK, CallerOK, Waits

\* Each key is in the list once.
LEMMA OnceInCache ==
    ASSUME IsCache(lru), NEW k
    PROVE  Cardinality(entryOf(k)) <= 1
<1>1. \A i, j \in entryOf(k) : i = j
  <2>1. lru \in Seq(Entries) /\ DOMAIN lru = 1 .. Len(lru) BY Zenon, LenProperties DEF IsCache
  <2> QED BY Zenon, <2>1 DEF IsCache, entryOf
<1>2. CASE entryOf(k) = {}
  <2>1. Cardinality(entryOf(k)) = 0 BY Zenon, <1>2, FS_EmptySet
  <2> QED BY <2>1
<1>3. CASE entryOf(k) # {}
  <2>1. PICK i : entryOf(k) = {i} BY Zenon, <1>1, <1>3
  <2>2. Cardinality(entryOf(k)) = 1 BY ZenonT(40), <2>1, FS_Singleton
  <2> QED BY <2>2
<1> QED BY Zenon, <1>2, <1>3

\* For any size and TTL of the cache and any number of callers: content that a
\* caller is given is an answer to its own key, and not older than the TTL,
\* from the cache or from a shared request, however calls, evictions,
\* clean-ups and cancellations interleave; and the cache keeps its size and
\* each key once (cache.go, and the shared requests of the LLM client).
THEOREM CacheServesFresh == CallSpec => []ServedIsFresh
<1>1. ASSUME CallInit PROVE CallInv
  <2>1. clock = 0 /\ lru = <<>> /\ flight = [k \in Keys |-> NoFlight] /\ caller = [c \in Callers |-> idleCaller]
    BY Zenon, <1>1 DEF CallInit
  <2>2. <<>> \in Seq(Entries) /\ Len(<<>>) = 0 /\ 1 .. 0 = {} OBVIOUS
  <2>3. IsCache(lru) /\ Len(lru) = 0 BY Zenon, <2>1, <2>2 DEF IsCache
  <2>4. Len(lru) <= MaxEntries BY <2>3, CallAssumption
  <2>5. NoFlight \in Flights /\ NoFlight.members = {} BY Zenon DEF NoFlight, Flights
  <2>6. idleCaller \in CallerRecords /\ CallerOK(idleCaller) BY DEF idleCaller, CallerRecords, CallerOK
  <2> QED BY Zenon, <2>1, <2>3, <2>4, <2>5, <2>6 DEF CallInv
<1>2. ASSUME CallInv, [CallNext]_callVars PROVE CallInv'
  <2>1. CASE \E c \in Callers, k \in Keys : checkLLMCache(c, k) BY Zenon, <1>2, <2>1, LookupStep
  <2>2. CASE \E c \in Callers : DoChan(c) BY Zenon, <1>2, <2>2, JoinStep
  <2>3. CASE \E c \in Callers : Cancel(c) BY Zenon, <1>2, <2>3, CancelStep
  <2>4. CASE \E c \in Callers : leaveFlight(c) BY Zenon, <1>2, <2>4, LeaveStep
  <2>5. CASE \E k \in Keys, r \in {"small", "large", "error", "canceled"} : doUpstreamCall(k, r)
    BY ZenonT(40), <1>2, <2>5, UpstreamStep
  <2>6. CASE \E k \in Keys : deliver(k) BY Zenon, <1>2, <2>6, DeliverStep
  <2>7. CASE cleanupExpired
    <3>1. lru' = unexpired[Len(lru)] /\ UNCHANGED <<clock, flight, caller>> BY Zenon, <2>7 DEF cleanupExpired
    <3>2. IsCache(lru) /\ Len(lru) <= MaxEntries /\ MaxEntries \in Nat /\ Len(lru) \in Nat
      BY Zenon, <1>2, CallAssumption, LenProperties DEF CallInv, IsCache
    <3>3. IsCache(lru') /\ Len(lru') <= Len(lru) /\ Len(lru') \in Nat BY Zenon, <3>1, <3>2, UnexpiredCache
    <3>4. Len(lru') <= MaxEntries BY <3>2, <3>3
    <3> QED BY <1>2, <3>1, <3>3, <3>4 DEF CallInv, IsCache, EntryOK, CallerOK, Waits
  <2>8. CASE ClockTick \/ UNCHANGED callVars
    <3>2. clock \in Nat BY Zenon, <1>2 DEF CallInv
    <3>3. clock' = clock + 1 \/ clock' = clock BY Zenon, <2>8 DEF ClockTick, callVars
    <3>4. clock' \in Nat BY <3>2, <3>3
    <3>5. UNCHANGED <<lru, flight, caller>> BY Zenon, <2>8 DEF ClockTick, callVars
    <3>1. UNCHANGED <<lru, flight, caller>> /\ clock' \in Nat BY Zenon, <3>4, <3>5
    <3> QED BY ZenonT(40), <1>2, <3>1 DEF CallInv, IsCache, EntryOK, CallerOK, Waits
  <2> QED BY Zenon, <1>2, <2>1, <2>2, <2>3, <2>4, <2>5, <2>6, <2>7, <2>8 DEF CallNext
<1>3. ASSUME CallInv PROVE ServedIsFresh
  <2>1. IsCache(lru) /\ Len(lru) <= MaxEntries BY Zenon, <1>3 DEF CallInv
  <2>2. \A k \in Keys : Cardinality(entryOf(k)) <= 1 BY Zenon, <2>1, OnceInCache
  <2>3. \A c \in Callers : caller[c].answer = "content" => caller[c].from = caller[c].key /\ caller[c].age <= TTL
    BY Zenon, <1>3 DEF CallInv, CallerOK
  <2> QED BY Zenon, <2>1, <2>2, <2>3 DEF ServedIsFresh
<1> QED BY <1>1, <1>2, <1>3, PTL DEF CallSpec

-----------------------------------------------------------------------------
(* Pipelines                                                               *)

\* The stages a round resolves after the stages D.
Resolves(p, D) == D \cup {s \in Stages : p.deps[s] \subseteq D}

\* The rounds of resolveDAG, up to the n-th.
IsRounds(p, f, n) == f = [i \in 0 .. n |-> IF i = 0 THEN {} ELSE Resolves(p, f[i - 1])]

\* There are as many rounds as one likes.
LEMMA RoundsExist ==
    ASSUME NEW p, NEW n \in Nat
    PROVE  \E f : IsRounds(p, f, n)
<1> SUFFICES ASSUME ~\E f : IsRounds(p, f, n) PROVE FALSE
  BY Zenon
<1> DEFINE T == {m \in Nat : ~\E f : IsRounds(p, f, m)}
<1>1. T \in SUBSET Nat /\ T # {}
  BY Zenon
<1> HIDE DEF T
<1>2. PICK x \in T : \A y \in T : x <= y
  BY Zenon, <1>1, LeastNatural
<1>3. x \in Nat /\ ~\E f : IsRounds(p, f, x)
  BY Zenon, <1>2 DEF T
<1>4. CASE x = 0
  <2> DEFINE h == [i \in 0 .. 0 |-> {}]
  <2>1. h = [i \in 0 .. 0 |-> IF i = 0 THEN {} ELSE Resolves(p, h[i - 1])]
    OBVIOUS
  <2> HIDE DEF h
  <2>2. IsRounds(p, h, 0)
    BY Zenon, <2>1 DEF IsRounds
  <2> QED BY Zenon, <1>3, <1>4, <2>2
<1>5. CASE x # 0
  <2>1. x - 1 \in Nat /\ ~(x <= x - 1)
    BY <1>3, <1>5
  <2>2. PICK g : IsRounds(p, g, x - 1)
    <3>1. x - 1 \notin T BY Zenon, <1>2, <2>1
    <3> QED BY Zenon, <3>1, <2>1 DEF T
  <2>3. /\ DOMAIN g = 0 .. x - 1
        /\ \A i \in 0 .. x - 1 : g[i] = IF i = 0 THEN {} ELSE Resolves(p, g[i - 1])
    BY Zenon, <2>2 DEF IsRounds
  <2> DEFINE h == [i \in 0 .. x |-> IF i = x THEN Resolves(p, g[x - 1]) ELSE g[i]]
  <2>4. \A i \in 0 .. x : h[i] = IF i = x THEN Resolves(p, g[x - 1]) ELSE g[i]
    BY Zenon
  <2>5. h = [i \in 0 .. x |-> h[i]]
    BY Zenon
  <2> HIDE DEF h
  <2>6. ASSUME NEW i \in 0 .. x
        PROVE  h[i] = IF i = 0 THEN {} ELSE Resolves(p, h[i - 1])
    <3>1. CASE i = x
      <4>1. i - 1 \in 0 .. x /\ i - 1 # x /\ i # 0 BY <3>1, <1>3, <1>5
      <4>2. h[i - 1] = g[x - 1] BY Zenon, <4>1, <2>4, <3>1
      <4> QED BY Zenon, <3>1, <4>1, <4>2, <2>4
    <3>2. CASE i # x /\ i # 0
      <4>1. i \in 0 .. x - 1 /\ i - 1 \in 0 .. x /\ i - 1 # x BY <3>2, <1>3
      <4>2. h[i] = g[i] /\ h[i - 1] = g[i - 1] BY Zenon, <4>1, <2>4, <3>2
      <4> QED BY Zenon, <4>1, <4>2, <3>2, <2>3
    <3>3. CASE i # x /\ i = 0
      <4>1. 0 \in 0 .. x - 1 /\ 0 \in 0 .. x BY <1>3, <1>5
      <4> QED BY Zenon, <4>1, <3>3, <2>3, <2>4
    <3> QED BY Zenon, <3>1, <3>2, <3>3
  <2>7. IsRounds(p, h, x)
    BY Zenon, <2>5, <2>6 DEF IsRounds
  <2> QED BY Zenon, <1>3, <2>7
<1> QED BY Zenon, <1>4, <1>5

\* resolvedAfter computes the rounds.
LEMMA ResolvedRounds ==
    ASSUME NEW p
    PROVE  /\ Cardinality(Stages) \in Nat
           /\ resolvedAfter(p)[0] = {}
           /\ \A i \in 1 .. Cardinality(Stages) :
                resolvedAfter(p)[i] = Resolves(p, resolvedAfter(p)[i - 1])
<1>1. PICK n \in Nat : n = Cardinality(Stages)
  BY Zenon, PipelineAssumption, FS_CardinalityType
<1>2. PICK f : IsRounds(p, f, n)
  BY Zenon, RoundsExist
<1>3. resolvedAfter(p) = CHOOSE g : IsRounds(p, g, n)
  BY Zenon, <1>1 DEF resolvedAfter, IsRounds, Resolves
<1>4. IsRounds(p, resolvedAfter(p), n)
  BY Zenon, <1>2, <1>3
<1>5. PICK g : g = resolvedAfter(p)
  BY Zenon
<1>6. g = [i \in 0 .. n |-> IF i = 0 THEN {} ELSE Resolves(p, g[i - 1])]
  BY Zenon, <1>4, <1>5 DEF IsRounds
<1>7. g[0] = {}
  <2>1. 0 \in 0 .. n OBVIOUS
  <2> QED BY Zenon, <1>6, <2>1
<1>8. ASSUME NEW i \in 1 .. n PROVE g[i] = Resolves(p, g[i - 1])
  <2>1. i \in 0 .. n /\ i # 0 OBVIOUS
  <2> QED BY Zenon, <1>6, <2>1
<1> QED BY Zenon, <1>1, <1>5, <1>7, <1>8

\* A stage is in one batch only, and its dependencies are in earlier ones.
LEMMA BatchFacts ==
    ASSUME NEW p, NEW s, NEW k \in 1 .. Cardinality(Stages), s \in BatchOf(p, k)
    PROVE  /\ s \in Stages /\ k \in Batches(p)
           /\ p.deps[s] \subseteq resolvedAfter(p)[k - 1]
           /\ \A j \in k .. Cardinality(Stages) : s \in resolvedAfter(p)[j]
           /\ \A j \in 0 .. k - 1 : s \notin resolvedAfter(p)[j]
<1>1. PICK n \in Nat : n = Cardinality(Stages)
  BY Zenon, ResolvedRounds
<1>2. PICK g : g = resolvedAfter(p)
  BY Zenon
<1>3. g[0] = {} /\ \A i \in 1 .. n : g[i] = Resolves(p, g[i - 1])
  BY Zenon, <1>1, <1>2, ResolvedRounds
<1>4. k \in 1 .. n /\ s \in g[k] /\ s \notin g[k - 1]
  BY Zenon, <1>1, <1>2 DEF BatchOf
<1>5. s \in Stages /\ p.deps[s] \subseteq g[k - 1]
  BY <1>3, <1>4 DEF Resolves
<1>6. ASSUME NEW i \in Nat, NEW j \in Nat, i <= j, j <= n PROVE g[i] \subseteq g[j]
  <2> SUFFICES ASSUME NEW x \in g[i], x \notin g[j] PROVE FALSE
    BY Zenon
  <2> DEFINE T == {m \in Nat : i <= m /\ m <= n /\ x \notin g[m]}
  <2>1. T \in SUBSET Nat /\ T # {}
    BY Zenon, <1>6
  <2> HIDE DEF T
  <2>2. PICK m \in T : \A y \in T : m <= y
    BY Zenon, <2>1, LeastNatural
  <2>3. m \in Nat /\ i <= m /\ m <= n /\ x \notin g[m]
    BY Zenon, <2>2 DEF T
  <2>4. m # i
    BY Zenon, <2>3
  <2>5. m - 1 \in Nat /\ i <= m - 1 /\ m - 1 <= n /\ m \in 1 .. n /\ ~(m <= m - 1)
    BY <2>3, <2>4
  <2>6. x \in g[m - 1]
    BY Zenon, <2>2, <2>5 DEF T
  <2>7. g[m] = Resolves(p, g[m - 1])
    BY Zenon, <1>3, <2>5
  <2> QED BY Zenon, <2>3, <2>6, <2>7 DEF Resolves
<1>7. \A j \in k .. n : s \in g[j]
  <2> SUFFICES ASSUME NEW j \in k .. n PROVE s \in g[j] BY Zenon
  <2>1. k \in Nat /\ j \in Nat /\ k <= j /\ j <= n BY <1>4
  <2> QED BY Zenon, <1>4, <1>6, <2>1
<1>8. \A j \in 0 .. k - 1 : s \notin g[j]
  <2> SUFFICES ASSUME NEW j \in 0 .. k - 1 PROVE s \notin g[j] BY Zenon
  <2>1. j \in Nat /\ k - 1 \in Nat /\ j <= k - 1 /\ k - 1 <= n BY <1>4
  <2> QED BY Zenon, <1>4, <1>6, <2>1
<1>9. k \in Batches(p)
  BY Zenon DEF Batches
<1> QED BY Zenon, <1>1, <1>2, <1>5, <1>7, <1>8, <1>9

\* A resolved stage is in one of the batches so far.
LEMMA ResolvedIsBatched ==
    ASSUME NEW p, NEW k \in 0 .. Cardinality(Stages), NEW d \in resolvedAfter(p)[k]
    PROVE  \E j \in 1 .. k : d \in BatchOf(p, j) /\ j \in 1 .. Cardinality(Stages)
<1>1. PICK n \in Nat : n = Cardinality(Stages)
  BY Zenon, ResolvedRounds
<1> DEFINE T == {m \in Nat : m <= k /\ d \in resolvedAfter(p)[m]}
<1>2. T \in SUBSET Nat /\ T # {}
  BY <1>1
<1> HIDE DEF T
<1>3. PICK m \in T : \A y \in T : m <= y
  BY Zenon, <1>2, LeastNatural
<1>4. m \in Nat /\ m <= k /\ d \in resolvedAfter(p)[m]
  BY Zenon, <1>3 DEF T
<1>5. m # 0
  BY Zenon, <1>4, ResolvedRounds
<1>6. m \in 1 .. k /\ m \in 1 .. n /\ m - 1 \in Nat /\ m - 1 <= k /\ ~(m <= m - 1)
  BY <1>1, <1>4, <1>5
<1>7. d \notin resolvedAfter(p)[m - 1]
  BY Zenon, <1>3, <1>6 DEF T
<1> QED BY Zenon, <1>1, <1>4, <1>6, <1>7 DEF BatchOf

\* The level of a stage in a pipeline without a circle.
LEMMA LevelIs ==
    ASSUME NEW p, ~circular(p), NEW s \in Stages
    PROVE  /\ Level(p, s) \in 1 .. Cardinality(Stages)
           /\ \A k \in 1 .. Cardinality(Stages) : s \in BatchOf(p, k) <=> k = Level(p, s)
           /\ \A d \in p.deps[s] : d \in Stages /\ Level(p, d) < Level(p, s)
<1>1. PICK n \in Nat : n = Cardinality(Stages)
  BY Zenon, ResolvedRounds
<1>2. \A t \in Stages : \E k \in Batches(p) : t \in BatchOf(p, k)
  BY Zenon DEF circular
<1>3. ASSUME NEW t \in Stages
      PROVE  Level(p, t) \in Batches(p) /\ t \in BatchOf(p, Level(p, t)) /\ Level(p, t) \in 1 .. n
  BY Zenon, <1>1, <1>2 DEF Level, Batches
<1>4. ASSUME NEW t \in Stages, NEW k \in 1 .. n, t \in BatchOf(p, k) PROVE k = Level(p, t)
  <2>1. PICK l \in 1 .. n : l = Level(p, t) /\ t \in BatchOf(p, l) BY Zenon, <1>3
  <2>2. t \in resolvedAfter(p)[k] /\ t \in resolvedAfter(p)[l] BY Zenon, <1>4, <2>1 DEF BatchOf
  <2>3. ~(k < l)
    <3>1. k < l => k \in 0 .. l - 1 OBVIOUS
    <3> QED BY Zenon, <3>1, <2>1, <2>2, <1>1, BatchFacts
  <2>4. ~(l < k)
    <3>1. l < k => l \in 0 .. k - 1 OBVIOUS
    <3> QED BY Zenon, <3>1, <1>4, <2>2, <1>1, BatchFacts
  <2> QED BY <2>1, <2>3, <2>4
<1>5. ASSUME NEW d \in p.deps[s] PROVE d \in Stages /\ Level(p, d) < Level(p, s)
  <2>1. PICK l \in 1 .. n : l = Level(p, s) /\ s \in BatchOf(p, l) BY Zenon, <1>3
  <2>2. d \in resolvedAfter(p)[l - 1] BY Zenon, <1>1, <1>5, <2>1, BatchFacts
  <2>3. l - 1 \in 0 .. n OBVIOUS
  <2>4. PICK j \in 1 .. l - 1 : d \in BatchOf(p, j) /\ j \in 1 .. n BY Zenon, <1>1, <2>2, <2>3, ResolvedIsBatched
  <2>5. d \in Stages BY Zenon, <1>1, <2>4, BatchFacts
  <2>6. Level(p, d) = j BY Zenon, <1>4, <2>4, <2>5
  <2> QED BY <2>1, <2>4, <2>5, <2>6
<1> QED BY Zenon, <1>1, <1>3, <1>4, <1>5

\* The types of a pipeline's run.
PipelineTypes ==
    /\ batch \in Nat \ {0} /\ toCome \in SUBSET Stages
    /\ stage \in [Stages -> Results \cup {"none", "queued", "running", "ran", "writing"}]
    /\ outcome \in [Stages -> {"none", "ok", "failed", "stopped"}]
    /\ exec \in {"batch", "success", "error", "refused"}

\* The batches before the one that runs are over and have stopped nothing, the
\* ones after it have not begun.
StagesInStep ==
    /\ exec # "refused" => ~circular(pipe)
    /\ exec = "refused" => stage = [s \in Stages |-> "none"]
    /\ exec # "refused" => \A s \in Stages :
        /\ Level(pipe, s) < batch => stage[s] \in Results \ {"stopped"}
        /\ stage[s] # "none" => Level(pipe, s) <= batch
        /\ s \in toCome => Level(pipe, s) = batch /\ stage[s] = "none"
        /\ stage[s] \in {"ran", "writing"} => outcome[s] # "none"

\* The inductive invariant of a pipeline's run.
PipelineInv == PipelineTypes /\ StagesInStep

\* The invariant gives the property.
LEMMA InStepStarts == ASSUME PipelineInv PROVE StageAfterDeps
<1> SUFFICES ASSUME NEW s \in Stages, stage[s] \notin {"none", "skipped"}
             PROVE  /\ \A d \in pipe.deps[s] : stage[d] \in Results
                    /\ \A d \in Stages : stage[d] = "stopped" => Level(pipe, s) <= Level(pipe, d)
  BY Zenon DEF StageAfterDeps
<1>1. exec # "refused" /\ ~circular(pipe)
  BY Zenon DEF PipelineInv, StagesInStep
<1>2. batch \in Nat /\ Level(pipe, s) <= batch
  BY Zenon, <1>1 DEF PipelineInv, PipelineTypes, StagesInStep
<1>3. \A t \in Stages : Level(pipe, t) \in Nat
  BY <1>1, LevelIs, ResolvedRounds
<1>4. ASSUME NEW d \in pipe.deps[s] PROVE stage[d] \in Results
  <2>1. d \in Stages /\ Level(pipe, d) < Level(pipe, s) BY Zenon, <1>1, LevelIs
  <2>2. Level(pipe, d) < batch BY <2>1, <1>2, <1>3
  <2> QED BY Zenon, <2>1, <2>2, <1>1 DEF PipelineInv, StagesInStep
<1>5. ASSUME NEW d \in Stages, stage[d] = "stopped" PROVE Level(pipe, s) <= Level(pipe, d)
  <2>1. ~(Level(pipe, d) < batch) BY Zenon, <1>1, <1>5 DEF PipelineInv, StagesInStep
  <2> QED BY <2>1, <1>2, <1>3
<1> QED BY Zenon, <1>4, <1>5

\* One stage goes a step further.
LEMMA OneStage ==
    ASSUME PipelineInv, exec # "refused", NEW s \in Stages,
           NEW x \in Results \cup {"queued", "running", "ran", "writing"},
           NEW y \in {"none", "ok", "failed", "stopped"},
           stage' = [stage EXCEPT ![s] = x], outcome' = [outcome EXCEPT ![s] = y],
           toCome' \in SUBSET toCome, s \notin toCome',
           s \in toCome \/ stage[s] \notin Results \cup {"none"},
           x \in {"ran", "writing"} => y # "none",
           UNCHANGED <<pipe, batch, exec>>
    PROVE  PipelineInv'
<1>1. /\ stage \in [Stages -> Results \cup {"none", "queued", "running", "ran", "writing"}]
      /\ outcome \in [Stages -> {"none", "ok", "failed", "stopped"}]
      /\ batch \in Nat /\ toCome \in SUBSET Stages
  BY Zenon DEF PipelineInv, PipelineTypes
<1>2. stage'[s] = x /\ outcome'[s] = y /\ \A t \in Stages \ {s} : stage'[t] = stage[t] /\ outcome'[t] = outcome[t]
  BY Zenon, <1>1
<1>3. PipelineTypes'
  BY ZenonT(40), <1>1 DEF PipelineInv, PipelineTypes
<1>4. ~circular(pipe) /\ Level(pipe, s) \in Nat
  <2>1. ~circular(pipe) BY Zenon DEF PipelineInv, StagesInStep
  <2> QED BY <2>1, LevelIs, ResolvedRounds
<1>5. Level(pipe, s) <= batch /\ ~(Level(pipe, s) < batch)
  <2>1. CASE s \in toCome
    <3>1. Level(pipe, s) = batch BY Zenon, <2>1 DEF PipelineInv, StagesInStep
    <3> QED BY <3>1, <1>1
  <2>2. CASE stage[s] \notin Results \cup {"none"}
    BY Zenon, <2>2 DEF PipelineInv, StagesInStep
  <2> QED BY Zenon, <2>1, <2>2
<1>6. \A t \in Stages : Level(pipe, t)' = Level(pipe, t)
  BY Zenon
<1>7. x # "none"
  BY Zenon DEF Results
<1>8. ASSUME NEW t \in Stages
      PROVE  /\ Level(pipe, t) < batch => stage'[t] \in Results \ {"stopped"}
             /\ stage'[t] # "none" => Level(pipe, t) <= batch
             /\ t \in toCome' => Level(pipe, t) = batch /\ stage'[t] = "none"
             /\ stage'[t] \in {"ran", "writing"} => outcome'[t] # "none"
  <2>1. CASE t = s
    BY Zenon, <2>1, <1>2, <1>5
  <2>2. CASE t # s
    <3>1. stage'[t] = stage[t] /\ outcome'[t] = outcome[t] /\ (t \in toCome' => t \in toCome) BY Zenon, <2>2, <1>2
    <3> QED BY Zenon, <3>1 DEF PipelineInv, StagesInStep
  <2> QED BY Zenon, <2>1, <2>2
<1>9. StagesInStep'
  BY Zenon, <1>4, <1>8 DEF StagesInStep
<1> QED BY Zenon, <1>3, <1>9 DEF PipelineInv

\* A refused pipeline starts nothing.
LEMMA RefusedStays ==
    ASSUME PipelineInv, PipelineNext, exec = "refused"
    PROVE  UNCHANGED pipelineVars
<1>1. \A s \in Stages : stage[s] = "none"
  BY Zenon DEF PipelineInv, StagesInStep
<1> QED BY Zenon, <1>1 DEF PipelineNext, skip, launch, acquireSem, executeStage, storeResult, endBatch, PipelineOver

\* The loop over the batch and the goroutines it starts.
LEMMA StageStep ==
    ASSUME PipelineInv, exec # "refused", NEW s \in Stages,
           skip(s) \/ launch(s) \/ acquireSem(s) \/ executeStage(s) \/ storeResult(s)
    PROVE  PipelineInv'
<1>0. /\ stage[s] \in Results \cup {"none", "queued", "running", "ran", "writing"}
      /\ outcome[s] \in {"none", "ok", "failed", "stopped"} /\ outcome = [outcome EXCEPT ![s] = outcome[s]]
      /\ stage = [stage EXCEPT ![s] = stage[s]]
  BY Zenon DEF PipelineInv, PipelineTypes
<1>1. s \in toCome => stage[s] = "none"
  BY Zenon DEF PipelineInv, StagesInStep
<1>2. CASE skip(s)
  <2>1. stage' = [stage EXCEPT ![s] = "skipped"] /\ toCome' = toCome \ {s} /\ s \in toCome /\ UNCHANGED <<pipe, batch, outcome, exec>>
    BY Zenon, <1>2 DEF skip
  <2>2. "skipped" \in Results BY Zenon DEF Results
  <2> QED BY Zenon, <2>1, <2>2, <1>0, OneStage
<1>3. CASE launch(s)
  <2>1. stage' = [stage EXCEPT ![s] = "queued"] /\ toCome' = toCome \ {s} /\ s \in toCome /\ UNCHANGED <<pipe, batch, outcome, exec>>
    BY Zenon, <1>3 DEF launch
  <2> QED BY Zenon, <2>1, <1>0, OneStage
<1>4. CASE acquireSem(s)
  <2>1. stage' = [stage EXCEPT ![s] = "running"] /\ stage[s] = "queued" /\ UNCHANGED <<pipe, batch, toCome, outcome, exec>>
    BY Zenon, <1>4 DEF acquireSem
  <2>2. s \notin toCome /\ stage[s] \notin Results \cup {"none"} BY Zenon, <2>1, <1>1 DEF Results
  <2> QED BY Zenon, <2>1, <2>2, <1>0, OneStage
<1>5. CASE executeStage(s)
  <2>1. stage[s] = "running" /\ UNCHANGED <<pipe, batch, toCome, exec>>
    BY Zenon, <1>5 DEF executeStage
  <2>2. s \notin toCome /\ stage[s] \notin Results \cup {"none"} BY Zenon, <2>1, <1>1 DEF Results
  <2>3. CASE UNCHANGED <<stage, outcome>>
    BY Zenon, <2>1, <2>2, <2>3, <1>0, OneStage
  <2>4. CASE ~UNCHANGED <<stage, outcome>>
    <3>1. PICK y \in {"ok", "failed", "stopped"} : stage' = [stage EXCEPT ![s] = "ran"] /\ outcome' = [outcome EXCEPT ![s] = y]
      BY Zenon, <1>5, <2>4 DEF executeStage, StageOutcome
    <3> QED BY Zenon, <2>1, <2>2, <3>1, OneStage
  <2> QED BY Zenon, <2>3, <2>4
<1>6. CASE storeResult(s)
  <2>1. stage[s] \in {"ran", "writing"} /\ UNCHANGED <<pipe, batch, toCome, outcome, exec>>
    BY Zenon, <1>6 DEF storeResult
  <2>2. s \notin toCome /\ stage[s] \notin Results \cup {"none"} BY Zenon, <2>1, <1>1 DEF Results
  <2>3. outcome[s] # "none" BY Zenon, <2>1 DEF PipelineInv, StagesInStep
  <2>4. PICK x \in {"writing", outcome[s]} : stage' = [stage EXCEPT ![s] = x]
    BY Zenon, <1>6 DEF storeResult
  <2>5. x \in Results \cup {"queued", "running", "ran", "writing"} BY Zenon, <2>3, <2>4, <1>0 DEF Results
  <2> QED BY Zenon, <2>1, <2>2, <2>3, <2>4, <2>5, <1>0, OneStage
<1> QED BY Zenon, <1>2, <1>3, <1>4, <1>5, <1>6

\* The batch is over.
LEMMA BatchStep ==
    ASSUME PipelineInv, exec # "refused", endBatch
    PROVE  PipelineInv'
<1>1. BatchOver /\ exec = "batch" /\ UNCHANGED <<pipe, stage, outcome>>
  BY Zenon DEF endBatch
<1>2. ~circular(pipe) /\ batch \in Nat \ {0}
  BY Zenon DEF PipelineInv, PipelineTypes, StagesInStep
<1>3. PICK n \in Nat : n = Cardinality(Stages)
  BY Zenon, ResolvedRounds
<1>4. CASE exec' \in {"error", "success"} /\ UNCHANGED <<batch, toCome>>
  <2>1. exec' # "refused" BY Zenon, <1>4
  <2>2. PipelineTypes' BY Zenon, <1>1, <1>4 DEF PipelineInv, PipelineTypes
  <2>3. StagesInStep' BY Zenon, <1>1, <1>4, <2>1 DEF PipelineInv, StagesInStep
  <2> QED BY Zenon, <2>2, <2>3 DEF PipelineInv
<1>5. CASE /\ batch + 1 \in Batches(pipe) /\ ~\E s \in Stages : stage[s] = "stopped"
           /\ batch' = batch + 1 /\ toCome' = BatchOf(pipe, batch + 1) /\ UNCHANGED exec
  <2>1. batch + 1 \in 1 .. n /\ batch \in 1 .. n BY <1>2, <1>3, <1>5 DEF Batches
  <2>2. ASSUME NEW s \in Stages
        PROVE  /\ Level(pipe, s) < batch + 1 => stage[s] \in Results \ {"stopped"}
               /\ stage[s] # "none" => Level(pipe, s) <= batch + 1
               /\ s \in toCome' => Level(pipe, s) = batch + 1 /\ stage[s] = "none"
               /\ stage[s] \in {"ran", "writing"} => outcome[s] # "none"
    <3>1. PICK l \in 1 .. n : l = Level(pipe, s) /\ \A k \in 1 .. n : s \in BatchOf(pipe, k) <=> k = l
      BY <1>2, <1>3, LevelIs
    <3>2. /\ l < batch => stage[s] \in Results \ {"stopped"}
          /\ stage[s] # "none" => l <= batch
          /\ stage[s] \in {"ran", "writing"} => outcome[s] # "none"
      BY Zenon, <1>1, <3>1 DEF PipelineInv, StagesInStep
    <3>3. l = batch => stage[s] \in Results \ {"stopped"}
      BY Zenon, <1>1, <1>5, <2>1, <3>1 DEF BatchOver
    <3>4. l < batch + 1 => l < batch \/ l = batch BY <2>1
    <3>5. l <= batch => l <= batch + 1 BY <2>1
    <3>6. s \in toCome' => l = batch + 1 BY Zenon, <1>5, <2>1, <3>1
    <3>7. l = batch + 1 => ~(l <= batch) BY <2>1
    <3> QED BY Zenon, <3>1, <3>2, <3>3, <3>4, <3>5, <3>6, <3>7
  <2>3. toCome' \in SUBSET Stages
    BY Zenon, <1>3, <1>5, <2>1, BatchFacts
  <2>4. batch' \in Nat \ {0}
    BY <1>2, <1>5
  <2>5. PipelineTypes'
    BY Zenon, <1>1, <1>5, <2>3, <2>4 DEF PipelineInv, PipelineTypes
  <2>6. StagesInStep'
    BY Zenon, <1>1, <1>2, <1>5, <2>2 DEF StagesInStep
  <2> QED BY Zenon, <2>5, <2>6 DEF PipelineInv
<1> QED BY Zenon, <1>4, <1>5 DEF endBatch

\* A stage of a pipeline of any size and shape starts after all its
\* dependencies have a result, and a stage that stops the pipeline stops every
\* stage of a later batch (resolveDAG and the batch loop of the pipeline).
THEOREM StagesFollowDependencies == PipelineSpec => []StageAfterDeps
<1>1. ASSUME PipelineInit PROVE PipelineInv
  <2>1. stage = [s \in Stages |-> "none"] /\ outcome = [s \in Stages |-> "none"] /\ batch = 1 /\ toCome = BatchOf(pipe, 1)
        /\ exec = IF circular(pipe) THEN "refused" ELSE "batch"
    BY Zenon, <1>1 DEF PipelineInit
  <2>2. PICK n \in Nat : n = Cardinality(Stages) BY Zenon, ResolvedRounds
  <2>3. 1 \in 1 .. n
    <3>1. n # 0 BY Zenon, <2>2, PipelineAssumption, FS_EmptySet
    <3> QED BY <3>1
  <2>4. toCome \in SUBSET Stages
    BY Zenon, <2>1, <2>2, <2>3, BatchFacts
  <2>5. PipelineTypes
    BY <2>1, <2>4 DEF PipelineTypes, Results
  <2>6. ASSUME ~circular(pipe), NEW s \in Stages
        PROVE  /\ ~(Level(pipe, s) < batch)
               /\ s \in toCome => Level(pipe, s) = batch
    <3>1. PICK l \in 1 .. n : l = Level(pipe, s) /\ \A k \in 1 .. n : s \in BatchOf(pipe, k) <=> k = l
      BY <2>2, <2>6, LevelIs
    <3> QED BY <2>1, <2>3, <3>1
  <2>7. StagesInStep
    BY Zenon, <2>1, <2>6 DEF StagesInStep
  <2> QED BY Zenon, <2>5, <2>7 DEF PipelineInv
<1>2. ASSUME PipelineInv, [PipelineNext]_pipelineVars PROVE PipelineInv'
  <2>1. CASE UNCHANGED pipelineVars
    BY Zenon, <1>2, <2>1 DEF pipelineVars, PipelineInv, PipelineTypes, StagesInStep
  <2>2. CASE exec = "refused" /\ PipelineNext
    BY Zenon, <1>2, <2>1, <2>2, RefusedStays
  <2>3. CASE exec # "refused" /\ PipelineNext
    <3>1. CASE \E s \in Stages : skip(s) \/ launch(s) \/ acquireSem(s) \/ executeStage(s) \/ storeResult(s)
      BY Zenon, <1>2, <2>3, <3>1, StageStep
    <3>2. CASE endBatch BY Zenon, <1>2, <2>3, <3>2, BatchStep
    <3>3. CASE PipelineOver BY Zenon, <2>1, <3>3 DEF PipelineOver
    <3> QED BY Zenon, <2>3, <3>1, <3>2, <3>3 DEF PipelineNext
  <2> QED BY Zenon, <1>2, <2>1, <2>2, <2>3
<1> QED BY <1>1, <1>2, InStepStarts, PTL DEF PipelineSpec
=============================================================================
