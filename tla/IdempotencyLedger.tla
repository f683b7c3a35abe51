------------------------- MODULE IdempotencyLedger -------------------------
(***************************************************************************)
(* What an idempotency store promises for one key, as the in-memory store  *)
(* of internal/workflow/idempotency.go keeps it under one mutex: a run is  *)
(* claimed only where there is no record or a failed one, and the record   *)
(* stands for the run that claimed it until that run ends.                 *)
(***************************************************************************)
EXTENDS Integers

CONSTANT Runs       \* run identifiers

VARIABLES
    rec,        \* the record of the key
    running     \* the runs that own the key and have not ended

NoRecord == [status |-> "none", run |-> 0]

Init ==
    /\ rec = NoRecord
    /\ running = {}

\* Reserve that wins.
Reserve(r) ==
    /\ rec.status \in {"none", "failed"}
    /\ r \notin running
    /\ rec' = [status |-> "in_progress", run |-> r]
    /\ running' = running \cup {r}

\* Record by the run that owns the key.
Record(r) ==
    /\ r \in running
    /\ \E s \in {"completed", "failed"} : rec' = [status |-> s, run |-> r]
    /\ running' = running \ {r}

\* A run ends without Record, by a crash or because Record failed.
Lose ==
    /\ running' \in SUBSET running
    /\ UNCHANGED rec

\* The record of a run that has ended outlives the TTL.
Expire ==
    /\ rec.run \notin running
    /\ rec' = NoRecord
    /\ UNCHANGED running

Next ==
    \/ \E r \in Runs : Reserve(r) \/ Record(r)
    \/ Lose
    \/ Expire

Spec == Init /\ [][Next]_<<rec, running>>
=============================================================================
