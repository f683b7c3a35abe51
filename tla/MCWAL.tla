------------------------------- MODULE MCWAL -------------------------------
(***************************************************************************)
(* The two logs for TLC: the write-ahead log of a workflow and the audit   *)
(* log.  They share no state: a behaviour exercises one of them while the  *)
(* other rests in its initial state.                                       *)
(***************************************************************************)
EXTENDS WAL, AuditChain

VARIABLE part

MCInit ==
    /\ Init /\ AuditInit
    /\ part \in {"wal", "audit"}
    /\ part = "wal" => log = <<>>

MCNext ==
    \/ part = "wal" /\ Next /\ UNCHANGED <<part, auditVars>>
    \/ part = "audit" /\ AuditNext /\ UNCHANGED <<part, vars>>

MCSpec == MCInit /\ [][MCNext]_<<part, vars, auditVars>>
=============================================================================
