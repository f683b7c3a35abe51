------------------------------ MODULE MCAgents ------------------------------
(***************************************************************************)
(* Callers that wait for others, for TLC: a supervisor that delegates to   *)
(* external agents, the agent daemon, and triggers of a workflow under one *)
(* idempotency key.  They share no state: a behaviour exercises one of     *)
(* them while the others rest in states in which none of their fair        *)
(* actions is enabled.                                                     *)
(***************************************************************************)
EXTENDS Delegation, AgentDaemon, Idempotency, TLC

CONSTANTS j1, j2, j3, a1, a2

VARIABLE part

\* Two jobs for an A2A agent, one for an agent with a command line.
MCAgentOf == (j1 :> a1) @@ (j2 :> a1) @@ (j3 :> a2)
MCDriver == (a1 :> "a2a") @@ (a2 :> "cli")

\* HandleAgent has returned.
DaemonIdle ==
    /\ taskQueue = <<>> /\ active = {} /\ status = [t \in Tasks |-> ""] /\ notEmpty = FALSE
    /\ worker = "stopped" /\ handler = [t \in Tasks |-> "none"]
    /\ inputs = <<>> /\ closed = TRUE /\ reply = [s \in Sources |-> FALSE]
    /\ agentLoop = "returned"
    /\ main = "returned" /\ ctxDone = TRUE /\ lines = 0 /\ stdin = "eof" /\ signal = TRUE
    /\ crashed = FALSE /\ fires = 0 /\ typed = 0

MCInit ==
    /\ DelegationInit /\ Init
    /\ \/ part \in {"delegation", "trigger"} /\ DaemonIdle
       \/ part = "daemon" /\ DaemonInit

MCNext ==
    \/ part = "delegation" /\ DelegationNext /\ UNCHANGED <<part, agentVars, vars>>
    \/ part = "daemon" /\ DaemonNext /\ UNCHANGED <<part, delegationVars, vars>>
    \/ part = "trigger" /\ Next /\ UNCHANGED <<part, delegationVars, agentVars>>

MCSpec ==
    /\ MCInit /\ [][MCNext]_<<part, delegationVars, agentVars, vars>>
    /\ DelegationFairness /\ DaemonFairness
=============================================================================
