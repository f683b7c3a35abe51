----------------------------- MODULE MCServices -----------------------------
(***************************************************************************)
(* Services for TLC: the LLM router, one LLM node with its cache, the      *)
(* webhook server, and the runs that pause and are resumed through the API *)
(* server.  They share no state (the router makes a node of its own for    *)
(* every provider call), so a behaviour exercises one of them while the    *)
(* others rest in their initial states.                                    *)
(***************************************************************************)
EXTENDS LLMRouter, LLMCall, Webhook, PausedRuns, TLC

VARIABLE part

TheProviders == <<"p1", "p2">>
ThePriority == [p1 |-> 2, p2 |-> 1]
TheCost == [p1 |-> 2, p2 |-> 1]
TheQuota == [p1 |-> 0, p2 |-> 1]

MCInit ==
    /\ Init /\ CallInit /\ WebhookInit /\ PausedInit
    /\ part \in {"router", "call", "webhook", "paused"}

MCNext ==
    \/ part = "router" /\ Next /\ UNCHANGED <<part, callVars, webhookVars, pausedVars>>
    \/ part = "call" /\ CallNext /\ UNCHANGED <<part, vars, webhookVars, pausedVars>>
    \/ part = "webhook" /\ WebhookNext /\ UNCHANGED <<part, vars, callVars, pausedVars>>
    \/ part = "paused" /\ PausedNext /\ UNCHANGED <<part, vars, callVars, webhookVars>>

MCSpec == MCInit /\ [][MCNext]_<<part, vars, callVars, webhookVars, pausedVars>>

\* The same two stand for the callers of every part.
Symmetry == Permutations(Calls)
=============================================================================
