--------------------------- MODULE MCDAGScheduler ---------------------------
(* The instance of DAGScheduler for TLC. *)
EXTENDS DAGScheduler

\* Three roots, and a step that joins two of them.
MCDepsFork == [s \in 0 .. 3 |-> IF s = 3 THEN {0, 1} ELSE {}]
=============================================================================
