----------------------------- MODULE MCScheduler -----------------------------
(* Scheduler for TLC: who may schedule which job. *)
EXTENDS Scheduler, TLC

CONSTANTS c1, c2, w1, j1, j2, j3

\* One client schedules everything.
OneClient == [j \in Jobs |-> {c1}]

\* Two clients and a job that schedules another.
Several == [j \in Jobs |-> IF j = j3 THEN {w1} ELSE {c1}]
==============================================================================
