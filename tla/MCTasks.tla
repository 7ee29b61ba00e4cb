------------------------------- MODULE MCTasks --------------------------------
(* Bounds for TLC: three tasks of the main thread, two of which run one
   task each. *)
EXTENDS Tasks

TasksOf(i) == IF i = Main THEN 3 ELSE 1
==============================================================================
