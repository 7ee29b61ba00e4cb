----------------------------- MODULE MCTriggers ------------------------------
(* Triggers for TLC. *)
EXTENDS Triggers, TLC

CONSTANTS j1, t1, t2

\* A job activates one trigger, and that one the other.
Chain == {<<t1, j1>>, <<t2, t1>>}

ArgumentLists == {<<>>, <<0>>, <<0, 1>>}
==============================================================================
