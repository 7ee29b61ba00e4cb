---------------------------- MODULE AbstractTasks -----------------------------
(***************************************************************************)
(* What src/threadtasks.lib promises: each interpreter has tasks of its    *)
(* own; a task that was started is executed at most once, by some worker,  *)
(* and then the interpreter that started it finds its result under the     *)
(* task's id.  A task that was only created never gets anywhere, because   *)
(* startTask() fails.                                                      *)
(***************************************************************************)
EXTENDS Naturals, Sequences

CONSTANTS Interpreters,  \* the interpreters that have tasks
          MaxTasks(_)    \* bound on the tasks of an interpreter

VARIABLES state,   \* state[i]: the states of the tasks of i, by their ids
          result   \* result[i]: the results that i has, by task id

absvars == <<state, result>>

TaskStates == {"created", "started", "executed", "failed", "done"}
NoResult == <<>>

\* The result of a task; it depends on what was started, and on nothing else.
ResultOf(i, id) == <<i, id>>

AbsInit ==
  /\ state = [i \in Interpreters |-> <<>>]
  /\ result = [i \in Interpreters |-> <<>>]

Add(i, s) ==
  /\ Len(state[i]) < MaxTasks(i)
  /\ state' = [state EXCEPT ![i] = Append(@, s)]
  /\ result' = [result EXCEPT ![i] = Append(@, NoResult)]

Move(i, id, from, to) ==
  /\ id \in DOMAIN state[i] /\ state[i][id] = from
  /\ state' = [state EXCEPT ![i][id] = to]

Execute(i, id) == Move(i, id, "started", "executed") /\ UNCHANGED result
Fail(i, id) == Move(i, id, "started", "failed") /\ UNCHANGED result

Deliver(i, id) ==
  /\ Move(i, id, "executed", "done")
  /\ result' = [result EXCEPT ![i][id] = ResultOf(i, id)]

AbsNext ==
  \E i \in Interpreters :
    \/ Add(i, "started") \/ Add(i, "created")
    \/ \E id \in DOMAIN state[i] : Execute(i, id) \/ Fail(i, id) \/ Deliver(i, id)

AbsSpec == AbsInit /\ [][AbsNext]_absvars
==============================================================================
