-------------------------------- MODULE Tasks ---------------------------------
(***************************************************************************)
(* The task system of src/threadtasks.lib.  Interpreters put tasks in the  *)
(* channel taskQueue; each worker takes one at a time, runs it, and sends  *)
(* the result to the channel toWorker of the interpreter that started it,  *)
(* which looks into that channel only while it waits for a task.  A task   *)
(* may start tasks and wait for them itself: its worker does nothing else  *)
(* meanwhile.  A task that fails ends the loop of startWorker().           *)
(*                                                                         *)
(* One step is one command of a library procedure that uses a channel; the *)
(* channels are the queues that module Channel shows them to be.  The ids  *)
(* of the tasks of an interpreter are the indices of localTasks, taskID is *)
(* its length.                                                             *)
(***************************************************************************)
EXTENDS Naturals, Sequences, FiniteSets

CONSTANTS Workers,     \* the numbers of the workers, as createTaskSystem() counts
          MaxTasks(_), \* bound on the tasks of an interpreter
          MaxNesting   \* only the first tasks of the main thread use the system

Main == 0

ASSUME WorkersAssumption == Workers \subseteq Nat \ {0} /\ IsFiniteSet(Workers)
ASSUME MaxTasksAssumption == \A i \in Workers \cup {0} : MaxTasks(i) \in Nat
ASSUME MaxNestingAssumption == MaxNesting \in Nat

Interpreters == Workers \cup {Main}

VARIABLES
  taskQueue,   \* the channel of that name: the worker and id fields of tasks
  toWorker,    \* the channels of that name: lists of an id and a result
  localTasks,  \* the started, done and result fields of each interpreter's tasks
  doing,       \* the task that a worker executes
  ended,       \* the workers whose loop is over
  waiting,     \* the arguments of waitTasks() in each interpreter
  failed       \* history: the tasks whose procedure failed

vars == <<taskQueue, toWorker, localTasks, doing, ended, waiting, failed>>

NoTask == <<>>
NoWait == <<>>
NoResult == <<>>

NewTask(started) == [started |-> started, done |-> FALSE, result |-> NoResult]
Ids(i) == DOMAIN localTasks[i]

\* The result of a task, a function of the fields func and args.
ResultOf(i, id) == <<i, id>>

TypeOK ==
  /\ taskQueue \in Seq(Interpreters \X Nat)
  /\ toWorker \in [Interpreters -> Seq(Nat \X (Interpreters \X Nat))]
  /\ localTasks \in [Interpreters ->
       Seq([started : BOOLEAN, done : BOOLEAN,
            result : {NoResult} \cup (Interpreters \X Nat)])]
  /\ doing \in [Workers -> {NoTask} \cup (Interpreters \X Nat)]
  /\ ended \in SUBSET Workers
  /\ waiting \in [Interpreters -> {NoWait} \cup ((SUBSET Nat) \X Nat)]
  /\ \A i \in Interpreters : waiting[i] # NoWait => waiting[i][1] \subseteq Ids(i)
  /\ failed \in SUBSET (Interpreters \X Nat)

\* After createTaskSystem() and startTaskSystem().
Init ==
  /\ taskQueue = <<>>
  /\ toWorker = [i \in Interpreters |-> <<>>]
  /\ localTasks = [i \in Interpreters |-> <<>>]
  /\ doing = [w \in Workers |-> NoTask]
  /\ ended = {}
  /\ waiting = [i \in Interpreters |-> NoWait]
  /\ failed = {}

\* Tasks that use the task system themselves, a bound on the programs checked.
Nests(task) == task[1] = Main /\ task[2] <= MaxNesting

\* Interpreters that execute a procedure and are not inside waitTasks().
Busy(i) ==
  /\ waiting[i] = NoWait
  /\ i # Main => doing[i] # NoTask /\ Nests(doing[i])

-----------------------------------------------------------------------------
\* runTask()
RunTask(i) ==
  /\ Busy(i) /\ Len(localTasks[i]) < MaxTasks(i)
  /\ taskQueue' = Append(taskQueue, <<i, Len(localTasks[i]) + 1>>)
  /\ localTasks' = [localTasks EXCEPT ![i] = Append(@, NewTask(TRUE))]
  /\ UNCHANGED <<toWorker, doing, ended, waiting, failed>>

\* createTask()
CreateTask(i) ==
  /\ Busy(i) /\ Len(localTasks[i]) < MaxTasks(i)
  /\ localTasks' = [localTasks EXCEPT ![i] = Append(@, NewTask(FALSE))]
  /\ UNCHANGED <<taskQueue, toWorker, doing, ended, waiting, failed>>

\* An error ends the procedures that run.  In a worker that includes
\* startWorker(); the task has no result.
Error(i) ==
  /\ IF i = Main THEN UNCHANGED <<doing, ended, failed>>
     ELSE /\ failed' = failed \cup {doing[i]}
          /\ doing' = [doing EXCEPT ![i] = NoTask]
          /\ ended' = ended \cup {i}
  /\ UNCHANGED <<taskQueue, toWorker, localTasks, waiting>>

\* startTask() of a task that was not started: its list names the variable func,
\* which does not exist there, where it means t.func.
StartTask(i, id) == Busy(i) /\ id \in Ids(i) /\ ~localTasks[i][id].started /\ Error(i)

\* A worker receives a task.
TakeTask(w) ==
  /\ w \notin ended /\ doing[w] = NoTask /\ taskQueue # <<>>
  /\ doing' = [doing EXCEPT ![w] = Head(taskQueue)]
  /\ taskQueue' = Tail(taskQueue)
  /\ UNCHANGED <<toWorker, localTasks, ended, waiting, failed>>

\* The interpreter that started a task.  The worker itself is a bug for the
\* properties to find, like the other variants below that no action uses.
OwnNumber(w) == w
Source(w) == doing[w][1]

\* callVarargs() is done and the result is sent.
FinishTask(w) ==
  /\ doing[w] # NoTask /\ waiting[w] = NoWait
  /\ toWorker' = [toWorker EXCEPT ![Source(w)] =
                    Append(@, <<doing[w][2], ResultOf(doing[w][1], doing[w][2])>>)]
  /\ doing' = [doing EXCEPT ![w] = NoTask]
  /\ UNCHANGED <<taskQueue, localTasks, ended, waiting, failed>>

\* callVarargs() fails.
FailTask(w) == doing[w] # NoTask /\ waiting[w] = NoWait /\ Error(w)

\* waitTasks(T, n); waitTask(t) is waitTasks(list(t), 1), and waitAllTasks() is
\* a sequence of those.
WaitTasks(i, T, n) ==
  /\ Busy(i) /\ T \subseteq Ids(i) /\ n \in 1 .. Cardinality(T)
  /\ waiting' = [waiting EXCEPT ![i] = <<T, n>>]
  /\ UNCHANGED <<taskQueue, toWorker, localTasks, doing, ended, failed>>

Waits(i) == waiting[i] # NoWait
Finished(i) == {id \in waiting[i][1] : localTasks[i][id].done}
MoreFinished(i) == Cardinality(Finished(i)) > waiting[i][2]
Satisfied(i) == Cardinality(Finished(i)) >= waiting[i][2]

\* The task that a result is for.
FirstWaited(i) == CHOOSE id \in waiting[i][1] : ~localTasks[i][id].done
RemoteId(i) == Head(toWorker[i])[1]

\* pollIncoming() in the loop of waitTasks().
PollIncoming(i) ==
  /\ Waits(i) /\ ~Satisfied(i) /\ toWorker[i] # <<>>
  /\ localTasks' = [localTasks EXCEPT ![i][RemoteId(i)] =
                      [@ EXCEPT !.done = TRUE, !.result = Head(toWorker[i])[2]]]
  /\ toWorker' = [toWorker EXCEPT ![i] = Tail(@)]
  /\ UNCHANGED <<taskQueue, doing, ended, waiting, failed>>

\* waitTasks() returns.
WaitReturns(i) ==
  /\ Waits(i) /\ Satisfied(i)
  /\ waiting' = [waiting EXCEPT ![i] = NoWait]
  /\ UNCHANGED <<taskQueue, toWorker, localTasks, doing, ended, failed>>

Next ==
  \/ \E w \in Workers : TakeTask(w) \/ FinishTask(w) \/ FailTask(w)
  \/ \E i \in Interpreters :
       \/ RunTask(i) \/ CreateTask(i) \/ PollIncoming(i) \/ WaitReturns(i)
       \/ \E id \in Ids(i) : StartTask(i, id)
       \/ \E T \in SUBSET Ids(i) : \E n \in 1 .. Cardinality(T) : WaitTasks(i, T, n)

\* A task in the queue is taken while a worker is free, a result that is there
\* is taken by an interpreter that waits, a wait that is over returns, and the
\* procedure of a task comes to an end: how often it waits is finite.
Fairness ==
  /\ WF_vars(\E w \in Workers : TakeTask(w))
  /\ \A i \in Interpreters : WF_vars(PollIncoming(i)) /\ WF_vars(WaitReturns(i))
  /\ \A w \in Workers : SF_vars(FinishTask(w) \/ FailTask(w))

Spec == Init /\ [][Next]_vars
LiveSpec == Spec /\ Fairness

-----------------------------------------------------------------------------
Occurrences(x, s) == Cardinality({k \in DOMAIN s : s[k] = x})

\* Where task id of interpreter i is.
Places(i, id) ==
  Occurrences(<<i, id>>, taskQueue)
  + Cardinality({w \in Workers : doing[w] = <<i, id>>})
  + Cardinality({k \in DOMAIN toWorker[i] : toWorker[i][k][1] = id})
  + (IF <<i, id>> \in failed THEN 1 ELSE 0)
  + (IF localTasks[i][id].done THEN 1 ELSE 0)

\* A task that runTask() has started is in exactly one place: the queue, a
\* worker, the channel to its interpreter, its result, or lost by a failure;
\* one that was only created is nowhere.  So no task gets lost when a worker
\* is lost, none runs twice, and no result waits for the wrong interpreter.
OnePlace ==
  \A i \in Interpreters : \A id \in Ids(i) :
    Places(i, id) = IF localTasks[i][id].started THEN 1 ELSE 0

StateOf(i, id) ==
  LET task == localTasks[i][id]
  IN CASE task.done -> "done"
       [] <<i, id>> \in failed -> "failed"
       [] \E k \in DOMAIN toWorker[i] : toWorker[i][k][1] = id -> "executed"
       [] ~task.started -> "created"
       [] OTHER -> "started"

Abs == INSTANCE AbstractTasks
         WITH state <- [i \in Interpreters |-> [id \in Ids(i) |-> StateOf(i, id)]],
              result <- [i \in Interpreters |->
                           [id \in Ids(i) |-> localTasks[i][id].result]]

\* Every step of the task system is one that the promise in AbstractTasks
\* allows: the result that getResult() finds is that of the task asked for,
\* and nobody executes a task a second time.
ImplementsTasks == Abs!AbsSpec

\* No worker can go on, ever: its loop is over, or it waits for tasks that no
\* worker is left to execute.
AllStuck ==
  \A w \in Workers :
    w \in ended \/ (Waits(w) /\ ~Satisfied(w) /\ toWorker[w] = <<>>)

\* Somebody waits for tasks of which too few were started, or can finish.
Hopeless ==
  \/ failed # {}
  \/ \E i \in Interpreters :
       Waits(i) /\ Cardinality({id \in waiting[i][1] : localTasks[i][id].started})
                     < waiting[i][2]

\* waitTasks() returns in the main thread and in tasks, if no task fails and
\* startTask() is not relied on, unless every worker waits for tasks itself.
WaitsEnd ==
  \A i \in Interpreters : Waits(i) ~> (~Waits(i) \/ AllStuck \/ Hopeless)
==============================================================================
