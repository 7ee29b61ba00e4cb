---------------------------- MODULE SingleThreaded ----------------------------
(***************************************************************************)
(* The pseudo thread pool of createThreadPool(0), src/shared.cc: it has no *)
(* threads.  waitJob() and closeThreadPool() run Scheduler::main in the    *)
(* thread that calls them; it executes jobs until the job waited for is    *)
(* done or nothing is left in the queues.  A job may call waitJob() too,   *)
(* so that runs of Scheduler::main are nested: every thread has a stack of *)
(* them.  Several interpreter threads may share the pool.                  *)
(*                                                                         *)
(* One step is one critical section of Scheduler::lock, or one round of    *)
(* Scheduler::main, which keeps the lock from one job to the next.  The    *)
(* order of the priority queue is left open.                               *)
(***************************************************************************)
EXTENDS MainRuns

CONSTANTS Threads,     \* interpreter threads that use the pool
          NoThread,
          Handles,     \* Handles[j]: the thread that may schedule job j
          Cancellers,  \* threads that call cancelJob
          Closers      \* threads that call closeThreadPool

ASSUME ThreadsAssumption == IsFiniteSet(Threads) /\ NoThread \notin Threads
ASSUME RolesAssumption ==
  /\ Handles \in [Jobs -> Threads]
  /\ Cancellers \subseteq Threads /\ Closers \subseteq Threads

VARIABLES
  lock,     \* the thread that holds Scheduler::lock between two rounds
  myQueue   \* thread_queues[0], which all threads share

graphVars == <<attached, deps, notify, pending>>
flagVars == <<queued, running, done, cancelled, queue, ran>>
vars == <<lock, stack, current, myQueue, graphVars, flagVars>>

TypeOK ==
  /\ lock \in Threads \cup {NoThread}
  /\ stack \in [Threads -> Seq([info : Jobs \cup {NoJob}, job : AllJobs \cup {NoJob},
                                nested : BOOLEAN])]
  /\ current \in [Threads -> AllJobs \cup {NoJob}]
  /\ myQueue \in Seq(ExecJobs)
  /\ attached \subseteq AllJobs /\ pending \subseteq Jobs
  /\ deps \in [Jobs -> SUBSET Jobs] /\ notify \in [Jobs -> SUBSET Jobs]
  /\ queued \subseteq Jobs /\ cancelled \subseteq Jobs
  /\ running \subseteq AllJobs /\ done \subseteq AllJobs /\ ran \subseteq AllJobs
  /\ queue \in [Jobs -> Nat]

Init ==
  /\ lock = NoThread
  /\ stack = [t \in Threads |-> <<>>]
  /\ current = [t \in Threads |-> NoJob]
  /\ myQueue = <<>>
  /\ GraphInit

-----------------------------------------------------------------------------
\* t executes a job, or uses the pool from outside of all jobs.
CanCall(t) == lock = NoThread /\ (stack[t] = <<>> \/ InJob(t))

\* t is at the head of the loop of Scheduler::main.
AtLoop(t) == lock = t /\ stack[t] # <<>>

\* startJob and scheduleJob.  The tests before the lock is taken concern only
\* this thread's own jobs and what does not change.
Schedule(t, js, ds) ==
  /\ CanCall(t)
  /\ \A j \in js : Handles[j] = t /\ j \notin attached
  /\ ds \subseteq attached
  /\ AttachJobs(js, ds)
  /\ UNCHANGED <<lock, stack, current, myQueue, running, ran>>

CancelJob(t, j) ==
  /\ CanCall(t) /\ t \in Cancellers
  /\ j \in attached
  /\ Cancel({j}, notify)
  /\ UNCHANGED <<lock, stack, current, myQueue, graphVars, queued, running, queue,
                 ran>>

\* threadPoolExec
BroadcastJob(t, e) ==
  /\ CanCall(t)
  /\ e \notin attached
  /\ attached' = attached \cup {e}
  /\ myQueue' = Append(myQueue, e)
  /\ UNCHANGED <<lock, stack, current, deps, notify, pending, flagVars>>

\* A call of Scheduler::main with info->job.
CallMain(t, info) ==
  /\ CanCall(t)
  /\ stack' = [stack EXCEPT ![t] =
       <<Run(info)>> \o
       (IF @ = <<>> THEN <<>> ELSE <<[Head(@) EXCEPT !.nested = TRUE]>> \o Tail(@))]
  /\ lock' = t
  /\ UNCHANGED <<current, myQueue, graphVars, flagVars>>

WaitJob(t, j) == j \in attached /\ CallMain(t, j)

\* closeThreadPool, which does not set shutting_down in such a pool.
Shutdown(t) == t \in Closers /\ CallMain(t, NoJob)

-----------------------------------------------------------------------------
\* The rounds of Scheduler::main.

\* A round that finds nothing to do ends the run, where a worker of the real
\* pool sleeps.  OwnQueue and NeverLeft are bugs for the properties to find,
\* like the other variants below that no action uses.
OwnQueue == myQueue = <<>>
NeverLeft == FALSE
NothingLeft == myQueue = <<>> /\ ~NotEmpty(queue)

Return(t) ==
  /\ AtLoop(t)
  /\ Top(t).info \in done \/ NothingLeft
  /\ stack' = [stack EXCEPT ![t] = Tail(@)]
  /\ lock' = NoThread
  /\ UNCHANGED <<current, myQueue, graphVars, flagVars>>

\* Job::run() up to execute(), which runs without the lock.
Execute(t, j) ==
  /\ stack' = [stack EXCEPT ![t] = <<[Head(@) EXCEPT !.job = j]>> \o Tail(@)]
  /\ current' = [current EXCEPT ![t] = j]
  /\ running' = running \cup {j}
  /\ ran' = ran \cup {j}
  /\ lock' = NoThread
  /\ UNCHANGED <<graphVars, queued, done, cancelled>>

RunOwn(t) ==
  /\ AtLoop(t) /\ Top(t).info \notin done
  /\ myQueue # <<>>
  /\ Execute(t, Head(myQueue))
  /\ myQueue' = Tail(myQueue)
  /\ UNCHANGED queue

RunGlobal(t) ==
  /\ AtLoop(t) /\ Top(t).info \notin done
  /\ myQueue = <<>>
  /\ \E j \in Tops \ cancelled :
       Execute(t, j) /\ queue' = [queue EXCEPT ![j] = @ - 1]
  /\ UNCHANGED myQueue

\* A cancelled job: run() does not execute it.
Skip(t) ==
  /\ AtLoop(t) /\ Top(t).info \notin done
  /\ myQueue = <<>>
  /\ \E j \in Tops \cap cancelled : EndJob(j, [queue EXCEPT ![j] = @ - 1])
  /\ current' = [current EXCEPT ![t] = NoJob]
  /\ UNCHANGED <<lock, stack, myQueue, graphVars, running, cancelled, ran>>

\* What Scheduler::main makes of currentJobRef after a job.
KeepJob(t) == current[t]
AfterJob(t) == NoJob

\* execute() returns; the rest of run() and of the round.
Finish(t) ==
  /\ lock = NoThread /\ InJob(t)
  /\ LET j == Top(t).job
     IN EndJob(j, queue) /\ running' = running \ {j}
  /\ stack' = [stack EXCEPT ![t] = <<Run(Head(@).info)>> \o Tail(@)]
  /\ current' = [current EXCEPT ![t] = AfterJob(t)]
  /\ lock' = t
  /\ UNCHANGED <<myQueue, graphVars, cancelled, ran>>

Loop(t) == Return(t) \/ RunOwn(t) \/ RunGlobal(t) \/ Skip(t)

Call(t) ==
  \/ \E js \in (SUBSET Jobs) \ {{}}, ds \in SUBSET (attached \cap Jobs) :
       Schedule(t, js, ds)
  \/ \E j \in Jobs : CancelJob(t, j) \/ WaitJob(t, j)
  \/ \E e \in ExecJobs : BroadcastJob(t, e)
  \/ Shutdown(t)

Next == \E t \in Threads : Loop(t) \/ Finish(t) \/ Call(t)

Spec == Init /\ [][Next]_vars

\* Scheduler::main goes on while it has the lock, and execute() returns: the
\* job makes finitely many calls, and the others give it the lock in the end.
FairSpec ==
  Spec /\ \A t \in Threads : WF_vars(Loop(t)) /\ SF_vars(Finish(t))

-----------------------------------------------------------------------------
\* Waiting never blocks in this pool: every run of Scheduler::main comes to its
\* end, however deep jobs wait for each other.
MainReturns == \A t \in Threads : stack[t] # <<>> ~> stack[t] = <<>>
==============================================================================
