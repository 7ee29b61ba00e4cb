------------------------------ MODULE Scheduler ------------------------------
(***************************************************************************)
(* The multi-threaded job scheduler of src/shared.cc: the classes Job,     *)
(* Scheduler and ThreadPool and the commands startJob, scheduleJob,        *)
(* cancelJob, waitJob, threadPoolExec and closeThreadPool.                 *)
(*                                                                         *)
(* Every critical section of Scheduler::lock is one step, except that a    *)
(* worker keeps the lock from one round of Scheduler::main to the next.    *)
(* Reads the code makes without the lock are steps of their own.  The      *)
(* condition variables behave as AbstractMonitor specifies.  The order in  *)
(* which a priority queue hands out its jobs is left open: priorities are  *)
(* data.  Jobs here have no triggers chained to them.                      *)
(***************************************************************************)
EXTENDS JobGraph

CONSTANTS Workers,      \* the threads of the pool
          Clients,      \* other threads
          NoThread,
          Handles,      \* Handles[j]: the threads that may schedule job j
          Cancellers,   \* threads that call cancelJob
          Waiters,      \* threads that call waitJob
          Closers,      \* threads that call closeThreadPool
          CloseModes    \* values of its argument wait

Threads == Workers \cup Clients

ASSUME ThreadsAssumption ==
  /\ IsFiniteSet(Workers) /\ Workers \cap Clients = {}
  /\ NoThread \notin Threads
ASSUME RolesAssumption ==
  /\ Handles \in [Jobs -> SUBSET Threads]
  /\ Cancellers \subseteq Threads
  /\ Waiters \subseteq Threads
  /\ Closers \subseteq Clients
  /\ CloseModes \subseteq BOOLEAN

VARIABLES
  lock,          \* the worker that holds Scheduler::lock between two rounds
  pc,            \* where each worker is in Scheduler::main
  job,           \* currentJobRef of each worker
  call,          \* the command each thread is inside
  target,        \* waitJob: the job waited for
  req,           \* scheduleJob: its jobs and dependencies
  respAsleep,    \* threads blocked on the condition response
  myQueue,       \* thread_queues
  shuttingDown, counter,
  seen           \* history: the ExecJobs broadcast before a job was attached

callVars == <<call, target, req>>
graphVars == <<attached, deps, notify, pending, seen>>
flagVars == <<queued, running, done, cancelled, queue, ran>>
closeVars == <<shuttingDown, counter>>
vars == <<lock, pc, job, callVars, respAsleep, graphVars, flagVars, myQueue,
          closeVars>>

NoRequest == [jobs |-> {}, deps |-> {}]

\* The state createThreadPool leaves behind: its threads have been created.
Init ==
  /\ lock = NoThread
  /\ pc = [w \in Workers |-> "top"]
  /\ job = [w \in Workers |-> NoJob]
  /\ call = [t \in Threads |-> "none"]
  /\ target = [t \in Threads |-> NoJob]
  /\ req = [t \in Threads |-> NoRequest]
  /\ respAsleep = {}
  /\ GraphInit
  /\ myQueue = [w \in Workers |-> <<>>]
  /\ shuttingDown = FALSE
  /\ counter = 0
  /\ seen = [j \in Jobs |-> {}]

-----------------------------------------------------------------------------
Executing(j) == {w \in Workers : pc[w] = "exec" /\ job[w] = j}

Asleep == {w \in Workers : pc[w] = "asleep"}

\* The sets of workers that n calls of cond.signal() may wake.  NoSignal, like
\* the other variants that no action uses, is a bug for the properties to find.
NoSignal(n) == {{}}
WokenBy(n) ==
  {S \in SUBSET Asleep :
     Cardinality(S) = IF n < Cardinality(Asleep) THEN n
                                                 ELSE Cardinality(Asleep)}

\* pc after the workers in S are woken and worker w (if any) goes to place.
Awake(S) == [w \in Workers |-> IF w \in S THEN "top" ELSE pc[w]]

\* response.signal()
NoResponse == UNCHANGED respAsleep
SignalResponse ==
  IF respAsleep = {} THEN UNCHANGED respAsleep
  ELSE \E t \in respAsleep : respAsleep' = respAsleep \ {t}

-----------------------------------------------------------------------------
\* Workers: the rounds of Scheduler::main.

CanEnter(t) == lock \in {NoThread, t}

ExitWorker(w) ==
  /\ pc[w] = "top" /\ CanEnter(w)
  /\ shuttingDown
  /\ counter' = counter + 1
  /\ SignalResponse
  /\ pc' = [pc EXCEPT ![w] = "exited"]
  /\ lock' = NoThread
  /\ UNCHANGED <<job, callVars, graphVars, flagVars, myQueue, shuttingDown>>

\* A job that is not cancelled: Job::run() up to execute().  The queue q is
\* what is left after the pop; if it is not empty another worker is signalled.
Execute(w, j, q) ==
  /\ j \notin cancelled
  /\ queue' = q
  /\ \E S \in WokenBy(IF NotEmpty(q) THEN 1 ELSE 0) :
       pc' = [Awake(S) EXCEPT ![w] = "exec"]
  /\ job' = [job EXCEPT ![w] = j]
  /\ running' = running \cup {j}
  /\ ran' = ran \cup {j}
  /\ lock' = NoThread
  /\ UNCHANGED <<callVars, respAsleep, graphVars, queued, done, cancelled,
                 closeVars>>

\* The end of a round: done = true, notifyDeps(), response.signal().
Complete(w, j, q, signals) ==
  /\ EndJob(j, q)
  /\ \E S \in WokenBy(signals + Cardinality(FreedBy(j))) :
       pc' = [Awake(S) EXCEPT ![w] = "top"]
  /\ job' = [job EXCEPT ![w] = NoJob]
  /\ SignalResponse
  /\ lock' = w
  /\ UNCHANGED <<callVars, graphVars, cancelled, ran, myQueue, closeVars>>

\* A cancelled job is not executed, and the lock is kept throughout.
Skip(w, j, q) ==
  /\ j \in cancelled
  /\ Complete(w, j, q, IF NotEmpty(q) THEN 1 ELSE 0)
  /\ UNCHANGED running

RunOwn(w) ==
  /\ pc[w] = "top" /\ CanEnter(w)
  /\ ~shuttingDown
  /\ myQueue[w] # <<>>
  /\ Execute(w, Head(myQueue[w]), queue)
  /\ myQueue' = [myQueue EXCEPT ![w] = Tail(@)]

PopGlobal(w) ==
  /\ pc[w] = "top" /\ CanEnter(w)
  /\ ~shuttingDown
  /\ \E j \in Tops :
       LET q == [queue EXCEPT ![j] = @ - 1]
       IN \/ Execute(w, j, q) /\ UNCHANGED myQueue
          \/ Skip(w, j, q)

RunGlobal(w) == myQueue[w] = <<>> /\ PopGlobal(w)

Sleep(w) ==
  /\ pc[w] = "top" /\ CanEnter(w)
  /\ ~shuttingDown
  /\ myQueue[w] = <<>> /\ ~NotEmpty(queue)
  /\ pc' = [pc EXCEPT ![w] = "asleep"]
  /\ lock' = NoThread
  /\ UNCHANGED <<job, callVars, respAsleep, graphVars, flagVars, myQueue,
                 closeVars>>

\* execute() has returned: the rest of Job::run() and of the round.
Finish(w) ==
  /\ pc[w] = "exec" /\ call[w] = "none"
  /\ lock = NoThread
  /\ running' = running \ {job[w]}
  /\ Complete(w, job[w], queue, 0)

SpuriousWake ==
  /\ \/ \E w \in Asleep : pc' = Awake({w}) /\ UNCHANGED respAsleep
     \/ \E t \in respAsleep :
          respAsleep' = respAsleep \ {t} /\ UNCHANGED pc
  /\ UNCHANGED <<lock, job, callVars, graphVars, flagVars, myQueue, closeVars>>

-----------------------------------------------------------------------------
\* Commands.  A worker may use them too, from inside the job it executes.

CanCall(t) == call[t] = "none" /\ (t \in Workers => pc[t] = "exec")

Called(t, c) == call' = [call EXCEPT ![t] = c]

Returns(t) == Called(t, "none")

\* startJob and scheduleJob before they take the lock: the jobs in js must
\* have no pool yet, the dependencies must have one.
ScheduleCheck(t, js, ds) ==
  /\ CanCall(t)
  /\ \A j \in js : t \in Handles[j] /\ j \notin attached
  /\ ds \subseteq attached
  /\ Called(t, "schedule")
  /\ req' = [req EXCEPT ![t] = [jobs |-> js, deps |-> ds]]
  /\ UNCHANGED <<lock, pc, job, target, respAsleep, graphVars, flagVars,
                 myQueue, closeVars>>

\* Each push of attachJob() and notifyDeps() signals a worker.
Signals(js, ds) ==
  Cardinality(FreedNow(ds))
  + (IF ds \cap cancelled = {} THEN Cardinality(ReadyNow(js)) ELSE 0)

\* The critical section of scheduleJob.
Schedule(t) ==
  LET js == req[t].jobs
      ds == req[t].deps
  IN
  /\ call[t] = "schedule" /\ lock = NoThread
  /\ AttachJobs(js, ds)
  /\ \E S \in WokenBy(Signals(js, ds)) : pc' = Awake(S)
  /\ seen' = [j \in Jobs |-> IF j \in js THEN attached \cap ExecJobs
                                         ELSE seen[j]]
  /\ req' = [req EXCEPT ![t] = NoRequest]
  /\ Returns(t)
  /\ UNCHANGED <<lock, job, target, respAsleep, running, ran, myQueue,
                 closeVars>>

CancelJob(t, j) ==
  /\ CanCall(t) /\ t \in Cancellers /\ lock = NoThread
  /\ j \in attached
  /\ Cancel({j}, notify)
  /\ UNCHANGED <<lock, pc, job, callVars, respAsleep, graphVars, queued,
                 running, queue, ran, myQueue, closeVars>>

WaitJob(t, j) ==
  /\ CanCall(t) /\ t \in Waiters
  /\ j \in attached
  /\ Called(t, "wait")
  /\ target' = [target EXCEPT ![t] = j]
  /\ UNCHANGED <<lock, pc, job, req, respAsleep, graphVars, flagVars, myQueue,
                 closeVars>>

\* The loop of Scheduler::waitJob: one test of its condition.
CanTest(t) == call[t] = "wait" /\ t \notin respAsleep /\ lock = NoThread

KeepSignal(t) ==
  /\ CanTest(t) /\ target[t] \in done \cup cancelled
  /\ Returns(t)
  /\ UNCHANGED <<lock, pc, job, target, req, respAsleep, graphVars, flagVars,
                 myQueue, closeVars>>

WaitDone(t) ==
  /\ CanTest(t) /\ target[t] \in done \cup cancelled
  /\ SignalResponse
  /\ Returns(t)
  /\ UNCHANGED <<lock, pc, job, target, req, graphVars, flagVars, myQueue,
                 closeVars>>

WaitMore(t) ==
  /\ CanTest(t) /\ target[t] \notin done \cup cancelled
  /\ respAsleep' = respAsleep \cup {t}
  /\ UNCHANGED <<lock, pc, job, callVars, graphVars, flagVars, myQueue,
                 closeVars>>

\* threadPoolExec: the new job gets its pool and goes to every worker's queue.
BroadcastJob(t, e) ==
  /\ CanCall(t) /\ lock = NoThread
  /\ e \notin attached
  /\ attached' = attached \cup {e}
  /\ myQueue' = [w \in Workers |-> Append(myQueue[w], e)]
  /\ UNCHANGED <<lock, pc, job, callVars, respAsleep, deps, notify, pending,
                 seen, flagVars, closeVars>>

-----------------------------------------------------------------------------
\* closeThreadPool.  A pool is closed once: a second call joins threads that
\* have been joined already.

CloseBegin(t, wait) ==
  /\ CanCall(t) /\ t \in Closers
  /\ ~shuttingDown /\ \A u \in Threads : call[u] \notin {"drain", "stop"}
  /\ Called(t, IF wait THEN "drain" ELSE "stop")
  /\ UNCHANGED <<lock, pc, job, target, req, respAsleep, graphVars, flagVars,
                 myQueue, closeVars>>

ShutdownAtOnce(t) ==
  /\ shuttingDown' = TRUE
  /\ pc' = Awake(Asleep)
  /\ Called(t, "join")
  /\ UNCHANGED respAsleep

ShutdownRound(t) ==
  /\ shuttingDown' = TRUE
  /\ IF counter < Cardinality(Workers)
       THEN /\ pc' = Awake(Asleep)
            /\ respAsleep' = respAsleep \cup {t}
            /\ Called(t, "stop")
       ELSE UNCHANGED <<pc, respAsleep>> /\ Called(t, "join")

Shutdown(t) ==
  /\ t \notin respAsleep /\ lock = NoThread
  /\ \/ call[t] = "stop" /\ ShutdownRound(t)
     \/ call[t] = "drain" /\ ~NotEmpty(queue) /\ ShutdownRound(t)
     \/ /\ call[t] = "drain" /\ NotEmpty(queue)
        /\ respAsleep' = respAsleep \cup {t}
        /\ UNCHANGED <<pc, call, shuttingDown>>
  /\ UNCHANGED <<lock, job, target, req, graphVars, flagVars, myQueue, counter>>

\* joinThread() for every worker.
Join(t) ==
  /\ call[t] = "join"
  /\ \A w \in Workers : pc[w] = "exited"
  /\ Returns(t)
  /\ UNCHANGED <<lock, pc, job, target, req, respAsleep, graphVars, flagVars,
                 myQueue, closeVars>>

-----------------------------------------------------------------------------
Round(w) ==
  ExitWorker(w) \/ RunOwn(w) \/ RunGlobal(w) \/ Sleep(w) \/ Finish(w)

Continue(t) ==
  Schedule(t) \/ WaitDone(t) \/ WaitMore(t) \/ Shutdown(t) \/ Join(t)

Begin(t) ==
  \/ \E js \in (SUBSET Jobs) \ {{}}, ds \in SUBSET (attached \cap Jobs) :
       ScheduleCheck(t, js, ds)
  \/ \E j \in Jobs : CancelJob(t, j) \/ WaitJob(t, j)
  \/ \E e \in ExecJobs : BroadcastJob(t, e)
  \/ \E wait \in CloseModes : CloseBegin(t, wait)

Next ==
  \/ \E w \in Workers : Round(w)
  \/ \E t \in Threads : Continue(t) \/ Begin(t)
  \/ SpuriousWake

Spec == Init /\ [][Next]_vars

\* A thread that can go on again and again eventually does: the kernel does
\* not starve it of the lock, and execute() returns.
Proceed(t) == Continue(t) \/ (t \in Workers /\ Round(t))

FairSpec == Spec /\ \A t \in Threads : SF_vars(Proceed(t))

-----------------------------------------------------------------------------
\* The hypothesis under which a job is scheduled once: the test of job->pool
\* is made without the lock, so no two threads may try to schedule one job.
SoleScheduler ==
  \A j \in Jobs : \A t, u \in Handles[j] : t = u

\* The fields of Job, Scheduler and ThreadState keep their types, and the lock
\* is kept between two rounds only by a worker at the top of the loop.
TypeOK ==
  /\ lock \in Workers \cup {NoThread}
  /\ pc \in [Workers -> {"top", "asleep", "exec", "exited"}]
  /\ job \in [Workers -> AllJobs \cup {NoJob}]
  /\ call \in [Threads -> {"none", "schedule", "wait", "drain", "stop", "join"}]
  /\ target \in [Threads -> Jobs \cup {NoJob}]
  /\ req \in [Threads -> [jobs : SUBSET Jobs, deps : SUBSET Jobs]]
  /\ respAsleep \subseteq Threads
  /\ attached \subseteq AllJobs
  /\ pending \subseteq Jobs
  /\ deps \in [Jobs -> SUBSET Jobs]
  /\ notify \in [Jobs -> SUBSET Jobs]
  /\ queued \subseteq Jobs
  /\ running \subseteq AllJobs
  /\ done \subseteq AllJobs
  /\ cancelled \subseteq Jobs
  /\ queue \in [Jobs -> Nat]
  /\ myQueue \in [Workers -> Seq(ExecJobs)]
  /\ shuttingDown \in BOOLEAN
  /\ counter \in Nat
  /\ ran \subseteq AllJobs
  /\ seen \in [Jobs -> SUBSET ExecJobs]

\* A job whose dependencies are done is never forgotten: until it is done it
\* is in the queue or a worker executes it.  notifyDeps(), attachJob() and
\* cancelJob() must between them see every order of scheduling a job,
\* finishing its dependencies and cancelling either.
NoLostJob ==
  \A j \in attached \cap Jobs :
    deps[j] \subseteq done /\ j \notin done => queue[j] > 0 \/ Executing(j) # {}

\* execute() reads the results of the dependencies without the lock: each of
\* them has been executed, not merely marked done by cancelJob().  If it was
\* queued once it is not in execution either; one that was queued twice may be,
\* and then its result is being written (DependenciesMet, below).
InputsReady ==
  \A w \in Workers : pc[w] = "exec" /\ job[w] \in Jobs =>
    \A d \in deps[job[w]] :
      d \in ran /\ d \in done /\ (Single(d) => Executing(d) = {})

\* A job that was queued once is executed once.
ExecutedOnce ==
  [][\A w \in Workers, j \in Jobs :
       pc[w] = "top" /\ pc'[w] = "exec" /\ job'[w] = j /\ Single(j)
       => j \notin ran]_vars

\* No wake-up is lost between Scheduler::cond and the workers: while there is
\* work in the global queue, or the pool is closing, not all workers that
\* could take it sleep.  Each push signals one worker only, and a worker that
\* takes a job passes the signal on.
SomeoneAwake ==
  NotEmpty(queue) /\ Asleep # {} => \E w \in Workers : pc[w] = "top"

\* When shutdown() has set shutting_down no worker goes to sleep again, and
\* shutdown_counter is the number of those that left the loop, so that it
\* joins threads that are past their last use of the pool.
CloseInSync ==
  /\ counter = Cardinality({w \in Workers : pc[w] = "exited"})
  /\ shuttingDown => Asleep = {}
  /\ (\E t \in Threads : call[t] = "join") =>
       \A w \in Workers : pc[w] = "exited"

\* waitJob() that returns without "job has been cancelled" has a result to
\* read: the job was executed.  If it was queued once it is not in execution.
ResultReady ==
  \A j \in (done \ cancelled) \cap Jobs :
    j \in ran /\ (Single(j) => Executing(j) = {})

\* A job attached after threadPoolExec runs only in a worker that has
\* executed the expression.
InitializedFirst ==
  \A w \in Workers : pc[w] = "exec" /\ job[w] \in Jobs =>
    \A i \in 1 .. Len(myQueue[w]) : myQueue[w][i] \notin seen[job[w]]

\* Every scheduled job is finished or cancelled in the end, unless the pool is
\* closed, when all jobs return and none of them waits for another.
JobsFinish ==
  \A j \in Jobs : j \in attached ~> j \in done \/ shuttingDown

\* When all jobs return, every waitJob() returns although response.signal()
\* may wake the wrong waiter.
WaitersReturn ==
  \A t \in Threads : call[t] = "wait" ~> call[t] = "none" \/ shuttingDown

\* closeThreadPool() returns, unless somebody else who waits on response is
\* still in waitJob(): it may have taken the signal.
CloseReturns ==
  \A t \in Threads :
    call[t] \in {"drain", "stop", "join"} ~>
      call[t] = "none" \/ \E u \in Threads : call[u] = "wait"

-----------------------------------------------------------------------------
\* What the documentation says and the code does not do.

\* doc/threadpools.md: a job is not executed until its dependencies are met,
\* that is, until the underlying tasks are completed.  The code puts a job
\* whose dependencies were done when it was scheduled into the queue twice
\* (notifyDeps() from addNotify(), then attachJob()), and its dependents run
\* beside its second execution.
DependenciesMet ==
  \A w \in Workers : pc[w] = "exec" /\ job[w] \in Jobs =>
    \A d \in deps[job[w]] : d \in done /\ Executing(d) = {}
==============================================================================
