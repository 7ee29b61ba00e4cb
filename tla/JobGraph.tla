------------------------------- MODULE JobGraph -------------------------------
(***************************************************************************)
(* What the two kinds of thread pool share (src/shared.cc): the fields of  *)
(* class Job, the queue of the scheduler, and what notifyDeps() and        *)
(* cancelJob() do with them; and what both promise.                        *)
(***************************************************************************)
EXTENDS Naturals, Sequences, FiniteSets

CONSTANTS Jobs,         \* job objects
          ExecJobs,     \* ExecJob objects, made by threadPoolExec
          NoJob

AllJobs == Jobs \cup ExecJobs

ASSUME JobsAssumption ==
  /\ IsFiniteSet(Jobs) /\ IsFiniteSet(ExecJobs) /\ Jobs \cap ExecJobs = {}
  /\ NoJob \notin AllJobs

VARIABLES
  attached,      \* jobs with pool # NULL
  deps, notify,  \* Job::deps and Job::notify
  pending,       \* jobs with pending_index >= 0
  queued, running, done, cancelled,  \* the jobs with these flags set
  queue,         \* global_queue: how often each job is in it
  ran            \* history: jobs whose execute() has been entered

GraphInit ==
  /\ attached = {} /\ pending = {}
  /\ deps = [j \in Jobs |-> {}]
  /\ notify = [j \in Jobs |-> {}]
  /\ queued = {} /\ running = {} /\ done = {} /\ cancelled = {}
  /\ queue = [j \in Jobs |-> 0]
  /\ ran = {}

Push(q, S) == [j \in Jobs |-> IF j \in S THEN q[j] + 1 ELSE q[j]]

NotEmpty(q) == \E j \in Jobs : q[j] > 0

\* The jobs that global_queue.top() may return.
AnyJob == Jobs
Tops == {j \in Jobs : queue[j] > 0}

\* notifyDeps() for the jobs in S: what it sets queued and pushes, given the
\* values of notify, deps and done it sees.
FreedAgain(S, ntf, dps, dn) ==
  {n \in UNION {ntf[d] : d \in S \cap Jobs} :
     dps[n] \subseteq dn /\ n \notin cancelled}

FreedEarly(S, ntf, dps, dn) ==
  {n \in UNION {ntf[d] : d \in S \cap Jobs} :
     n \notin queued /\ dps[n] \subseteq done /\ n \notin cancelled}

Freed(S, ntf, dps, dn) ==
  {n \in UNION {ntf[d] : d \in S \cap Jobs} :
     n \notin queued /\ dps[n] \subseteq dn /\ n \notin cancelled}

\* cancelJob() goes on to the dependents of a job it marks done, but not past
\* a job that is cancelled, done or running already.
Live(j) == j \notin cancelled \cup running \cup done

Closed(T, ntf) == \A j \in T : Live(j) => ntf[j] \subseteq T

\* The jobs that cancelJob() visits from those in S.
CancelOnly(S, ntf) == S
CancelSet(S, ntf) ==
  {k \in Jobs : \A T \in SUBSET Jobs :
     S \subseteq T /\ Closed(T, ntf) => k \in T}

-----------------------------------------------------------------------------
\* The effect of three critical sections of Scheduler::lock on these fields.

\* A round of Scheduler::main ends: done = true, notifyDeps().  The queue q is
\* what the round has left of the queue.
FreedBy(j) == Freed({j}, notify, deps, done \cup {j})

EndJob(j, q) ==
  /\ done' = done \cup {j}
  /\ queued' = queued \cup FreedBy(j)
  /\ queue' = Push(q, FreedBy(j))

\* cancelJob(), for the jobs in S.
Cancel(S, ntf) ==
  LET C == CancelSet(S, ntf)
  IN /\ cancelled' = cancelled \cup C
     /\ done' = done \cup {k \in C : Live(k)}

\* scheduleJob, for startJob with no dependency: addDep() and addNotify(), which
\* queues what is ready if the dependency is done, then attachJob(), or
\* cancelJob() if a dependency has been cancelled.
FreedNow(ds) == Freed(ds \cap done, notify', deps', done)
ReadyNow(js) == {j \in js : deps'[j] \subseteq done}

AttachJobs(js, ds) ==
  /\ deps' = [j \in Jobs |-> IF j \in js THEN deps[j] \cup ds ELSE deps[j]]
  /\ notify' =
       [d \in Jobs |-> IF d \in ds THEN notify[d] \cup js ELSE notify[d]]
  /\ queued' = queued \cup FreedNow(ds)
  /\ attached' = attached \cup js
  /\ IF ds \cap cancelled # {}
       THEN /\ Cancel(js, notify')
            /\ queue' = Push(queue, FreedNow(ds))
            /\ UNCHANGED pending
       ELSE /\ pending' = pending \cup (js \ ReadyNow(js))
            /\ queue' = Push(Push(queue, FreedNow(ds)), ReadyNow(js))
            /\ UNCHANGED <<done, cancelled>>

\* Jobs that the code puts into the queue once: those with no dependency, and
\* those that some dependency kept waiting when they were scheduled.
Single(j) == j \in attached /\ (deps[j] = {} \/ j \in pending)

-----------------------------------------------------------------------------
Pool == INSTANCE JobPool
          WITH attached <- attached \cap Jobs, running <- running \cap Jobs,
               done <- done \cap Jobs, ran <- ran \cap Jobs,
               again <- {j \in attached \cap Jobs : ~Single(j)}

\* Every step of a pool, with threads of its own or without, is one that
\* JobPool allows: queues, the flags queued and pending and the lists notify only
\* carry out what the dependencies say, a cancellation reaches all dependents and
\* no others, and although without threads one job may interrupt another, a job
\* starts only when its dependencies are done, not merely begun further down the
\* stack.
ImplementsPool == Pool!PoolSpec
==============================================================================
