------------------------------ MODULE Triggers -------------------------------
(***************************************************************************)
(* Triggers (Trigger and its subclasses in src/shared.cc): the commands    *)
(* createTrigger, updateTrigger and chainTrigger, and notifyDeps(), which  *)
(* a worker, updateTrigger or scheduleJob performs for a task that is      *)
(* done.  A trigger is a job; a task is either.                            *)
(*                                                                         *)
(* notifyDeps() goes through the triggers of a task with Scheduler::lock,  *)
(* which a proc trigger gives up in the middle; hence the walk is modelled *)
(* trigger by trigger, and `lock' names the thread that is on its way.     *)
(* How idle workers are woken is the subject of Scheduler.  A job has at   *)
(* most one dependency here, and no task is cancelled.                     *)
(***************************************************************************)
EXTENDS Naturals, Sequences, FiniteSets

CONSTANTS Workers, Clients, NoThread,
          Jobs, HasResult,    \* the jobs, and those that have a result
          Trigs, NoTask,
          Links,              \* which trigger is chained to which task
          Arguments,          \* argument lists of updateTrigger
          Limits,             \* the numbers a trigger is created with
          MaxUpdates          \* bound on the calls of updateTrigger

Threads == Workers \cup Clients
Tasks == Jobs \cup Trigs

ASSUME ThreadsAssumption == NoThread \notin Threads /\ Workers \cap Clients = {}
ASSUME TasksAssumption ==
  NoTask \notin Tasks /\ Jobs \cap Trigs = {} /\ HasResult \subseteq Jobs
ASSUME LinksAssumption == Links \subseteq Trigs \X Tasks
ASSUME ArgumentsAssumption == Arguments \subseteq Seq(Nat)
ASSUME LimitsAssumption == Limits \subseteq Nat
ASSUME BoundsAssumption == MaxUpdates \in Nat

VARIABLES
  lock,       \* the thread that has Scheduler::lock between two steps
  pc,         \* where each thread is
  task,       \* what it executes, or does notifyDeps() for
  at,         \* its place there: 0, the dependents, or an index in `triggers'
  trig,       \* the trigger it activates
  job,        \* the job that scheduleJob is to attach when this is done
  kind, limit,         \* the subclass of each trigger and its argument
  got,        \* args, count, set or success: what each trigger has got so far
  attached, done, queued,  \* the tasks with a pool, and with these flags
  deps, notify, triggers,  \* Job::deps, notify and triggers
  queue,      \* how often each task is in global_queue
  updates,    \* how often updateTrigger has been called
  aborted,    \* a NULL pointer has ended the program
  early       \* history: the triggers chained to tasks that were not yet done

threadVars == <<lock, pc, task, at, trig, job>>
trigVars == <<kind, limit, got>>
graphVars == <<attached, deps, notify, triggers, early>>
flagVars == <<done, queued, queue>>
vars == <<threadVars, trigVars, graphVars, flagVars, updates, aborted>>

Kinds == {"acc", "count", "set", "proc"}

Init ==
  /\ lock = NoThread
  /\ pc = [th \in Threads |-> "idle"]
  /\ task = [th \in Threads |-> NoTask]
  /\ at = [th \in Threads |-> 0]
  /\ trig = [th \in Threads |-> NoTask]
  /\ job = [th \in Threads |-> NoTask]
  /\ kind = [t \in Trigs |-> "acc"] /\ limit = [t \in Trigs |-> 0]
  /\ got = [t \in Trigs |-> <<>>]
  /\ attached = {} /\ done = {} /\ queued = {}
  /\ deps = [j \in Jobs |-> {}]
  /\ notify = [x \in Tasks |-> {}]
  /\ triggers = [x \in Tasks |-> <<>>]
  /\ queue = [x \in Tasks |-> 0]
  /\ updates = 0
  /\ aborted = FALSE
  /\ early = {}

-----------------------------------------------------------------------------
CanEnter(th) == lock \in {NoThread, th}

\* The leftv that notifyDeps() decodes from the result of a task; NULL, that
\* is, the empty list, if it has none.  Only an accumulator has one among the
\* triggers: the list of what it has got.
ResultOf(x) ==
  IF x \in HasResult \/ (x \in Trigs /\ kind[x] = "acc") THEN <<x>> ELSE <<>>

\* ready(): every trigger becomes so when it has got enough; it is tested after
\* each activation.  TooLate, like the other variants that no action uses, is a
\* bug for the properties to find.
Ready(t) == Len(got[t]) >= limit[t]
TooLate(t) == Len(got[t]) > limit[t]
Fires(t) == Ready(t)

\* activate() leaves a trigger alone that is ready.
NeverFull(t) == FALSE
Full(t) == Ready(t)

JobReady(j) == deps[j] \subseteq done

\* accept()
Accepts(t, arg) ==
  \/ kind[t] \in {"acc", "proc"}
  \/ kind[t] = "count" /\ arg = <<>>
  \/ kind[t] = "set" /\ arg # <<>> /\ Head(arg) \in Nat

\* activate(), except for a proc trigger: what the trigger has got after it.
\* A set trigger takes only elements below the number of those it has, and so
\* none at all.
Fill(t, arg) ==
  LET all == got[t] \o arg
  IN SubSeq(all, 1, IF Len(all) < limit[t] THEN Len(all) ELSE limit[t])

New(t, e) == e < Len(got[t]) /\ \A i \in 1 .. Len(got[t]) : got[t][i] # e

Gained(t, arg) ==
  IF Full(t) THEN got[t]
  ELSE CASE kind[t] = "acc" -> Fill(t, arg)
         [] kind[t] = "count" -> Append(got[t], 1)
         [] kind[t] = "set" /\ New(t, Head(arg)) -> Append(got[t], Head(arg))
         [] OTHER -> got[t]

Push(x) == queue' = [queue EXCEPT ![x] = @ + 1]

\* notifyDeps() for the dependents of x.
Freed(x) == {j \in notify[x] : j \notin queued /\ JobReady(j)}

-----------------------------------------------------------------------------
\* Commands that only change the graph of tasks.
CreateTrigger(th, t) ==
  /\ pc[th] = "idle" /\ CanEnter(th) /\ t \notin attached
  /\ \E k \in Kinds, n \in Limits \cup {1} :
       /\ IF k = "proc" THEN n = 1 ELSE n \in Limits
       /\ kind' = [kind EXCEPT ![t] = k]
       /\ limit' = [limit EXCEPT ![t] = n]
       /\ IF n = 0 THEN Push(t) ELSE UNCHANGED queue
  /\ attached' = attached \cup {t}
  /\ UNCHANGED <<threadVars, got, deps, notify, triggers, early, done, queued,
                 updates, aborted>>

\* Only tasks of the pool are chained, and each pair of them once.
ChainTrigger(th, t, x) ==
  /\ pc[th] = "idle" /\ CanEnter(th)
  /\ {t, x} \subseteq attached /\ <<t, x>> \in Links
  /\ \A i \in 1 .. Len(triggers[x]) : triggers[x][i] # t
  /\ triggers' = [triggers EXCEPT ![x] = Append(@, t)]
  /\ early' = IF x \in done THEN early ELSE early \cup {<<x, t>>}
  /\ UNCHANGED <<threadVars, trigVars, attached, deps, notify, flagVars,
                 updates, aborted>>

StartJob(th, j) ==
  /\ pc[th] = "idle" /\ CanEnter(th) /\ j \notin attached
  /\ attached' = attached \cup {j}
  /\ Push(j)
  /\ UNCHANGED <<threadVars, trigVars, deps, notify, triggers, early, done,
                 queued, updates, aborted>>

-----------------------------------------------------------------------------
\* Workers.
Pop(w, x) ==
  /\ pc[w] = "idle" /\ CanEnter(w) /\ queue[x] > 0
  /\ queue' = [queue EXCEPT ![x] = @ - 1]
  /\ IF x \in attached
       THEN /\ pc' = [pc EXCEPT ![w] = "exec"]
            /\ task' = [task EXCEPT ![w] = x]
            /\ lock' = NoThread
            /\ UNCHANGED aborted
       ELSE aborted' = TRUE /\ UNCHANGED <<lock, pc, task>>
  /\ UNCHANGED <<at, trig, job, trigVars, graphVars, done, queued,
                 updates>>

\* No work: the worker sleeps until there is some.
Rest(w) ==
  /\ lock = w /\ pc[w] = "idle" /\ \A x \in Tasks : queue[x] = 0
  /\ lock' = NoThread
  /\ UNCHANGED <<pc, task, at, trig, job, trigVars, graphVars, flagVars,
                 updates, aborted>>

\* execute() has returned, in a worker or in updateTrigger.
Finish(th) ==
  /\ pc[th] = "exec" /\ lock = NoThread
  /\ lock' = th
  /\ pc' = [pc EXCEPT ![th] = "notify"]
  /\ done' = done \cup {task[th]}
  /\ UNCHANGED <<task, at, trig, job, trigVars, graphVars, queued, queue,
                 updates, aborted>>

-----------------------------------------------------------------------------
\* notifyDeps() of the task: first its dependents, then its triggers.
Second == 2
First == 1

NotifyJobs(th) ==
  LET F == Freed(task[th]) IN
  /\ pc[th] = "notify" /\ at[th] = 0
  /\ queued' = queued \cup F
  /\ queue' = [x \in Tasks |-> IF x \in F THEN queue[x] + 1 ELSE queue[x]]
  /\ at' = [at EXCEPT ![th] = First]
  /\ UNCHANGED <<lock, pc, task, trig, job, trigVars, graphVars, done,
                 updates, aborted>>

\* activate() of a trigger that accepts.  A proc trigger gives up the lock and
\* calls its procedure.
Activate(th, t, arg) ==
  /\ Accepts(t, arg)
  /\ trig' = [trig EXCEPT ![th] = t]
  /\ IF kind[t] = "proc" /\ ~Full(t)
       THEN /\ pc' = [pc EXCEPT ![th] = "proc"]
            /\ lock' = NoThread
            /\ UNCHANGED got
       ELSE /\ pc' = [pc EXCEPT ![th] = "check"]
            /\ lock' = th
            /\ got' = [got EXCEPT ![t] = Gained(t, arg)]
  /\ UNCHANGED <<job, kind, limit, graphVars, flagVars, aborted>>

Current(th) == triggers[task[th]][at[th]]

InTriggers(th) == pc[th] = "notify" /\ at[th] \in 1 .. Len(triggers[task[th]])

NotifyTrigger(th) ==
  /\ InTriggers(th)
  /\ Activate(th, Current(th), ResultOf(task[th]))
  /\ UNCHANGED <<task, at, updates>>

\* A set trigger looks at the type of an argument that is not there.
NullArgument(th, t, arg) ==
  /\ kind[t] = "set" /\ arg = <<>>
  /\ aborted' = TRUE
  /\ UNCHANGED <<threadVars, trigVars, graphVars, flagVars>>

SkipTrigger(th) ==
  /\ InTriggers(th)
  /\ LET t == Current(th)
         arg == ResultOf(task[th])
     IN \/ NullArgument(th, t, arg)
        \/ /\ ~Accepts(t, arg) /\ (kind[t] = "set" => arg # <<>>)
           /\ at' = [at EXCEPT ![th] = @ + 1]
           /\ UNCHANGED <<lock, pc, task, trig, job, trigVars, graphVars,
                          flagVars, aborted>>
  /\ UNCHANGED updates

\* The procedure has returned; success is assigned without the lock.
ProcReturn(th) ==
  /\ pc[th] = "proc"
  /\ \/ got' = [got EXCEPT ![trig[th]] = <<1>>]
     \/ UNCHANGED got
  /\ pc' = [pc EXCEPT ![th] = "relock"]
  /\ UNCHANGED <<lock, task, at, trig, job, kind, limit, graphVars, flagVars,
                 updates, aborted>>

Relock(th) ==
  /\ pc[th] = "relock" /\ lock = NoThread
  /\ lock' = th
  /\ pc' = [pc EXCEPT ![th] = "check"]
  /\ UNCHANGED <<task, at, trig, job, trigVars, graphVars, flagVars, updates,
                 aborted>>

\* notifyDeps() queues the trigger if it is ready, whether or not it has been
\* before.
QueueTrigger(th) ==
  /\ pc[th] = "check" /\ task[th] # NoTask
  /\ IF Fires(trig[th]) THEN Push(trig[th]) ELSE UNCHANGED queue
  /\ pc' = [pc EXCEPT ![th] = "notify"]
  /\ at' = [at EXCEPT ![th] = @ + 1]
  /\ trig' = [trig EXCEPT ![th] = NoTask]
  /\ UNCHANGED <<lock, task, job, trigVars, graphVars, done, queued,
                 updates, aborted>>

\* The end of notifyDeps(): a worker goes on to its next round, updateTrigger
\* returns, and scheduleJob attaches its job.
EndNotify(th) ==
  /\ pc[th] = "notify" /\ at[th] > Len(triggers[task[th]])
  /\ pc' = [pc EXCEPT ![th] = "idle"]
  /\ task' = [task EXCEPT ![th] = NoTask]
  /\ at' = [at EXCEPT ![th] = 0]
  /\ job' = [job EXCEPT ![th] = NoTask]
  /\ lock' = IF th \in Workers THEN th ELSE NoThread
  /\ IF job[th] = NoTask THEN UNCHANGED <<attached, queue>>
     ELSE /\ attached' = attached \cup {job[th]}
          /\ IF JobReady(job[th]) THEN Push(job[th]) ELSE UNCHANGED queue
  /\ UNCHANGED <<trig, trigVars, deps, notify, triggers, early, done, queued,
                 updates, aborted>>

-----------------------------------------------------------------------------
\* scheduleJob with the dependency x: addDep(), addNotify(), which performs
\* notifyDeps() for x if that is done already, and attachJob().
ScheduleJob(th, j, x) ==
  /\ pc[th] = "idle" /\ CanEnter(th)
  /\ x \in attached /\ j \notin attached /\ \A u \in Threads : job[u] # j
  /\ deps' = [deps EXCEPT ![j] = {x}]
  /\ notify' = [notify EXCEPT ![x] = @ \cup {j}]
  /\ IF x \in done
       THEN /\ lock' = th
            /\ pc' = [pc EXCEPT ![th] = "notify"]
            /\ task' = [task EXCEPT ![th] = x]
            /\ job' = [job EXCEPT ![th] = j]
            /\ UNCHANGED attached
       ELSE /\ attached' = attached \cup {j}
            /\ UNCHANGED <<lock, pc, task, job>>
  /\ UNCHANGED <<at, trig, trigVars, triggers, early, flagVars, updates, aborted>>

\* updateTrigger.  An argument that the trigger does not accept is an error.
UpdateTrigger(th, t, arg) ==
  /\ pc[th] = "idle" /\ CanEnter(th)
  /\ t \in attached /\ updates < MaxUpdates
  /\ Activate(th, t, arg) \/ NullArgument(th, t, arg)
  /\ updates' = updates + 1
  /\ UNCHANGED <<task, at, job, kind, limit, graphVars, flagVars>>

\* A trigger that is ready is executed at once, by the caller.
RunTrigger(th) ==
  /\ pc[th] = "check" /\ task[th] = NoTask
  /\ lock' = NoThread
  /\ trig' = [trig EXCEPT ![th] = NoTask]
  /\ IF Fires(trig[th])
       THEN /\ pc' = [pc EXCEPT ![th] = "exec"]
            /\ task' = [task EXCEPT ![th] = trig[th]]
       ELSE pc' = [pc EXCEPT ![th] = "idle"] /\ UNCHANGED task
  /\ UNCHANGED <<at, job, trigVars, graphVars, flagVars, updates, aborted>>

Command(th) ==
  \/ \E t \in Trigs :
       \/ CreateTrigger(th, t)
       \/ \E x \in Tasks : ChainTrigger(th, t, x)
       \/ \E arg \in Arguments : UpdateTrigger(th, t, arg)
  \/ \E j \in Jobs : StartJob(th, j) \/ \E x \in Tasks : ScheduleJob(th, j, x)

Work(w) == Rest(w) \/ \E x \in Tasks : Pop(w, x)

Continue(th) ==
  \/ Finish(th) \/ NotifyJobs(th) \/ NotifyTrigger(th) \/ SkipTrigger(th)
  \/ ProcReturn(th) \/ Relock(th) \/ QueueTrigger(th) \/ EndNotify(th)
  \/ RunTrigger(th)

Next ==
  /\ ~aborted
  /\ \/ \E w \in Workers : Work(w)
     \/ \E c \in Clients : Command(c)
     \/ \E th \in Threads : Continue(th)

Spec == Init /\ [][Next]_vars

-----------------------------------------------------------------------------
Executing(x) == {th \in Threads : pc[th] = "exec" /\ task[th] = x}

\* The threads that are in notifyDeps() for x.
Notifying(x) ==
  {th \in Threads : task[th] = x /\ pc[th] \in {"notify", "proc", "relock",
                                                "check"}}

\* The threads that are about to look whether t is ready.
Activating(t) ==
  {th \in Threads : trig[th] = t /\ pc[th] \in {"proc", "relock", "check"}}

\* The fields keep their types; whoever is between two steps of a critical
\* section has the lock.
TypeOK ==
  /\ lock \in Threads \cup {NoThread}
  /\ pc \in [Threads ->
               {"idle", "exec", "notify", "proc", "relock", "check"}]
  /\ \A th \in Threads : pc[th] \in {"notify", "check"} => lock = th
  /\ task \in [Threads -> Tasks \cup {NoTask}]
  /\ at \in [Threads -> Nat]
  /\ trig \in [Threads -> Trigs \cup {NoTask}]
  /\ job \in [Threads -> Jobs \cup {NoTask}]
  /\ kind \in [Trigs -> Kinds] /\ limit \in [Trigs -> Nat]
  /\ got \in [Trigs -> Seq(Tasks \cup Nat)]
  /\ attached \subseteq Tasks /\ done \subseteq Tasks /\ queued \subseteq Jobs
  /\ deps \in [Jobs -> SUBSET Tasks]
  /\ notify \in [Tasks -> SUBSET Jobs]
  /\ triggers \in [Tasks -> Seq(Trigs)]
  /\ queue \in [Tasks -> Nat]
  /\ updates \in 0 .. MaxUpdates
  /\ aborted \in BOOLEAN
  /\ early \subseteq Tasks \X Trigs

\* A trigger that has got enough is not forgotten: until it is done it is in
\* the queue, executed, or about to be tested by the thread that activated it.
NoLostTrigger ==
  \A t \in attached \cap Trigs :
    Ready(t) /\ t \notin done =>
      queue[t] > 0 \/ Executing(t) \cup Activating(t) # {}

\* Whatever the order of chaining and finishing, of executions and of other
\* activations: an accumulator chained to a task before that was done receives
\* its result, unless it has fired without it.
NoLostResult ==
  \A x \in done, t \in Trigs :
    /\ <<x, t>> \in early /\ kind[t] = "acc" /\ ResultOf(x) # <<>>
    /\ Notifying(x) = {}
    => Ready(t) \/ \E i \in 1 .. Len(got[t]) : got[t][i] = x

\* execute() of an accumulator reads what it has got without the lock, and
\* dependents read the result it made of it: nothing is added any more.
StableTrigger ==
  [][\A t \in Trigs : t \in done \/ Executing(t) # {} => got'[t] = got[t]]_vars
==============================================================================
