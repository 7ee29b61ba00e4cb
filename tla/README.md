# psingthreadlib in TLA+

psingthreadlib gives the computer algebra system Singular threads, channels,
shared tables and thread pools with dependent jobs. This directory holds TLA+
models of its concurrent parts, TLC configurations that check them on small
instances, and proofs that TLAPS checks for instances of any size. File and
line numbers refer to `src/`; the program is nearly all in `src/shared.cc`.

## 1. Inventory

| Component | State | Operations | Interacts with |
|---|---|---|---|
| Lock, ConditionVariable (`thread.h` 17-109) | owner, nesting count, waiter count, beside a pthread mutex and condition | lock, unlock, wait, signal, broadcast | every other component |
| Semaphore (`thread.h` 111-124, `thread.cc` 28-42) | count, waiting | wait, post | one Lock and condition of its own |
| SingularSyncVar, SyncVar (`shared.cc` 434-488, `syncvar.h`) | value, initialised flag | write, read, update, poll | interpreter commands; update runs a user procedure |
| SingularChannel, Channel (`shared.cc` 400-432, `channel.h`) | queue of encoded values | send, receive, count | interpreter commands |
| Transactional objects and regions (`shared.cc` 208-227, 289-398) | region, lock, table or list | put, get, check, add; lockRegion, unlockRegion | one region lock serves many objects |
| Shared objects (`shared.cc` 157-272) | name table, reference counts | make, find, bind, copy, destroy | global object lock, one lock per object type |
| Interpreter threads (`shared.cc` 1339-1531, 2755-2893) | flags, a queue each way, lock and two conditions | createThread, threadEval, threadExec, threadResult, joinThread | encoded values (LinTree) |
| Jobs and Scheduler (`shared.cc` 1551-1965, 2104-2862) | per job: dependencies, dependents, flags; queues; shutdown counter | startJob, scheduleJob, cancelJob, waitJob, threadPoolExec, closeThreadPool; the workers' loop, which callers run themselves in a pool without threads | Lock, two conditions; calls user code without the lock |
| Triggers (`shared.cc` 1600-1605, 1967-2102, 2547-2646) | accumulated arguments, counters | createTrigger, updateTrigger, chainTrigger, testTrigger | are jobs; activated inside notifyDeps() |
| LinTree (`lintree.cc`) | a byte string and a position, the last ring, an error flag | encode, decode | every value that crosses a thread; references to shared objects |
| Task system (`threadtasks.lib`) | two kinds of channels, a list of tasks in each interpreter | createTask, startTask, runTask, waitTask(s), getResult | channels, interpreter threads |
| Libraries and examples (`systhreads.lib`, demos) | none | shorter names for commands | commands above |

What makes each of them correct, and what is hard to test, is listed under
`hazards` in `PROJECT.json`, at the line where it bites.

## 2. Modules

### Monitor, AbstractMonitor, MonitorProofs

`AbstractMonitor` states what the rest of the library relies on: a re-entrant
monitor with condition variables that lose no signal. `Monitor` is the code:
each pthread call and each assignment block of `Lock` and `ConditionVariable`
is one action. Two shortcuts make it delicate: `lock()` compares `owner` with
the caller before it holds the mutex, and `signal()` skips the pthread call
when `waiting` is zero. `Misuse` stands for the calls that end in
`ThreadError()`, after which nothing happens.

### JobGraph, Scheduler, SchedulerProofs

`JobGraph` holds what the two kinds of thread pool share: the fields of `Job`,
the queue, and what `notifyDeps()`, `cancelJob()`, `attachJob()` and
`addNotify()` do with them. `Scheduler` is the pool with worker threads.

Every other module relies on what `AbstractMonitor` promises, so a critical
section of `Scheduler::lock` is one action of `Scheduler`. A worker that ends a
round keeps the lock until it starts the next job, sleeps or exits; the
variable `lock` is that worker. What the code reads without the lock is read in
a step of its own (`ScheduleCheck` before `Schedule`, `WaitJob` before the
loop).

| Model | Code |
|---|---|
| `pc[w]`: top, asleep, exec, exited | where a worker is in `Scheduler::main` |
| `Execute`, `Finish`, `Skip`, `Complete` | `Job::run()` before and after `execute()`, without it, and the rest of the round with `notifyDeps()` |
| `queue[j]` | how often job j is in `global_queue`; more than once is possible |
| `Freed` | the dependents that `notifyDeps()` queues |
| `CancelSet`, `Live` | the jobs the recursion of `cancelJob()` and `cancelDeps()` visits |
| `AttachJobs`, `Cancel`, `EndJob` | the effect of a critical section of `scheduleJob`, `cancelJob`, a worker's round on those fields |
| `respAsleep` | threads blocked on `response`: in `waitJob()` or `shutdown()` |
| `ran`, `seen` | history, for the properties only |

Left open or left out: the order of the priority queue (any queued job may be
next), job arguments and results, triggers (they have a module of their own),
creation of the pool. A pool is closed once.

### JobPool

What any pool promises about jobs, without queues, locks, wake-ups, the flags
`queued` and `pending` and the lists of dependents: a job starts when its
dependencies are done and once, and cancelling takes along all dependents that
have not started. `Scheduler` and `SingleThreaded` are both shown to implement
it (`ImplementsPool`). The set `again` holds the jobs for which the code does
not keep the promise of starting once (section 6).

### MainRuns, SingleThreaded

The pool of `createThreadPool(0)`. Nobody works for it but the threads that wait:
`waitJob()` and `closeThreadPool()` run `Scheduler::main` until the job is done
or nothing is queued, and a job may wait again. `MainRuns` has these runs and what a
job may expect of them, `SingleThreaded` the actions. `stack[t]` is the nesting of
the runs in thread t, each with `info->job`, the job it executes and whether
that one has called `waitJob()`. `myQueue` is the one queue of `threadPoolExec`,
which all threads share. The lock is kept from a job that ends to the next
round, as in `Scheduler`. Its theorems are the last part of `SchedulerProofs`.

Some definitions of a module are used by no action (`FreedEarly`,
`ShutdownAtOnce`, `WakeOne`, ...). They are plausible bugs: put in place of
the definition they vary, they make TLC find a violation of the property named
in `PROJECT.json` under `mutants`, which shows that the property depends on the
code.

### Triggers, TriggersProofs

A trigger is a job that others feed: `updateTrigger` and, for triggers chained
to a job or to another trigger, `notifyDeps()`. `Triggers` models that walk step
by step, because a proc trigger gives up `Scheduler::lock` in the middle of it.
It leaves out what `Scheduler` covers: waking workers, cancelling, closing.

| Model | Code |
|---|---|
| `kind`, `limit` | the subclass and the argument of `createTrigger` |
| `got[t]` | `args`, the count, the elements of the set, or `success` |
| `task`, `at`, `trig` | the task of `notifyDeps()`, the loop index, `trigger` |
| `pc`: exec, notify, proc, relock, check | in `execute()`, in the loop, in the procedure, about to lock again, about to call `ready()` |
| `job` | the job that `scheduleJob` attaches after `addNotify()` |
| `early` | history, for the properties only |

### Channel, ChannelProofs

Senders append, one signal per send; receivers test, sleep or take the oldest
item, and pass the signal on (`SignalReceiver`) if items are left. `receiving` are the threads
inside `receiveChannel()`, `asleep` those blocked on the condition. A critical
section is one step; `ReceiveBegin` is separate because a thread on its way to
the lock may take the item another one was woken for.

### SyncVar, SyncVarProofs

A value is the set of contributions to it: the write and each update add one
element, so that a lost update shows. `call[t] = "run"` is the procedure of
`updateSyncVar`, which runs with the lock: it may end well (`Update`), fail
(`UpdateFails`) or use the variable itself, which `ThreadError()` ends
(`Reenter`, `aborted`). `blocked` are the threads in `wait_init()`, all of which
a value wakes (`WakeReaders`).

### Tables, TablesProofs

One region with its tables, lists and regionlocks, and atomic tables and lists
with a lock each. `holder` is the owner of `Region::region_lock`, `lockOf` is
`Transactional::lock`. An access to a shared object is one step, because the
caller has the region; an access to an atomic one is three (`Enter`, `Access`,
`Leave`). Making an object is two: `makeSharedObject()` enters it in the name
table, `set_region()` follows without a lock. `inTx` and `view` are history: who
is in a transaction, and what it must find in the region.

Make and bind come in any order, as in the code: `Make` of a name that exists
finds the object (`makeSharedObject()` 259-262), and `SetRegion` then gives an atomic
object a new lock, whoever is inside it; `Bind` finds an object that has no lock
yet. What is left are two weaker properties: `AloneUntilRemade`, that an object
whose lock was set once has one thread inside, and `UsableOnceMade`, that an
object without a lock is being made by somebody. That the stronger ones fail is
shown by the runs `remade` and `found_early` (section 6).

### InterpreterThreads, InterpreterThreadsProofs

`active`, `parent`, `toThread`, `fromThread` are fields of `ThreadState`, by slot
of `thread_state`; `place` is where the thread of the slot is, and "busy" when it
has the slot's lock, which it keeps during evaluations. Objects
(`InterpreterThread`) are numbered as they are created; `slotOf` is their `ts`.
`given`, `done` and `got` are history.

### LinTree, SharedValues

`LinTree` translates the encoders and decoders; `Then` and `Build` put decoders
one after the other, as the statements of a decoder are in the code. A string is a sequence of cells,
one per `put`, each with the kind of datum: a `get` that meets another kind has
lost its place, and everything after it is undefined in the code (`ok = FALSE`).
Names, digits and pointers are opaque; that `mpz_export()` drops the sign, that
commands with four or more arguments lose all but the first, and what
`decode_ring_raw()` expects after the codes -1 to -5 are modelled, because they
decide what arrives. The evaluation of a quoted command is external; `Eval` knows
one operation and fails on everything else.

`SharedValues` lets interpreters with different base rings and names store such
strings in an object, fetch them and pass them on, and counts references:
`Carried` says without cells what the receiver should get (the value itself, with
names and quoted commands evaluated), `Fails` which values have a part that cannot
be sent or received, and so arrive as none. `Followable` are the values whose rings the
decoder can follow, `Whole` those without large negative numbers, negative fractions
and long commands. `RoundTrip` is about values that are both; for those that are only
`Followable` it fails (run `lost_sign`). Reference counts are checked as counts:
nothing in the code acts on them yet.

### Tasks, AbstractTasks, TasksProofs

The task system of `threadtasks.lib`. One step is one use of a channel; channels
are the queues that `Channel` shows them to be. `localTasks[i]` is the list of
that name in interpreter i (0 is the main thread), `doing`, `ended` and `waiting`
are positions in the procedures `startWorker` and `waitTasks`. An error in a
procedure ends everything that runs in its interpreter, in a worker including the
loop of `startWorker`. `startTask` always fails: it uses a variable `func` that
does not exist there. `AbstractTasks` is the promise: each task is executed at
most once, and its result gets to its creator under its id.

## 3. Runs

Every run finishes in less than four minutes on two cores. Small components share
a run: `MCWaiting` and `MCObjects` extend several modules that have no variable in
common. In each behaviour one of them (`use`) moves, and the others stay in an initial
state, so that the states of the run are those of its components, one after the
other, and each property is checked on all behaviours of the component it is about.

| Run | Instance | What it shows |
|---|---|---|
| `waiting` (Monitor) | 3 threads, 2 conditions, depth 2 | the owner test without the mutex is safe; the count of waiters is exact, so no wake-up is dropped; the classes implement `AbstractMonitor` |
| `waiting` (SyncVar) | 3 threads, 1 update each | no lost update, nobody asleep beside a value, readers return |
| `sched_core` | 2 workers, 2 clients, 3 jobs with any dependencies, 1 `threadPoolExec` | no job and no wake-up is lost; inputs and results are there; the scheduler implements `JobPool` |
| `sched_live` | 2 workers, 2 clients that wait, one cancels and one closes, 2 jobs | jobs finish, `waitJob()` and `closeThreadPool()` return |
| `single_threaded` | 2 threads, 2 jobs, 1 `threadPoolExec`, one thread cancels, one closes | implements `JobPool`; waiting ends and gives up only jobs that wait for one in execution |
| `triggers` | 2 workers, 1 client, 2 jobs, 2 triggers of any kind | no trigger and no result is lost; nothing is added to a trigger in execution |
| `objects` (Channel) | 2 senders of 3 items, 3 receivers | first in, first out, nothing lost or doubled; items and receivers find each other |
| `objects` (Tables) | 2 threads, 3 objects, 2 locks for each, 2 keys, 2 regionlocks each | isolation of transactions; exclusion in atomic objects until they are made again; only objects being made have no lock |
| `interpreter_threads` | 2 clients, 2 slots, 2 threads of 2 tasks | slots, order of results, joins, progress |
| `objects` (SharedValues) | 2 interpreters; 7 base rings, 13 plain values, numbers, polynomials, ideals, rings, and lists of these two deep | values the encoding can carry arrive whole or not at all; references are counted |
| `tasks` | 2 workers, 3 tasks of the main thread, 2 of which start one each | no task lost or run twice, results under their ids, waits end |
| `rerun` | 2 workers, 1 client, 3 jobs | section 6, as the following |
| `remade` | Tables as in `objects` | two threads in one atomic list |
| `found_early` | Tables as in `objects` | an object without a lock |
| `lost_sign` | SharedValues with 4 bigints and 2 fractions | -9 arrives as 9 |

Why the bounds are enough to see something: with two workers there is one that
sleeps, exits or executes the same job while the other one acts; three jobs are
the least for a chain with a job that was done before, one that is scheduled
from inside another, and a cancelled one in between; two waiters are the least
for a signal that wakes the wrong one; three receivers allow one to sleep, one
to be woken and one to overtake. In `triggers` the first trigger may be of any
kind and feeds the second one, so that each kind is fed by a command, a job and
a trigger. In `interpreter_threads` a slot is used again with the quit request
and unfetched results of the last thread still in its queues. In
`single_threaded` two jobs suffice for one that waits for the other further down
its stack, and two threads for one that executes what the other waits for. In
`tasks` both workers can be busy with tasks that wait, which is the deadlock that
`WaitsEnd` excepts. `SharedValues` starts from every value in both roles, and
lists of two hold every pair of kinds of values, which is what decides about
`last_ring`. The bounds on counters are constants: `MaxDepth`, `MaxSends`,
`MaxUpdates`, `Limits`, `MaxIndex`, `MaxLocks`, `MaxRlocks`, `MaxCreated`,
`MaxTasks`, `MaxNesting`, `MaxRefs`; `ExecJobs` bounds the calls of
`threadPoolExec`.

`CHECK_DEADLOCK FALSE`: all these systems may really stop. Callers may stop
calling, closed pools and joined threads are gone, and `ThreadError()` or a NULL
pointer ends the program.

Fairness. The condition variables wake one waiter per signal, and a woken thread
competes for the lock with all others. A kernel does not keep a thread from a
lock for ever, so a thread that can go on again and again eventually does:
strong fairness per thread where others may take the lock, or the item, in
between (`Scheduler`, `SyncVar`, clients of `InterpreterThreads`), weak fairness
where nothing disables the step for good. Starting a command is never fair:
nobody has to call. It includes that `execute()`, procedures and evaluations
return. In `SingleThreaded` a run of `Scheduler::main` that has the lock goes on
(weak), and a job comes to its end although others may take the lock in between
(strong). In `Tasks` a task in the queue is taken by some free worker and a
waiting interpreter reads its channel (weak); a procedure ends, however often it
waits (strong).

## 4. Proofs

All theorems hold for any number of threads, jobs, objects and values. They rest
on the named `ASSUME`s of the modules, which say that the sets of names are
disjoint and the bounds are numbers, and some on an assumption about the program,
which is a hypothesis of the theorems: `SoleScheduler` (no two threads schedule one
job, as the code tests `job->pool` without the lock). Every inductive invariant below was checked with TLC before it was
proved.

- `MonitorProofs`. `IInv` joins the types with: the owner holds the mutex, the
  mutex is held by the owner or by a thread in transit, a waiter remembers a
  positive depth, and `waiting` counts the waiters. The last one is what the
  shortcut of `signal()` needs, and it is inductive only with the rest. From it
  follows the refinement: each step is one of `AbstractMonitor` or invisible.
- `SchedulerProofs`. `JobInv` says of each job why it is not forgotten and whose
  results it may read. `NoLostJob` is not inductive alone: a flag `queued` must
  mean that the job is on its way, `deps` and `notify` must mirror each other, and
  a job marked done without having run must have taken its dependents with it
  (`FlagsOf`), which is why `cancelJob()` recurses. `OnceOf` is why a job that is
  pushed once is executed once. `InputsReady` says that whatever a job reads has been
  computed; that it is not being computed again is said, and proved, only of
  dependencies that were queued once (`Single`), as the run `rerun` shows the
  other ones in execution again. Proved: `TypeOK`, `NoLostJob`, `InputsReady`,
  `ResultReady`, `ExecutedOnce`. `OrderInv` adds `InitializedFirst`, and that an
  expression broadcast before a job was attached is attached itself (`SeenAttached`),
  so that `threadPoolExec` cannot put it into a worker's queue once more. All but
  `TypeOK` need `SoleScheduler`.
- `SomeoneAwake` and `CloseInSync` need no hypothesis: `WakeInv` is them, the types
  and `WorkerJob` (a worker has a job exactly while it executes one). A signal may go
  to any sleeper, so what is kept is that one worker is at the top of its loop, where
  it looks at the queue before it waits; the case that matters is a worker that takes
  one of several jobs and has to signal again.
- `Implementation`, that the scheduler implements `JobPool`, follows from the job
  invariant step by step: `execute()` begins, the worker returns with the lock, and
  a command changes the graph; waking, sleeping and closing are invisible.
- The pool without threads has the same jobs, so `SchedulerProofs` takes an instance
  of `SingleThreaded`, called `Alone`, with the same job graph and any set of
  threads (`Workers` may be empty). What holds of the jobs is `JobsInv(ex)` for both
  pools, where `ex[j]` is the set of those who execute j: workers there; here runs
  of `Scheduler::main`, each a thread and a position in its stack (`Frames`). The
  lemmas from `JobsKept` to `JobsScheduled`, and `PoolStarts` to `PoolAdds` for the
  refinement, say what the critical sections do to the jobs whoever enters them.
  `AloneInv` joins that with the types, `Stacks` (the innermost run of the thread that
  has the lock is between two jobs; all other runs execute a job, and those below
  the innermost wait in it) and `WellFounded` (dependencies have no cycle, as they
  are scheduled before their dependents). `CurrentJob` is inductive only with what a run
  between two jobs finds in `currentJobRef`. For `NoJobGivenUp`: of the jobs that the one
  given up waits for, `WellFounded` yields one that waits for none of them, and
  that one, not being lost and not being queued, is executed. What `SoleScheduler`
  says is part of the model here: one thread may schedule a job (`Handles[j]`), so
  that the tests without the lock and the scheduling are one step.
- `ChannelProofs`. While a receiver sleeps, as many others are awake as there are
  items; the case that matters is a `Take` that leaves items and signals. And of
  each sender, the receivers have the first n items, each of them one receiver,
  and the channel has the rest in order (`FirstInFirstOut`, inductive with the
  types).
- `SyncVarProofs`. While a procedure runs its argument is the value
  (`ArgCurrent`) and there is one such thread (`HolderUnique`); hence no lost
  update, and reads are monotone.
- `TablesProofs`, without a hypothesis. What is in the name table has its lock set
  or is being made by somebody, and only such objects are known (`NamesMade`):
  `UsableOnceMade`. Whoever is inside an atomic object owns one of the locks it has
  had so far (`LocksHeld`), and of a single one there is one owner:
  `AloneUntilRemade`. `InTransaction` and `Isolation` are inductive with the types,
  given two lemmas on what `ListPut` leaves alone.
- `InterpreterThreadsProofs`. What a live thread has done, followed by what is in
  its queue, is what it was given, followed by the quit request if it is being
  joined (`Pending`); it exits with nothing else left (`ExitedLast`), and while a
  client waits for a thread nobody else can use it (`CallsOwn`). Hence
  `JoinedDone`; with `Unborn`, `SlotsMatch`. `ResultsInOrder` takes that the
  n-th task given and done has the number n (`AllNumbered`), and that the results of
  the evaluations up to some task were fetched while those of the later ones are in
  the slot, in order (`AllFetched`): sets of numbered tasks say this without
  recursion over sequences.
- `TriggersProofs`, without a hypothesis. `TInv` joins the types and
  `NoLostTrigger` with: a thread in the walk of `notifyDeps()` has an attached trigger
  in hand and comes from a job that is done (`Places`); what is chained is in the pool,
  and in the list that the walk follows (`Chained`); a trigger starts with nothing, and a proc trigger
  has at most its one element (`Contents`); a trigger fires only when it has got
  enough (`FiredReady`). `NoLostResult` is inductive only with the walks that are under
  way: the result is there, or the trigger is full, or a thread comes to it yet
  (`Results`). `StableTrigger` follows from `FiredReady`, as what is full gains nothing.
- `TasksProofs`, without a hypothesis, even if tasks fail. `Known`: what is in a
  channel, in a worker or lost is a task of the interpreter it names, and an answer
  is that task's. `Results`: a task has its own result once it is done.
  `OnePlace` counts, over two channels, the workers and two flags; its proof rests
  on lemmas about how `Append`, `Tail` and an exchanged value change a number of
  occurrences. The refinement needs it: a task's state in `AbstractTasks` is a case
  distinction whose cases exclude each other only because the task is in one place.

Two of these proofs have changed the modules. An action of `Triggers` chose with
a `CASE` whose guards overlapped; TLC takes the first that holds, but TLA+ leaves
the choice open, and the proof failed where a full trigger gained something. It is
now an `IF`. And `SUBSET A \ B` is `SUBSET (A \ B)` to the prover and
`(SUBSET A) \ B` to TLC, so such sets are in parentheses.

Only model-checked: all liveness properties and conditions on what is `ENABLED`,
which are out of the prover's reach; and `SharedValues` (`RoundTrip`,
`RefsCovered`), because `LinTree` is made of recursive operators over values, and
what those compute for every value would take induction over data. Every other
invariant and action property that a passing run checks is proved.

## 5. Not modelled

- `src/autosetup/jimsh0.c`, the interpreter of the vendored build system, which
  is 21993 of the 26531 lines counted as implementation. The models cover well
  over a third of the library's own 4538.
- `ref_*` and `updateref()` in `lintree.cc`, which nothing calls, the class in
  `bytebuf.cc`, which nothing uses, and the matrices and modules that
  `encode_ideal` provides for but `init()` does not install.
- The references that jobs, pools and schedulers hold of each other. Nothing
  reads the counts: the call that deletes an object is commented out in
  `releaseShared()`.
- The argument checks of commands (`Command`): a refused command has no effect,
  except for `startJob`, which appends the arguments before it refuses.
- `Semaphore` and the templates `Channel<T>` and `SyncVar<T>`: nothing in the
  repository but a test program uses them. `SyncVar<T>::read()` never assigns
  its result, and `Semaphore::post()` signals only when the count leaves zero.
- `systhreads.lib`, demos, the kernel interface `singthreads.h` (the bodies are
  those of the commands), build system. In `threadtasks.lib`: a second task system
  at the same time, and `initWorkers*`.

## 6. Where code and documentation differ

Four differences have a run that TLC must find violated, and an entry under
`findings` that quotes what is said:

- `rerun`: a job whose dependencies are done when it is scheduled enters the
  queue twice, from `addNotify()` and from `attachJob()`. It runs twice, and its
  dependents beside the second execution.
- `remade`: making an atomic object again replaces its lock while it is in use.
- `found_early`: an object is in the name table before it has its lock.
- `lost_sign`: `mpz_export()` drops the sign of a number that does not fit a
  tagged word.

Seen while modelling, without a run of their own. The properties of the passing
runs make an exception for them where it is named. In the thread pools:

- Two threads that share a job both pass the test for "job has already been
  scheduled", which is made before the lock is taken, and the job is queued twice
  (excluded by `SoleScheduler`).
- `closeThreadPool()` with `wait` takes an empty queue for the end of the work. A
  running job's dependents are then dropped, although doc/threadpools.md:26-28 says
  that it waits "until there are no remaining jobs that can be executed anymore"
  (the exception of `JobsFinish`).
- After a `waitJob()` in the pool without threads a job has no current job any
  more, and `jobCancelled()` fails in it (what `CurrentJob` allows).
- A waiter woken for somebody else's job goes back to sleep without passing the
  signal on; the waiter for that job stays blocked while the first one's job
  runs. `shutdown()` and `waitJob()` share `response` too: a waiter can take the
  last signal of a worker and leave `closeThreadPool()` blocked (the exception
  that `CloseReturns` makes).
- `waitJob()` inside a job blocks its worker; workers that all wait never go on.
- `cancelJob()` does not signal `response`; `broadcastJob()` does not signal
  `cond`; `pending` grows for ever; a list that names a job twice pushes it
  twice.
- `JobCompare` is no order: of a job with higher `fast` and one with higher
  `prio`, each is less than the other. The `id` it compares is not set when
  `notifyDeps()` queues a job before `attachJob()` has seen it.
- `incref(by)` counts 1 whatever `by` is. (Nothing is ever deleted on account of
  the counts.)
- `scheduleJob()` reads lists up to `i < lSize(l)`, where `encode_list()` has
  `i <= lSize(l)`: a list's last job is left out if the two mean the same.
- In the kernel interface, `scheduleJob()` has no return statement, and a
  `KernelJob` without arguments uses the first element of an empty vector.

In triggers:

- Scheduling a job on a done dependency activates the triggers of that dependency
  once more, and an accumulator gets one result twice (`NoLostResult` is about
  too few, not too many).
- `SetTrigger::activate()` compares the element with the number of elements so
  far, which is 0, so a set trigger for n > 0 never fires. It looks at the type
  of its first argument even if there is none.
- A count trigger accepts only jobs without a result. A trigger that has fired
  is executed again at each further activation.
- `scheduleJob` on a done dependency with a proc trigger gives up the lock
  between queueing the job and setting its pool; a worker that pops it then
  follows a NULL pointer.

Elsewhere:

- Copies of a regionlock each unlock the region, and assigning to a regionlock
  variable never does. Index 0 of a list writes before its first item.
- `makeSharedObject()` returns NULL for a name of another type, and a second
  `joinThread()` follows NULL: both end the program.
- `pthread_create()` is tested for a negative result, which it never has.
- A procedure of `updateSyncVar()` that uses the same variable ends the program.
- Rings over extension fields, a ring sent twice and commands with more than three
  arguments do not arrive as they were sent.
- `startTask` of `threadtasks.lib` uses an undefined variable. A second
  `createTaskSystem` uses the names of the first one's channels.

## 7. Plan

Done: every component with state of its own has a model, and all but the values
are proved about. Left: the heap order, with the given `JobCompare` and with a
corrected one.
