--------------------------- MODULE SchedulerProofs ---------------------------
(***************************************************************************)
(* Proofs about Scheduler, for any number of workers, clients and jobs:    *)
(* about its jobs, provided that no two threads try to schedule the same   *)
(* job, about its wake-ups and its end without that, and that it           *)
(* implements JobPool; then the same about the pool without threads of     *)
(* SingleThreaded, whose jobs are of the same kind, in an instance of it.  *)
(***************************************************************************)
EXTENDS Scheduler, MainRuns, FiniteSetTheorems, SequenceTheorems, TLAPS

\* A worker has a current job exactly while it executes one.
WorkerJob == \A w \in Workers : pc[w] = "exec" <=> job[w] # NoJob

\* What scheduleJob has checked without the lock still holds when it has it.
RequestsHold ==
  \A t \in Threads : call[t] = "schedule" =>
    /\ req[t].jobs # {} /\ req[t].deps \subseteq attached
    /\ \A j \in req[t].jobs : t \in Handles[j] /\ j \notin attached

\* What holds of the jobs in either kind of pool; X is the set of those that
\* execute job j, and ex[j] is that set for each job.

\* A job that has not been scheduled is untouched.
UntouchedIn(j, X) ==
  /\ deps[j] = {} /\ queue[j] = 0 /\ X = {}
  /\ j \notin pending \cup queued \cup running \cup done \cup cancelled \cup ran

\* A job that notifyDeps() has queued is still on its way; only a job that is
\* done or running is cancelled; a job in the queue has its dependencies done;
\* and a job marked done without having run took its dependents with it.
FlagsIn(j, X) ==
  /\ j \in queued => queue[j] > 0 \/ X # {} \/ j \in done
  /\ j \in cancelled => j \in done \cup running
  /\ j \in running => X # {}
  /\ queue[j] > 0 => deps[j] \subseteq done
  /\ X # {} => j \in ran /\ deps[j] \subseteq done \cap ran
  /\ j \in done \ ran => j \in cancelled /\ notify[j] \subseteq cancelled

\* Why a job that is put into the queue once is executed once.
OnceIn(j, X) ==
  /\ queue[j] \in {0, 1}
  /\ queue[j] = 1 => j \notin ran
  /\ \A v, w \in X : v = w
  /\ X # {} => j \notin done /\ j \in running
  /\ j \in pending \ queued => queue[j] = 0 /\ j \notin ran

\* A job whose dependencies are done is not forgotten.
NotLost(j, X) ==
  deps[j] \subseteq done /\ j \notin done => queue[j] > 0 \/ X # {}

\* deps and notify are each other's inverse.
Links ==
  /\ \A d, n \in Jobs : n \in notify[d] <=> d \in deps[n]
  /\ \A j \in Jobs : deps[j] \subseteq attached

JobsInv(ex) ==
  /\ Links
  /\ \A j \in Jobs : j \notin attached => UntouchedIn(j, ex[j])
  /\ \A j \in Jobs : FlagsIn(j, ex[j])
  /\ \A j \in Jobs : Single(j) => OnceIn(j, ex[j])
  /\ \A j \in attached \cap Jobs : NotLost(j, ex[j])

JobTypes ==
  /\ deps \in [Jobs -> SUBSET Jobs] /\ notify \in [Jobs -> SUBSET Jobs]
  /\ queue \in [Jobs -> Nat]

\* What startJob and scheduleJob have made sure of.
CanAttach(js, ds) ==
  js \subseteq Jobs /\ js \cap attached = {} /\ ds \subseteq attached \cap Jobs

\* The same for the workers of this pool.
Untouched(j) == UntouchedIn(j, Executing(j))
FlagsOf(j) == FlagsIn(j, Executing(j))
OnceOf(j) == OnceIn(j, Executing(j))

Graph == Links /\ \A j \in Jobs : j \notin attached => Untouched(j)
Flags == \A j \in Jobs : FlagsOf(j)
Once == \A j \in Jobs : Single(j) => OnceOf(j)

JobInv == Graph /\ Flags /\ Once /\ NoLostJob

IInv == TypeOK /\ WorkerJob /\ RequestsHold /\ JobInv

USE ThreadsAssumption, JobsAssumption, RolesAssumption DEF Threads, AllJobs

-----------------------------------------------------------------------------
\* Facts about the operators.

\* cond.signal() wakes only sleeping workers.
LEMMA WokenSubset == \A n : \A S \in WokenBy(n) : S \subseteq Asleep
BY DEF WokenBy

\* Pushing keeps the queue a function to the naturals and takes nothing away.
LEMMA PushFacts ==
  ASSUME NEW q \in [Jobs -> Nat], NEW S \in SUBSET Jobs
  PROVE  /\ Push(q, S) \in [Jobs -> Nat]
         /\ \A j \in Jobs : Push(q, S)[j] = IF j \in S THEN q[j] + 1 ELSE q[j]
BY DEF Push

\* The jobs cancelJob() visits: all it is called for and, from a live job, all
\* dependents.
LEMMA CancelSetFacts ==
  ASSUME NEW S \in SUBSET Jobs, NEW ntf \in [Jobs -> SUBSET Jobs]
  PROVE  /\ S \subseteq CancelSet(S, ntf)
         /\ CancelSet(S, ntf) \subseteq Jobs
         /\ \A j \in CancelSet(S, ntf) :
              Live(j) => ntf[j] \subseteq CancelSet(S, ntf)
<1>1. S \subseteq CancelSet(S, ntf) /\ CancelSet(S, ntf) \subseteq Jobs
  BY DEF CancelSet
<1>2. ASSUME NEW j \in CancelSet(S, ntf), Live(j), NEW n \in ntf[j]
      PROVE  n \in CancelSet(S, ntf)
  <2>1. j \in Jobs /\ n \in Jobs
    BY <1>1
  <2>2. ASSUME NEW T \in SUBSET Jobs, S \subseteq T, Closed(T, ntf)
        PROVE  n \in T
    <3>1. j \in T
      BY <2>2 DEF CancelSet
    <3> QED BY <1>2, <2>2, <3>1 DEF Closed
  <2> QED BY <2>1, <2>2 DEF CancelSet
<1> QED BY <1>1, <1>2

\* They are the fewest: no job outside a set closed under dependents.
LEMMA CancelSetLeast ==
  ASSUME NEW S, NEW ntf, NEW T \in SUBSET Jobs, S \subseteq T,
         \A j \in T : Live(j) => ntf[j] \subseteq T
  PROVE  CancelSet(S, ntf) \subseteq T
BY DEF CancelSet, Closed

\* The end of a round without the operators it is made of.
LEMMA CompleteFacts ==
  ASSUME NEW w, NEW j, NEW q, NEW n, Complete(w, j, q, n)
  PROVE  /\ done' = done \cup {j} /\ queued' = queued \cup FreedBy(j)
         /\ queue' = Push(q, FreedBy(j))
         /\ job' = [job EXCEPT ![w] = NoJob] /\ lock' = w
         /\ \E S \in SUBSET Asleep : pc' = [Awake(S) EXCEPT ![w] = "top"]
         /\ UNCHANGED <<callVars, graphVars, cancelled, ran, myQueue, closeVars>>
<1>1. PICK S \in WokenBy(n + Cardinality(FreedBy(j))) :
        pc' = [Awake(S) EXCEPT ![w] = "top"]
  BY Zenon DEF Complete, EndJob
<1>2. S \in SUBSET Asleep
  BY WokenSubset
<1>3. done' = done \cup {j} /\ queued' = queued \cup FreedBy(j)
        /\ queue' = Push(q, FreedBy(j))
        /\ job' = [job EXCEPT ![w] = NoJob] /\ lock' = w
        /\ UNCHANGED <<callVars, graphVars, cancelled, ran, myQueue, closeVars>>
  BY Zenon DEF Complete, EndJob
<1> QED BY <1>1, <1>2, <1>3

-----------------------------------------------------------------------------
\* The jobs, whoever executes them.  Before the step the function f says who
\* executes each job, after it g does.

\* Steps that leave all jobs in Jobs as they are.
LEMMA JobsKept ==
  ASSUME JobTypes, NEW f, NEW g, JobsInv(f),
         UNCHANGED <<deps, notify, pending, queued, cancelled, queue>>,
         attached' \cap Jobs = attached \cap Jobs,
         running' \cap Jobs = running \cap Jobs,
         done' \cap Jobs = done \cap Jobs,
         ran' \cap Jobs = ran \cap Jobs,
         \A j \in Jobs : g[j] = f[j]
  PROVE  JobsInv(g)'
<1>1. \A j \in Jobs :
        /\ j \in attached' <=> j \in attached
        /\ j \in running' <=> j \in running
        /\ j \in done' <=> j \in done
        /\ j \in ran' <=> j \in ran
  OBVIOUS
<1>2. \A j \in Jobs : deps[j] \subseteq Jobs
  BY DEF JobTypes
<1>3. Links'
  BY <1>1, <1>2 DEF Links, JobsInv
<1>4. ASSUME NEW j \in Jobs
      PROVE  /\ j \notin attached' => UntouchedIn(j, g[j])'
             /\ FlagsIn(j, g[j])'
             /\ Single(j)' => OnceIn(j, g[j])'
             /\ j \in attached' => NotLost(j, g[j])'
  <2>1. /\ j \notin attached => UntouchedIn(j, f[j])
        /\ FlagsIn(j, f[j])
        /\ Single(j) => OnceIn(j, f[j])
        /\ j \in attached => NotLost(j, f[j])
    BY DEF JobsInv
  <2>2. deps[j] \subseteq done' <=> deps[j] \subseteq done
    BY <1>1, <1>2
  <2>3. deps[j] \subseteq ran' <=> deps[j] \subseteq ran
    BY <1>1, <1>2
  <2> QED BY <1>1, <2>1, <2>2, <2>3
          DEF UntouchedIn, FlagsIn, OnceIn, Single, NotLost
<1> QED BY <1>3, <1>4 DEF JobsInv

\* A job of the global queue is started by w.
LEMMA JobStarts ==
  ASSUME JobTypes, NEW f, NEW g, JobsInv(f), NEW w, NEW j \in Tops,
         j \notin cancelled, w \notin f[j],
         queue' = [queue EXCEPT ![j] = @ - 1],
         running' = running \cup {j}, ran' = ran \cup {j},
         UNCHANGED <<attached, deps, notify, pending, queued, done, cancelled>>,
         g[j] = f[j] \cup {w}, \A k \in Jobs \ {j} : g[k] = f[k]
  PROVE  JobsInv(g)'
<1>1. j \in Jobs /\ queue[j] > 0
  BY DEF Tops
<1>2. \A k \in Jobs : queue[k] \in Nat /\ queue'[k] \in Nat
        /\ queue'[k] = IF k = j THEN queue[k] - 1 ELSE queue[k]
  BY <1>1 DEF JobTypes
<1>3. j \in attached
  BY <1>1 DEF JobsInv, UntouchedIn
<1>4. FlagsIn(j, f[j])
  BY <1>1 DEF JobsInv
<1>5. deps[j] \subseteq done \cap ran
  <2>1. ASSUME NEW d \in deps[j], d \notin ran PROVE FALSE
    <3>1. d \in Jobs /\ j \in notify[d]
      BY <1>1 DEF JobsInv, Links, JobTypes
    <3>2. d \in done /\ FlagsIn(d, f[d])
      BY <1>1, <1>4, <3>1 DEF JobsInv, FlagsIn
    <3> QED BY <1>1, <2>1, <3>1, <3>2 DEF FlagsIn
  <2> QED BY <1>1, <1>4, <2>1 DEF FlagsIn
<1>6. Links'
  BY DEF JobsInv, Links
<1>7. ASSUME NEW k \in Jobs \ {j}
      PROVE  /\ k \notin attached' => UntouchedIn(k, g[k])'
             /\ FlagsIn(k, g[k])'
             /\ Single(k)' => OnceIn(k, g[k])'
             /\ k \in attached' => NotLost(k, g[k])'
  <2>1. /\ k \notin attached => UntouchedIn(k, f[k])
        /\ FlagsIn(k, f[k])
        /\ Single(k) => OnceIn(k, f[k])
        /\ k \in attached => NotLost(k, f[k])
    BY DEF JobsInv
  <2>2. g[k] = f[k] /\ queue'[k] = queue[k]
    BY <1>2
  <2> QED BY <2>1, <2>2 DEF UntouchedIn, FlagsIn, OnceIn, Single, NotLost
<1>8. FlagsIn(j, g[j])' /\ NotLost(j, g[j])'
  BY <1>1, <1>2, <1>4, <1>5 DEF FlagsIn, NotLost
<1>9. ASSUME Single(j)' PROVE OnceIn(j, g[j])'
  <2>1. OnceIn(j, f[j])
    BY <1>1, <1>9 DEF JobsInv, Single
  <2>2. queue[j] = 1 /\ j \notin ran /\ queue'[j] = 0
    BY <1>1, <1>2, <2>1 DEF OnceIn
  <2>3. f[j] = {} /\ j \notin done
    BY <1>1, <1>4, <2>2 DEF FlagsIn
  <2> QED BY <1>1, <2>1, <2>2, <2>3 DEF OnceIn
<1> QED BY <1>3, <1>6, <1>7, <1>8, <1>9 DEF JobsInv

\* A round ends: w has executed j, or found it cancelled.
LEMMA JobEnds ==
  ASSUME JobTypes, NEW f, NEW g, JobsInv(f), NEW w, NEW j \in Jobs,
         NEW q \in [Jobs -> Nat], EndJob(j, q),
         UNCHANGED <<attached, deps, notify, pending, cancelled, ran>>,
         \/ /\ w \in f[j] /\ q = queue /\ running' = running \ {j}
         \/ /\ w \notin f[j] /\ j \in cancelled /\ queue[j] > 0
            /\ q = [queue EXCEPT ![j] = @ - 1] /\ running' = running,
         g[j] = f[j] \ {w}, \A k \in Jobs \ {j} : g[k] = f[k]
  PROVE  JobsInv(g)'
<1> DEFINE F == FreedBy(j)
           Ran == w \in f[j] /\ running' = running \ {j}
           Skipped == w \notin f[j] /\ j \in cancelled /\ queue[j] > 0
                        /\ running' = running
<1>1. done' = done \cup {j} /\ queued' = queued \cup F
  BY DEF EndJob
<1>2. F = {k \in notify[j] :
             k \notin queued /\ deps[k] \subseteq done \cup {j} /\ k \notin cancelled}
  BY DEF FreedBy, Freed, JobTypes
<1>3. /\ F \subseteq Jobs
      /\ \A k \in F : j \in deps[k] /\ k \in attached
  BY <1>2 DEF JobsInv, Links, UntouchedIn, JobTypes
<1>4. \A k \in Jobs :
        /\ queue[k] \in Nat /\ queue'[k] \in Nat
        /\ queue'[k] = IF k \in F THEN q[k] + 1 ELSE q[k]
        /\ q[k] = IF k = j /\ Skipped THEN queue[k] - 1 ELSE queue[k]
  <2>1. queue' = Push(q, F)
    BY DEF EndJob
  <2>2. \A k \in Jobs : queue[k] \in Nat
    BY DEF JobTypes
  <2>3. \A k \in Jobs : q[k] = IF k = j /\ Skipped THEN queue[k] - 1 ELSE queue[k]
    BY DEF JobTypes
  <2> HIDE DEF F, Skipped
  <2>4. \A k \in Jobs : queue'[k] = IF k \in F THEN q[k] + 1 ELSE q[k]
    BY <1>3, <2>1, PushFacts
  <2> QED BY <2>2, <2>3, <2>4
<1>5. Ran \/ Skipped
  OBVIOUS
<1> HIDE DEF F, Ran, Skipped
<1>6. FlagsIn(j, f[j]) /\ j \in attached
  BY <1>5 DEF JobsInv, UntouchedIn, Ran, Skipped
<1>7. Links'
  BY DEF JobsInv, Links
<1>8. ASSUME NEW k \in Jobs \ {j}
      PROVE  /\ k \notin attached' => UntouchedIn(k, g[k])'
             /\ FlagsIn(k, g[k])'
             /\ Single(k)' => OnceIn(k, g[k])'
             /\ k \in attached' => NotLost(k, g[k])'
  <2>1. /\ k \notin attached => UntouchedIn(k, f[k])
        /\ FlagsIn(k, f[k])
        /\ Single(k) => OnceIn(k, f[k])
        /\ k \in attached => NotLost(k, f[k])
        /\ g[k] = f[k]
    BY DEF JobsInv
  <2>2. k \in running' <=> k \in running
    BY <1>5 DEF Ran, Skipped
  <2>3. queue'[k] = IF k \in F THEN queue[k] + 1 ELSE queue[k]
    BY <1>4
  <2>4. k \in F => k \in attached /\ queue'[k] > 0 /\ deps[k] \subseteq done'
    BY <1>1, <1>2, <1>3, <1>4
  <2>5. k \notin attached' => UntouchedIn(k, g[k])'
    BY <1>1, <2>1, <2>2, <2>3, <2>4 DEF UntouchedIn
  <2>6. FlagsIn(k, g[k])'
    BY <1>1, <1>4, <2>1, <2>2, <2>3, <2>4 DEF FlagsIn
  <2>7. ASSUME Single(k)' PROVE OnceIn(k, g[k])'
    <3>1. OnceIn(k, f[k])
      BY <2>1, <2>7 DEF Single
    <3>2. CASE k \in F
      <4>1. k \in pending \ queued
        BY <1>2, <1>3, <2>7, <3>2 DEF Single
      <4>2. queue'[k] = 1 /\ k \notin ran /\ f[k] = {} /\ k \in queued'
        BY <1>1, <2>1, <2>3, <3>1, <3>2, <4>1 DEF OnceIn, FlagsIn
      <4> QED BY <2>1, <3>1, <4>2 DEF OnceIn
    <3>3. CASE k \notin F
      BY <1>1, <2>1, <2>2, <2>3, <3>1, <3>3 DEF OnceIn
    <3> QED BY <3>2, <3>3
  <2>8. ASSUME k \in attached, deps[k] \subseteq done', k \notin done'
        PROVE  queue'[k] > 0 \/ g[k] # {}
    <3>1. CASE deps[k] \subseteq done
      BY <1>1, <1>4, <2>1, <2>3, <2>8, <3>1 DEF NotLost
    <3>2. CASE ~(deps[k] \subseteq done)
      <4>1. k \in notify[j]
        BY <1>1, <2>8, <3>2 DEF JobsInv, Links, JobTypes
      <4>2. CASE k \in F
        BY <2>4, <4>2
      <4>3. CASE k \notin F
        BY <1>1, <1>2, <1>4, <2>1, <2>3, <2>8, <4>1, <4>3 DEF FlagsIn
      <4> QED BY <4>2, <4>3
    <3> QED BY <3>1, <3>2
  <2> QED BY <2>5, <2>6, <2>7, <2>8 DEF NotLost
<1>9. FlagsIn(j, g[j])'
  <2>1. j \in done'
    BY <1>1
  <2>2. j \in running' => g[j] # {}
    BY <1>5, <1>6 DEF FlagsIn, Ran, Skipped
  <2>3. queue'[j] > 0 => deps[j] \subseteq done'
    BY <1>1, <1>2, <1>4, <1>6 DEF FlagsIn, Skipped
  <2>4. g[j] # {} => j \in ran /\ deps[j] \subseteq done' \cap ran
    BY <1>1, <1>6 DEF FlagsIn
  <2>5. j \notin ran => j \in cancelled /\ notify[j] \subseteq cancelled
    BY <1>5, <1>6 DEF FlagsIn, Ran, Skipped
  <2>6. j \in cancelled => j \in done' \cup running'
    BY <2>1
  <2> QED BY <2>1, <2>2, <2>3, <2>4, <2>5, <2>6 DEF FlagsIn
<1>10. ASSUME Single(j)' PROVE OnceIn(j, g[j])'
  <2>1. OnceIn(j, f[j])
    BY <1>10 DEF JobsInv, Single
  <2>2. j \notin F
    BY <1>2, <1>3, <1>5, <1>6, <2>1 DEF OnceIn, FlagsIn, Ran, Skipped
  <2>3. g[j] = {}
    BY <1>4, <1>5, <1>6, <2>1 DEF OnceIn, FlagsIn, Ran, Skipped
  <2> QED BY <1>1, <1>4, <2>1, <2>2, <2>3 DEF OnceIn, Skipped
<1>11. NotLost(j, g[j])'
  BY <1>1 DEF NotLost
<1> QED BY <1>6, <1>7, <1>8, <1>9, <1>10, <1>11 DEF JobsInv

\* cancelJob().
LEMMA JobCancelled ==
  ASSUME JobTypes, NEW f, NEW g, JobsInv(f), NEW j \in Jobs, j \in attached,
         Cancel({j}, notify),
         UNCHANGED <<attached, deps, notify, pending, queued, running, queue, ran>>,
         \A k \in Jobs : g[k] = f[k]
  PROVE  JobsInv(g)'
<1> DEFINE C == CancelSet({j}, notify)
<1>1. cancelled' = cancelled \cup C /\ done' = done \cup {k \in C : Live(k)}
  BY DEF Cancel
<1>2. C \subseteq Jobs /\ \A k \in C : Live(k) => notify[k] \subseteq C
  <2>1. notify \in [Jobs -> SUBSET Jobs] /\ {j} \in SUBSET Jobs
    BY DEF JobTypes
  <2> HIDE DEF C
  <2>2. C = CancelSet({j}, notify)
    BY DEF C
  <2> QED BY <2>1, <2>2, CancelSetFacts
<1>3. C \subseteq attached
  <2> DEFINE T == attached \cap Jobs
  <2>1. \A k \in T : notify[k] \subseteq T
    BY DEF JobsInv, Links, UntouchedIn, JobTypes
  <2>2. {j} \subseteq T
    OBVIOUS
  <2> HIDE DEF T
  <2>3. C \subseteq T
    BY <2>1, <2>2, CancelSetLeast DEF T
  <2> QED BY <2>3 DEF T
<1> HIDE DEF C
<1>4. Links'
  BY DEF JobsInv, Links
<1>5. ASSUME NEW k \in Jobs
      PROVE  /\ k \notin attached' => UntouchedIn(k, g[k])'
             /\ FlagsIn(k, g[k])'
             /\ Single(k)' => OnceIn(k, g[k])'
             /\ k \in attached' => NotLost(k, g[k])'
  <2>1. /\ k \notin attached => UntouchedIn(k, f[k])
        /\ FlagsIn(k, f[k])
        /\ Single(k) => OnceIn(k, f[k])
        /\ k \in attached => NotLost(k, f[k])
        /\ g[k] = f[k]
    BY DEF JobsInv
  <2>2. FlagsIn(k, g[k])'
    BY <1>1, <1>2, <2>1 DEF FlagsIn, Live
  <2>3. ASSUME k \in attached, deps[k] \subseteq done', k \notin done'
        PROVE  queue[k] > 0 \/ g[k] # {}
    <3>1. CASE deps[k] \subseteq done
      BY <1>1, <2>1, <2>3, <3>1 DEF NotLost
    <3>2. CASE ~(deps[k] \subseteq done)
      <4>1. PICK d \in deps[k] : d \in C /\ Live(d)
        BY <1>1, <2>3, <3>2
      <4>2. d \in Jobs /\ k \in notify[d]
        BY <4>1 DEF JobsInv, Links, JobTypes
      <4>3. k \in C /\ ~Live(k) /\ k \notin done
        BY <1>1, <1>2, <2>3, <4>1, <4>2
      <4> QED BY <2>1, <4>3 DEF Live, FlagsIn
    <3> QED BY <3>1, <3>2
  <2>4. k \notin attached' => UntouchedIn(k, g[k])'
    BY <1>1, <1>3, <2>1 DEF UntouchedIn
  <2>5. Single(k)' => OnceIn(k, g[k])'
    BY <1>1, <2>1 DEF OnceIn, Single, Live
  <2> QED BY <2>2, <2>3, <2>4, <2>5 DEF NotLost
<1> QED BY <1>4, <1>5 DEF JobsInv

\* What AttachJobs does to done, cancelled and pending: if a dependency has been
\* cancelled, the new jobs are all that is cancelled, since nothing depends on
\* them.
LEMMA AttachFacts ==
  ASSUME JobTypes, NEW f, JobsInv(f), NEW js, NEW ds, CanAttach(js, ds),
         AttachJobs(js, ds)
  PROVE  /\ attached' = attached \cup js
         /\ queued' = queued \cup FreedNow(ds)
         /\ \A j \in Jobs :
              /\ deps'[j] = IF j \in js THEN ds ELSE deps[j]
              /\ notify'[j] = IF j \in ds THEN notify[j] \cup js ELSE notify[j]
         /\ deps' \in [Jobs -> SUBSET Jobs] /\ notify' \in [Jobs -> SUBSET Jobs]
         /\ \A j \in js : UntouchedIn(j, f[j]) /\ notify'[j] = {} /\ j \notin ds
         /\ \/ /\ ds \cap cancelled # {}
               /\ cancelled' = cancelled \cup js /\ done' = done \cup js
               /\ pending' = pending /\ queue' = Push(queue, FreedNow(ds))
            \/ /\ ds \cap cancelled = {}
               /\ cancelled' = cancelled /\ done' = done
               /\ pending' = pending \cup (js \ ReadyNow(js))
               /\ queue' = Push(Push(queue, FreedNow(ds)), ReadyNow(js))
<1> USE DEF CanAttach
<1>1. /\ deps' = [j \in Jobs |-> IF j \in js THEN deps[j] \cup ds ELSE deps[j]]
      /\ notify' = [d \in Jobs |-> IF d \in ds THEN notify[d] \cup js
                                              ELSE notify[d]]
      /\ queued' = queued \cup FreedNow(ds) /\ attached' = attached \cup js
  BY DEF AttachJobs
<1>2. \A j \in js : UntouchedIn(j, f[j]) /\ notify[j] = {} /\ Live(j) /\ j \notin ds
  BY DEF JobsInv, Links, UntouchedIn, Live, JobTypes
<1>3. \A j \in Jobs :
        /\ deps'[j] = IF j \in js THEN ds ELSE deps[j]
        /\ notify'[j] = IF j \in ds THEN notify[j] \cup js ELSE notify[j]
  BY <1>1, <1>2 DEF UntouchedIn
<1>4. /\ deps' \in [Jobs -> SUBSET Jobs] /\ notify' \in [Jobs -> SUBSET Jobs]
      /\ \A j \in js : notify'[j] = {}
  BY <1>1, <1>2, <1>3 DEF JobTypes
<1>5. CancelSet(js, notify') = js
  <2>1. js \subseteq CancelSet(js, notify')
    BY <1>4, CancelSetFacts
  <2>2. CancelSet(js, notify') \subseteq js
    BY <1>4, CancelSetLeast
  <2> QED BY <2>1, <2>2
<1>6. \/ /\ ds \cap cancelled # {} /\ Cancel(js, notify')
         /\ pending' = pending /\ queue' = Push(queue, FreedNow(ds))
      \/ /\ ds \cap cancelled = {}
         /\ cancelled' = cancelled /\ done' = done
         /\ pending' = pending \cup (js \ ReadyNow(js))
         /\ queue' = Push(Push(queue, FreedNow(ds)), ReadyNow(js))
  BY Zenon DEF AttachJobs
<1>7. ASSUME Cancel(js, notify')
      PROVE  cancelled' = cancelled \cup js /\ done' = done \cup js
  <2>1. /\ cancelled' = cancelled \cup CancelSet(js, notify')
        /\ done' = done \cup {j \in CancelSet(js, notify') : Live(j)}
    BY <1>7 DEF Cancel
  <2> QED BY <1>2, <1>5, <2>1
<1> QED BY <1>1, <1>2, <1>3, <1>4, <1>6, <1>7

\* startJob and scheduleJob.
LEMMA JobsScheduled ==
  ASSUME JobTypes, NEW f, NEW g, JobsInv(f), NEW js, NEW ds, CanAttach(js, ds),
         AttachJobs(js, ds), UNCHANGED <<running, ran>>,
         \A j \in Jobs : g[j] = f[j]
  PROVE  JobsInv(g)'
<1> DEFINE F == FreedNow(ds)
           R == ReadyNow(js)
           Cancels == /\ ds \cap cancelled # {}
                      /\ cancelled' = cancelled \cup js
                      /\ done' = done \cup js /\ pending' = pending
           Attaches == /\ ds \cap cancelled = {}
                       /\ cancelled' = cancelled /\ done' = done
                       /\ pending' = pending \cup (js \ R)
<1>1. /\ attached' = attached \cup js /\ queued' = queued \cup F
      /\ \A j \in Jobs :
           /\ deps'[j] = IF j \in js THEN ds ELSE deps[j]
           /\ notify'[j] = IF j \in ds THEN notify[j] \cup js ELSE notify[j]
      /\ notify' \in [Jobs -> SUBSET Jobs]
      /\ \A j \in js : UntouchedIn(j, f[j]) /\ notify'[j] = {} /\ j \notin ds
  BY AttachFacts
<1>2. \/ Cancels /\ queue' = Push(queue, F)
      \/ Attaches /\ queue' = Push(Push(queue, F), R)
  BY AttachFacts
<1> USE DEF CanAttach
<1>3. \A j \in F : /\ j \in Jobs /\ j \notin queued /\ deps'[j] # {}
                   /\ deps'[j] \subseteq done /\ j \notin cancelled
                   /\ j \in js \/ j \in attached
  BY <1>1 DEF FreedNow, Freed, JobsInv, Links, UntouchedIn, JobTypes
<1>4. R \subseteq js /\ \A j \in R : deps'[j] \subseteq done
  BY DEF ReadyNow
<1>5. \A j \in Jobs :
        /\ queue[j] \in Nat /\ queue'[j] \in Nat
        /\ queue'[j] = (IF j \in F THEN queue[j] + 1 ELSE queue[j])
                       + (IF j \in R /\ Attaches THEN 1 ELSE 0)
  <2>1. queue \in [Jobs -> Nat] /\ F \in SUBSET Jobs /\ R \in SUBSET Jobs
    BY <1>3, <1>4 DEF JobTypes
  <2>2. Cancels => ~Attaches
    OBVIOUS
  <2> HIDE DEF F, R
  <2> DEFINE q == Push(queue, F)
  <2>3. /\ q \in [Jobs -> Nat]
        /\ \A j \in Jobs : q[j] = IF j \in F THEN queue[j] + 1 ELSE queue[j]
    BY <2>1, PushFacts
  <2> HIDE DEF q
  <2>4. /\ Push(q, R) \in [Jobs -> Nat]
        /\ \A j \in Jobs : Push(q, R)[j] = IF j \in R THEN q[j] + 1 ELSE q[j]
    BY <2>1, <2>3, PushFacts
  <2>5. \/ Cancels /\ queue' = q
        \/ Attaches /\ queue' = Push(q, R)
    BY <1>2 DEF q
  <2> HIDE DEF Cancels, Attaches
  <2> QED BY <1>4, <2>1, <2>2, <2>3, <2>4, <2>5
<1>6. ReadyNow(js) = {j \in js : deps'[j] \subseteq done}
  BY DEF ReadyNow
<1> HIDE DEF F, R
<1>7. Links'
  <2>1. ASSUME NEW d \in Jobs, NEW n \in Jobs
        PROVE  n \in notify'[d] <=> d \in deps'[n]
    <3>1. n \in notify[d] <=> d \in deps[n]
      BY DEF JobsInv, Links
    <3>2. n \in js => deps[n] = {}
      BY <1>1 DEF UntouchedIn
    <3> QED BY <1>1, <2>1, <3>1, <3>2
  <2>2. \A j \in Jobs : deps'[j] \subseteq attached'
    BY <1>1 DEF JobsInv, Links
  <2> QED BY <2>1, <2>2 DEF Links
<1>8. ASSUME NEW j \in js
      PROVE  /\ FlagsIn(j, g[j])' /\ NotLost(j, g[j])'
             /\ Single(j)' => OnceIn(j, g[j])'
  <2>1. j \in Jobs /\ UntouchedIn(j, f[j]) /\ g[j] = {} /\ notify'[j] = {}
    BY <1>1 DEF UntouchedIn
  <2>2. FlagsIn(j, g[j])'
    <3>1. j \in F \cup R => deps'[j] \subseteq done'
      BY <1>2, <1>3, <1>4
    <3>2. queue'[j] > 0 => j \in F \cup R
      BY <1>5, <2>1 DEF UntouchedIn
    <3>3. j \in queued' => queue'[j] > 0
      BY <1>1, <1>5, <2>1 DEF UntouchedIn
    <3> QED BY <1>2, <2>1, <3>1, <3>2, <3>3 DEF FlagsIn, UntouchedIn
  <2>3. ASSUME deps'[j] \subseteq done', j \notin done' PROVE queue'[j] > 0
    <3>1. Attaches /\ j \in R
      BY <1>2, <2>3 DEF R, ReadyNow
    <3> QED BY <1>5, <2>1, <3>1
  <2>4. ASSUME Single(j)' PROVE OnceIn(j, g[j])'
    <3>1. deps'[j] = {} \/ (Attaches /\ j \notin R)
      BY <1>2, <2>1, <2>4 DEF Single, UntouchedIn
    <3>2. j \notin F
      <4>1. j \in F => j \in R /\ deps'[j] # {}
        BY <1>3 DEF R, ReadyNow
      <4> QED BY <3>1, <4>1
    <3>3. j \in pending' => queue'[j] = 0
      BY <1>2, <1>5, <2>1, <3>2 DEF UntouchedIn
    <3> QED BY <1>5, <2>1, <3>2, <3>3 DEF OnceIn, UntouchedIn
  <2> QED BY <2>2, <2>3, <2>4 DEF NotLost
<1>9. ASSUME NEW j \in Jobs \ js
      PROVE  /\ j \notin attached' => UntouchedIn(j, g[j])'
             /\ FlagsIn(j, g[j])'
             /\ Single(j)' => OnceIn(j, g[j])'
             /\ j \in attached' => NotLost(j, g[j])'
  <2>1. /\ j \notin attached => UntouchedIn(j, f[j])
        /\ FlagsIn(j, f[j])
        /\ Single(j) => OnceIn(j, f[j])
        /\ j \in attached => NotLost(j, f[j])
        /\ g[j] = f[j]
    BY DEF JobsInv
  <2>2. deps'[j] = deps[j] /\ (j \in attached' <=> j \in attached)
    BY <1>1
  <2>3. queue'[j] = IF j \in F THEN queue[j] + 1 ELSE queue[j]
    BY <1>4, <1>5
  <2>4. /\ j \in done' <=> j \in done
        /\ j \in cancelled' <=> j \in cancelled
        /\ j \in pending' <=> j \in pending
        /\ done \subseteq done' /\ cancelled \subseteq cancelled'
    BY <1>2
  <2>5. j \notin attached' => UntouchedIn(j, g[j])'
    BY <1>1, <1>3, <2>1, <2>2, <2>3, <2>4 DEF UntouchedIn
  <2>6. FlagsIn(j, g[j])'
    <3>1. j \in done \ ran => j \in cancelled' /\ notify'[j] \subseteq cancelled'
      BY <1>1, <1>2, <2>1 DEF FlagsIn
    <3>2. queue'[j] > 0 => deps[j] \subseteq done'
      BY <1>3, <1>5, <2>1, <2>2, <2>3, <2>4 DEF FlagsIn
    <3>3. j \in queued' => queue'[j] > 0 \/ g[j] # {} \/ j \in done'
      BY <1>1, <1>5, <2>1, <2>3, <2>4 DEF FlagsIn
    <3> QED BY <2>1, <2>2, <2>4, <3>1, <3>2, <3>3 DEF FlagsIn
  <2>7. ASSUME Single(j)' PROVE OnceIn(j, g[j])'
    <3>1. Single(j) /\ OnceIn(j, f[j])
      BY <2>1, <2>2, <2>4, <2>7 DEF Single
    <3>2. CASE j \in F
      <4>1. j \in pending \ queued
        BY <1>3, <2>2, <3>1, <3>2 DEF Single
      <4>2. queue'[j] = 1 /\ j \notin ran /\ f[j] = {} /\ j \in queued'
        BY <1>1, <2>1, <2>3, <3>1, <3>2, <4>1 DEF OnceIn, FlagsIn
      <4> QED BY <2>1, <4>2 DEF OnceIn
    <3>3. CASE j \notin F
      BY <1>1, <2>1, <2>3, <2>4, <3>1, <3>3 DEF OnceIn
    <3> QED BY <3>2, <3>3
  <2>8. j \in attached' => NotLost(j, g[j])'
    <3>1. ASSUME j \in attached, deps[j] \subseteq done' PROVE deps[j] \subseteq done
      BY <1>1, <1>2, <2>2, <3>1 DEF JobsInv, Links
    <3> QED BY <1>5, <2>1, <2>2, <2>3, <2>4, <3>1 DEF NotLost
  <2> QED BY <2>5, <2>6, <2>7, <2>8
<1>10. ASSUME NEW j \in Jobs
       PROVE  /\ j \notin attached' => UntouchedIn(j, g[j])'
              /\ FlagsIn(j, g[j])'
              /\ Single(j)' => OnceIn(j, g[j])'
              /\ j \in attached' => NotLost(j, g[j])'
  BY <1>1, <1>8, <1>9, Zenon
<1> QED BY <1>7, <1>10 DEF JobsInv

-----------------------------------------------------------------------------
\* Types.

LEMMA TypeInit == Init => TypeOK /\ WorkerJob
<1> SUFFICES ASSUME Init PROVE TypeOK /\ WorkerJob
  OBVIOUS
<1>1. req \in [Threads -> [jobs : SUBSET Jobs, deps : SUBSET Jobs]]
  BY DEF Init, GraphInit, NoRequest
<1>2. myQueue \in [Workers -> Seq(ExecJobs)]
  BY DEF Init, GraphInit
<1>3. WorkerJob
  BY DEF Init, GraphInit, WorkerJob
<1> QED BY <1>1, <1>2, <1>3 DEF Init, GraphInit, TypeOK

LEMMA TypeExecute ==
  ASSUME TypeOK, WorkerJob, NEW w \in Workers, NEW j \in AllJobs,
         NEW q \in [Jobs -> Nat], Execute(w, j, q),
         myQueue' \in [Workers -> Seq(ExecJobs)]
  PROVE  TypeOK' /\ WorkerJob'
<1>1. PICK S \in WokenBy(IF NotEmpty(q) THEN 1 ELSE 0) :
        pc' = [Awake(S) EXCEPT ![w] = "exec"]
  BY DEF Execute
<1>2. S \subseteq Asleep
  BY WokenSubset
<1>3. pc' \in [Workers -> {"top", "asleep", "exec", "exited"}] /\ WorkerJob'
  BY <1>1, <1>2 DEF Execute, TypeOK, WorkerJob, Awake, Asleep
<1>4. UNCHANGED <<call, target, req, respAsleep, attached, deps, notify,
                  pending, seen, queued, done, cancelled, shuttingDown, counter>>
  BY DEF Execute, callVars, graphVars, closeVars
<1> QED BY <1>3, <1>4 DEF Execute, TypeOK

LEMMA TypeComplete ==
  ASSUME TypeOK, WorkerJob, NEW w \in Workers, NEW j \in AllJobs,
         NEW q \in [Jobs -> Nat], NEW n, Complete(w, j, q, n),
         running' \subseteq AllJobs
  PROVE  TypeOK' /\ WorkerJob'
<1>1. PICK S \in SUBSET Asleep : pc' = [Awake(S) EXCEPT ![w] = "top"]
  BY CompleteFacts
<1>2. FreedBy(j) \subseteq Jobs
  BY DEF FreedBy, Freed, TypeOK
<1>3. pc' \in [Workers -> {"top", "asleep", "exec", "exited"}] /\ WorkerJob'
  BY <1>1, CompleteFacts DEF TypeOK, WorkerJob, Awake, Asleep
<1>4. respAsleep' \subseteq Threads
  BY DEF Complete, SignalResponse, TypeOK
<1>5. queue' \in [Jobs -> Nat]
  BY <1>2, CompleteFacts, PushFacts
<1>6. UNCHANGED <<call, target, req, attached, deps, notify, pending, seen,
                  cancelled, ran, myQueue, shuttingDown, counter>>
  BY CompleteFacts DEF callVars, graphVars, closeVars
<1>7. /\ done' = done \cup {j} /\ queued' = queued \cup FreedBy(j)
      /\ job' = [job EXCEPT ![w] = NoJob] /\ lock' = w
  BY CompleteFacts
<1>8. queued' \subseteq Jobs /\ done' \subseteq AllJobs
        /\ job' \in [Workers -> AllJobs \cup {NoJob}]
  BY <1>2, <1>7 DEF TypeOK
<1> QED BY <1>3, <1>4, <1>5, <1>6, <1>7, <1>8 DEF TypeOK

LEMMA TypeRound ==
  ASSUME TypeOK, WorkerJob, NEW w \in Workers, Round(w)
  PROVE  TypeOK' /\ WorkerJob'
<1>1. CASE ExitWorker(w)
  BY <1>1 DEF ExitWorker, SignalResponse, TypeOK, WorkerJob, callVars,
              graphVars, flagVars
<1>2. CASE RunOwn(w)
  <2>1. myQueue[w] \in Seq(ExecJobs) /\ myQueue[w] # <<>>
    BY <1>2 DEF RunOwn, TypeOK
  <2>2. Head(myQueue[w]) \in ExecJobs /\ Tail(myQueue[w]) \in Seq(ExecJobs)
    BY <2>1, HeadTailProperties
  <2>3. myQueue' \in [Workers -> Seq(ExecJobs)]
    BY <1>2, <2>2 DEF RunOwn, TypeOK
  <2>4. queue \in [Jobs -> Nat]
    BY DEF TypeOK
  <2> QED BY <1>2, <2>2, <2>3, <2>4, TypeExecute DEF RunOwn
<1>3. CASE RunGlobal(w)
  <2>1. PICK j \in Tops :
          LET q == [queue EXCEPT ![j] = @ - 1]
          IN \/ Execute(w, j, q) /\ UNCHANGED myQueue
             \/ Skip(w, j, q)
    BY <1>3 DEF RunGlobal, PopGlobal
  <2> DEFINE q == [queue EXCEPT ![j] = @ - 1]
  <2>2. j \in Jobs /\ q \in [Jobs -> Nat]
    BY DEF Tops, TypeOK
  <2>3. CASE Execute(w, j, q) /\ UNCHANGED myQueue
    BY <2>2, <2>3, TypeExecute DEF TypeOK
  <2>4. CASE Skip(w, j, q)
    BY <2>2, <2>4, TypeComplete DEF Skip, TypeOK
  <2> QED BY <2>1, <2>3, <2>4
<1>4. CASE Sleep(w)
  BY <1>4 DEF Sleep, TypeOK, WorkerJob, callVars, graphVars, flagVars, closeVars
<1>5. CASE Finish(w)
  <2>1. job[w] \in AllJobs /\ queue \in [Jobs -> Nat] /\ running' \subseteq AllJobs
    BY <1>5 DEF Finish, TypeOK, WorkerJob
  <2> QED BY <1>5, <2>1, TypeComplete DEF Finish
<1> QED BY <1>1, <1>2, <1>3, <1>4, <1>5 DEF Round

\* The critical section of scheduleJob without its abbreviations.  It either
\* cancels the jobs or attaches them.
LEMMA ScheduleFacts ==
  ASSUME NEW t, NEW js, NEW ds, js = req[t].jobs, ds = req[t].deps, Schedule(t)
  PROVE  /\ call[t] = "schedule"
         /\ deps' = [j \in Jobs |-> IF j \in js THEN deps[j] \cup ds ELSE deps[j]]
         /\ notify' = [d \in Jobs |-> IF d \in ds THEN notify[d] \cup js
                                                 ELSE notify[d]]
         /\ queued' = queued \cup FreedNow(ds) /\ attached' = attached \cup js
         /\ \/ /\ ds \cap cancelled # {}
               /\ cancelled' = cancelled \cup CancelSet(js, notify')
               /\ done' = done \cup {j \in CancelSet(js, notify') : Live(j)}
               /\ queue' = Push(queue, FreedNow(ds))
               /\ UNCHANGED pending
            \/ /\ ds \cap cancelled = {}
               /\ pending' = pending \cup (js \ ReadyNow(js))
               /\ queue' = Push(Push(queue, FreedNow(ds)), ReadyNow(js))
               /\ UNCHANGED <<done, cancelled>>
         /\ \E S \in SUBSET Asleep : pc' = Awake(S)
         /\ seen' = [j \in Jobs |-> IF j \in js THEN attached \cap ExecJobs
                                               ELSE seen[j]]
         /\ req' = [req EXCEPT ![t] = NoRequest]
         /\ call' = [call EXCEPT ![t] = "none"]
         /\ UNCHANGED <<lock, job, target, respAsleep, running, ran, myQueue,
                        shuttingDown, counter>>
<1>1. \E S \in SUBSET Asleep : pc' = Awake(S)
  <2>1. \E n : \E S \in WokenBy(n) : pc' = Awake(S)
    BY Zenon DEF Schedule
  <2> QED BY <2>1, WokenSubset
<1>2. /\ call[t] = "schedule"
      /\ deps' = [j \in Jobs |-> IF j \in js THEN deps[j] \cup ds ELSE deps[j]]
      /\ notify' = [d \in Jobs |-> IF d \in ds THEN notify[d] \cup js
                                              ELSE notify[d]]
      /\ queued' = queued \cup FreedNow(ds) /\ attached' = attached \cup js
  BY Zenon DEF Schedule, AttachJobs
<1>3. \/ /\ ds \cap cancelled # {}
         /\ cancelled' = cancelled \cup CancelSet(js, notify')
         /\ done' = done \cup {j \in CancelSet(js, notify') : Live(j)}
         /\ queue' = Push(queue, FreedNow(ds))
         /\ UNCHANGED pending
      \/ /\ ds \cap cancelled = {}
         /\ pending' = pending \cup (js \ ReadyNow(js))
         /\ queue' = Push(Push(queue, FreedNow(ds)), ReadyNow(js))
         /\ UNCHANGED <<done, cancelled>>
  BY Zenon DEF Schedule, AttachJobs, Cancel
<1>4. /\ seen' = [j \in Jobs |-> IF j \in js THEN attached \cap ExecJobs
                                            ELSE seen[j]]
      /\ req' = [req EXCEPT ![t] = NoRequest]
      /\ call' = [call EXCEPT ![t] = "none"]
      /\ UNCHANGED <<lock, job, target, respAsleep, running, ran, myQueue,
                     shuttingDown, counter>>
  BY Zenon DEF Schedule, Returns, Called, closeVars
<1> QED BY <1>1, <1>2, <1>3, <1>4

LEMMA TypeSchedule ==
  ASSUME TypeOK, WorkerJob, NEW t \in Threads, Schedule(t)
  PROVE  TypeOK' /\ WorkerJob'
<1> DEFINE js == req[t].jobs
           ds == req[t].deps
<1> HIDE DEF js, ds
<1>1. js \subseteq Jobs /\ ds \subseteq Jobs
  BY DEF TypeOK, js, ds
<1>2. deps' \in [Jobs -> SUBSET Jobs] /\ notify' \in [Jobs -> SUBSET Jobs]
  <2>1. /\ deps' = [j \in Jobs |-> IF j \in js THEN deps[j] \cup ds ELSE deps[j]]
        /\ notify' = [d \in Jobs |-> IF d \in ds THEN notify[d] \cup js
                                                ELSE notify[d]]
    BY ScheduleFacts DEF js, ds
  <2> QED BY <1>1, <2>1 DEF TypeOK
<1>3. FreedNow(ds) \subseteq Jobs /\ ReadyNow(js) \subseteq Jobs
  BY <1>1, <1>2 DEF FreedNow, Freed, ReadyNow
<1>4. CancelSet(js, notify') \subseteq Jobs
  BY <1>1, <1>2, CancelSetFacts
<1>5. queue' \in [Jobs -> Nat] /\ done' \subseteq AllJobs
        /\ cancelled' \subseteq Jobs /\ pending' \subseteq Jobs
  <2>1. Push(queue, FreedNow(ds)) \in [Jobs -> Nat]
    BY <1>3, PushFacts DEF TypeOK
  <2>2. Push(Push(queue, FreedNow(ds)), ReadyNow(js)) \in [Jobs -> Nat]
    BY <1>3, <2>1, PushFacts
  <2>3. CASE /\ cancelled' = cancelled \cup CancelSet(js, notify')
             /\ done' = done \cup {j \in CancelSet(js, notify') : Live(j)}
             /\ queue' = Push(queue, FreedNow(ds))
             /\ UNCHANGED pending
    BY <1>4, <2>1, <2>3 DEF TypeOK
  <2>4. CASE /\ pending' = pending \cup (js \ ReadyNow(js))
             /\ queue' = Push(Push(queue, FreedNow(ds)), ReadyNow(js))
             /\ UNCHANGED <<done, cancelled>>
    BY <1>1, <2>2, <2>4 DEF TypeOK
  <2> QED BY <2>3, <2>4, ScheduleFacts DEF js, ds
<1>6. pc' \in [Workers -> {"top", "asleep", "exec", "exited"}] /\ WorkerJob'
  <2>1. job' = job /\ \E S \in SUBSET Asleep : pc' = Awake(S)
    BY ScheduleFacts
  <2> QED BY <2>1 DEF TypeOK, WorkerJob, Awake, Asleep
<1>7. /\ queued' = queued \cup FreedNow(ds) /\ attached' = attached \cup js
      /\ seen' = [j \in Jobs |-> IF j \in js THEN attached \cap ExecJobs
                                            ELSE seen[j]]
      /\ req' = [req EXCEPT ![t] = NoRequest]
      /\ call' = [call EXCEPT ![t] = "none"]
      /\ UNCHANGED <<lock, job, target, respAsleep, running, ran, myQueue,
                     shuttingDown, counter>>
  BY ScheduleFacts DEF js, ds
<1>8. queued' \subseteq Jobs /\ attached' \subseteq AllJobs
        /\ seen' \in [Jobs -> SUBSET ExecJobs]
        /\ req' \in [Threads -> [jobs : SUBSET Jobs, deps : SUBSET Jobs]]
        /\ call' \in [Threads -> {"none", "schedule", "wait", "drain", "stop",
                                  "join"}]
  BY <1>1, <1>3, <1>7 DEF TypeOK, NoRequest
<1> QED BY <1>2, <1>5, <1>6, <1>7, <1>8 DEF TypeOK

LEMMA TypeContinue ==
  ASSUME TypeOK, WorkerJob, NEW t \in Threads, Continue(t)
  PROVE  TypeOK' /\ WorkerJob'
<1> USE DEF Returns, Called, callVars, graphVars, flagVars, closeVars
<1>1. CASE Schedule(t)
  BY <1>1, TypeSchedule
<1>2. CASE WaitDone(t) \/ WaitMore(t)
  BY <1>2 DEF WaitDone, WaitMore, SignalResponse, TypeOK, WorkerJob
<1>3. CASE Shutdown(t)
  <2>1. /\ pc' = pc \/ pc' = Awake(Asleep)
        /\ respAsleep' = respAsleep \/ respAsleep' = respAsleep \cup {t}
        /\ call' = call \/ \E c \in {"stop", "join"} :
                             call' = [call EXCEPT ![t] = c]
        /\ shuttingDown' = shuttingDown \/ shuttingDown' = TRUE
        /\ UNCHANGED <<lock, job, target, req, graphVars, flagVars, myQueue,
                       counter>>
    BY <1>3 DEF Shutdown, ShutdownRound
  <2>2. pc' \in [Workers -> {"top", "asleep", "exec", "exited"}] /\ WorkerJob'
    BY <2>1 DEF Awake, Asleep, TypeOK, WorkerJob
  <2>3. call' \in [Threads -> {"none", "schedule", "wait", "drain", "stop",
                              "join"}]
    BY <2>1 DEF TypeOK
  <2> QED BY <2>1, <2>2, <2>3 DEF TypeOK
<1>4. CASE Join(t)
  BY <1>4 DEF Join, TypeOK, WorkerJob
<1> QED BY <1>1, <1>2, <1>3, <1>4 DEF Continue

LEMMA TypeBegin ==
  ASSUME TypeOK, WorkerJob, NEW t \in Threads, Begin(t)
  PROVE  TypeOK' /\ WorkerJob'
<1> USE DEF Called, callVars, graphVars, flagVars, closeVars
<1>1. ASSUME NEW js \in SUBSET Jobs, NEW ds \in SUBSET Jobs,
             ScheduleCheck(t, js, ds)
      PROVE  TypeOK' /\ WorkerJob'
  BY <1>1 DEF ScheduleCheck, TypeOK, WorkerJob
<1>2. ASSUME NEW j \in Jobs, CancelJob(t, j) PROVE TypeOK' /\ WorkerJob'
  <2>1. CancelSet({j}, notify) \subseteq Jobs
    BY DEF CancelSet
  <2>2. cancelled' \subseteq Jobs /\ done' \subseteq AllJobs
    BY <1>2, <2>1 DEF CancelJob, Cancel, TypeOK
  <2> QED BY <1>2, <2>2 DEF CancelJob, Cancel, TypeOK, WorkerJob
<1>3. ASSUME NEW j \in Jobs, WaitJob(t, j) PROVE TypeOK' /\ WorkerJob'
  BY <1>3 DEF WaitJob, TypeOK, WorkerJob
<1>4. ASSUME NEW e \in ExecJobs, BroadcastJob(t, e)
      PROVE  TypeOK' /\ WorkerJob'
  <2>1. \A w \in Workers : Append(myQueue[w], e) \in Seq(ExecJobs)
    BY AppendProperties DEF TypeOK
  <2> QED BY <1>4, <2>1 DEF BroadcastJob, TypeOK, WorkerJob
<1>5. ASSUME NEW wait \in CloseModes, CloseBegin(t, wait)
      PROVE  TypeOK' /\ WorkerJob'
  BY <1>5 DEF CloseBegin, TypeOK, WorkerJob
<1> QED BY <1>1, <1>2, <1>3, <1>4, <1>5 DEF Begin

LEMMA TypeNext == TypeOK /\ WorkerJob /\ [Next]_vars => TypeOK' /\ WorkerJob'
<1> SUFFICES ASSUME TypeOK, WorkerJob, [Next]_vars PROVE TypeOK' /\ WorkerJob'
  OBVIOUS
<1>1. CASE UNCHANGED vars
  BY <1>1 DEF vars, callVars, graphVars, flagVars, closeVars, TypeOK, WorkerJob
<1>2. CASE SpuriousWake
  BY <1>2 DEF SpuriousWake, Awake, Asleep, callVars, graphVars, flagVars,
              closeVars, TypeOK, WorkerJob
<1> QED BY <1>1, <1>2, TypeRound, TypeContinue, TypeBegin DEF Next

\* Type correctness of the scheduler.
THEOREM TypeCorrect == Spec => []TypeOK
<1>1. Spec => [](TypeOK /\ WorkerJob)
  BY TypeInit, TypeNext, PTL DEF Spec
<1> QED BY <1>1, PTL

-----------------------------------------------------------------------------
\* The requests of scheduleJob.

\* Only scheduleJob and threadPoolExec attach jobs, and only scheduleJob
\* changes requests.
LEMMA RequestsKept ==
  ASSUME RequestsHold, UNCHANGED req, attached \subseteq attached',
         attached' \cap Jobs = attached \cap Jobs, TypeOK,
         \A t \in Threads : call'[t] = "schedule" => call[t] = "schedule"
  PROVE  RequestsHold'
BY DEF RequestsHold, TypeOK

LEMMA RequestsSchedule ==
  ASSUME SoleScheduler, TypeOK, RequestsHold, NEW t \in Threads, Schedule(t)
  PROVE  RequestsHold'
<1> DEFINE js == req[t].jobs
<1>1. /\ call[t] = "schedule" /\ attached' = attached \cup js
      /\ req' = [req EXCEPT ![t] = NoRequest]
      /\ call' = [call EXCEPT ![t] = "none"]
  BY ScheduleFacts
<1>2. ASSUME NEW u \in Threads, call'[u] = "schedule"
      PROVE  u # t /\ req'[u] = req[u] /\ call[u] = "schedule"
  BY <1>1, <1>2 DEF TypeOK
<1>3. ASSUME NEW u \in Threads, call'[u] = "schedule", NEW j \in req[u].jobs
      PROVE  j \notin js
  BY <1>1, <1>2, <1>3 DEF RequestsHold, SoleScheduler, TypeOK
<1> QED BY <1>1, <1>2, <1>3 DEF RequestsHold

-----------------------------------------------------------------------------
\* The invariant about the jobs of this pool.

LEMMA JobInvNow ==
  ASSUME NEW f, \A j \in Jobs : f[j] = Executing(j), JobInv
  PROVE  JobsInv(f)
BY DEF JobInv, JobsInv, Graph, Untouched, Flags, FlagsOf, Once, OnceOf, NoLostJob,
       NotLost

LEMMA JobInvNext ==
  ASSUME NEW g, \A j \in Jobs : g[j] = Executing(j)', JobsInv(g)'
  PROVE  JobInv'
BY DEF JobInv, JobsInv, Graph, Untouched, Flags, FlagsOf, Once, OnceOf, NoLostJob,
       NotLost

\* Steps that leave all jobs in Jobs as they are.
LEMMA Quiet ==
  ASSUME TypeOK, JobInv,
         UNCHANGED <<deps, notify, pending, queued, cancelled, queue>>,
         attached' \cap Jobs = attached \cap Jobs,
         running' \cap Jobs = running \cap Jobs,
         done' \cap Jobs = done \cap Jobs,
         ran' \cap Jobs = ran \cap Jobs,
         \A j \in Jobs : Executing(j)' = Executing(j)
  PROVE  JobInv'
<1>1. PICK f, g : /\ f = [j \in Jobs |-> Executing(j)]
                  /\ g = [j \in Jobs |-> Executing(j)']
  OBVIOUS
<1>2. JobTypes /\ JobsInv(f)
  BY <1>1, JobInvNow DEF TypeOK, JobTypes
<1>3. \A j \in Jobs : g[j] = f[j]
  BY <1>1
<1>4. JobsInv(g)'
  BY <1>2, <1>3, JobsKept
<1> QED BY <1>1, <1>4, JobInvNext

\* A worker starts a job from the global queue.
LEMMA StartJob ==
  ASSUME TypeOK, WorkerJob, JobInv, NEW w \in Workers, NEW j \in Tops,
         pc[w] = "top", Execute(w, j, [queue EXCEPT ![j] = @ - 1])
  PROVE  JobInv'
<1>1. PICK f, g : /\ f = [k \in Jobs |-> Executing(k)]
                  /\ g = [k \in Jobs |-> Executing(k)']
  OBVIOUS
<1>2. JobTypes /\ JobsInv(f) /\ j \in Jobs
  BY <1>1, JobInvNow DEF TypeOK, JobTypes, Tops
<1>3. /\ j \notin cancelled /\ queue' = [queue EXCEPT ![j] = @ - 1]
      /\ running' = running \cup {j} /\ ran' = ran \cup {j}
      /\ UNCHANGED <<attached, deps, notify, pending, queued, done, cancelled>>
  BY DEF Execute, graphVars
<1>4. PICK S \in SUBSET Asleep : pc' = [Awake(S) EXCEPT ![w] = "exec"]
  <2>1. \E n : \E S \in WokenBy(n) : pc' = [Awake(S) EXCEPT ![w] = "exec"]
    BY Zenon DEF Execute
  <2> QED BY <2>1, WokenSubset
<1>5. Executing(j)' = Executing(j) \cup {w} /\ w \notin Executing(j)
  <2>1. job' = [job EXCEPT ![w] = j]
    BY DEF Execute
  <2>2. \A v \in Workers : v \in Executing(j)' <=> v \in Executing(j) \/ v = w
    BY <1>4, <2>1 DEF Executing, Awake, Asleep, TypeOK
  <2>3. Executing(j) \subseteq Workers /\ Executing(j)' \subseteq Workers
          /\ w \notin Executing(j)
    BY DEF Executing
  <2> QED BY <2>2, <2>3
<1>6. \A k \in Jobs \ {j} : Executing(k)' = Executing(k)
  BY <1>2, <1>4 DEF Execute, Executing, Awake, Asleep, TypeOK
<1>7. w \notin f[j] /\ g[j] = f[j] \cup {w} /\ \A k \in Jobs \ {j} : g[k] = f[k]
  BY <1>1, <1>2, <1>5, <1>6
<1>8. JobsInv(g)'
  BY <1>2, <1>3, <1>7, JobStarts
<1> QED BY <1>1, <1>8, JobInvNext

\* A round ends: the worker has executed j, or found it cancelled.
LEMMA CompleteJob ==
  ASSUME TypeOK, WorkerJob, JobInv, NEW w \in Workers, NEW j \in Jobs,
         NEW q \in [Jobs -> Nat], NEW n, Complete(w, j, q, n),
         \/ /\ pc[w] = "exec" /\ job[w] = j
            /\ q = queue /\ running' = running \ {j}
         \/ /\ pc[w] = "top" /\ j \in cancelled /\ queue[j] > 0
            /\ q = [queue EXCEPT ![j] = @ - 1] /\ running' = running
  PROVE  JobInv'
<1>1. PICK f, g : /\ f = [k \in Jobs |-> Executing(k)]
                  /\ g = [k \in Jobs |-> Executing(k)']
  OBVIOUS
<1>2. JobTypes /\ JobsInv(f)
  BY <1>1, JobInvNow DEF TypeOK, JobTypes
<1>3. EndJob(j, q) /\ UNCHANGED <<attached, deps, notify, pending, cancelled, ran>>
  BY CompleteFacts DEF EndJob, graphVars
<1>4. \A k \in Jobs : Executing(k)' = Executing(k) \ {w}
  <2>1. PICK S \in SUBSET Asleep : pc' = [Awake(S) EXCEPT ![w] = "top"]
    BY CompleteFacts
  <2>2. job' = [job EXCEPT ![w] = NoJob]
    BY CompleteFacts
  <2> QED BY <2>1, <2>2 DEF Executing, Awake, Asleep, TypeOK
<1>5. ASSUME NEW k \in Jobs \ {j} PROVE g[k] = f[k]
  <2>1. w \notin Executing(k)
    BY DEF Executing
  <2>2. Executing(k)' = Executing(k) \ {w}
    BY <1>4
  <2>3. Executing(k) \ {w} = Executing(k)
    BY <2>1
  <2> QED BY <1>1, <2>2, <2>3
<1>6. /\ g[j] = f[j] \ {w}
      /\ pc[w] = "exec" /\ job[w] = j => w \in f[j]
      /\ pc[w] = "top" => w \notin f[j]
  BY <1>1, <1>4 DEF Executing
<1>7. \/ /\ w \in f[j] /\ q = queue /\ running' = running \ {j}
      \/ /\ w \notin f[j] /\ j \in cancelled /\ queue[j] > 0
         /\ q = [queue EXCEPT ![j] = @ - 1] /\ running' = running
  BY <1>6, Zenon
<1>8. JobsInv(g)'
  BY <1>2, <1>3, <1>5, <1>6, <1>7, JobEnds
<1> QED BY <1>1, <1>8, JobInvNext

\* cancelJob().
LEMMA CancelAJob ==
  ASSUME TypeOK, JobInv, NEW t, NEW j \in Jobs, CancelJob(t, j)
  PROVE  JobInv'
<1>1. PICK f, g : /\ f = [k \in Jobs |-> Executing(k)]
                  /\ g = [k \in Jobs |-> Executing(k)']
  OBVIOUS
<1>2. JobTypes /\ JobsInv(f)
  BY <1>1, JobInvNow DEF TypeOK, JobTypes
<1>3. /\ j \in attached /\ Cancel({j}, notify)
      /\ UNCHANGED <<pc, job, attached, deps, notify, pending, queued, running,
                     queue, ran>>
  BY Zenon DEF CancelJob, graphVars
<1>4. \A k \in Jobs : g[k] = f[k]
  BY <1>1, <1>3 DEF Executing
<1>5. JobsInv(g)'
  BY <1>2, <1>3, <1>4, JobCancelled
<1> QED BY <1>1, <1>5, JobInvNext

\* scheduleJob().
LEMMA ScheduleJob ==
  ASSUME TypeOK, RequestsHold, JobInv, NEW t \in Threads, Schedule(t)
  PROVE  JobInv'
<1>1. PICK f, g, js, ds : /\ f = [k \in Jobs |-> Executing(k)]
                          /\ g = [k \in Jobs |-> Executing(k)']
                          /\ js = req[t].jobs /\ ds = req[t].deps
  OBVIOUS
<1>2. JobTypes /\ JobsInv(f)
  BY <1>1, JobInvNow DEF TypeOK, JobTypes
<1>3. call[t] = "schedule" /\ AttachJobs(js, ds) /\ UNCHANGED <<job, running, ran>>
  BY <1>1, Zenon DEF Schedule
<1>4. CanAttach(js, ds)
  BY <1>1, <1>3 DEF TypeOK, RequestsHold, CanAttach
<1>5. \A j \in Jobs : Executing(j)' = Executing(j)
  <2>1. PICK S \in SUBSET Asleep : pc' = Awake(S)
    BY ScheduleFacts
  <2> QED BY <1>3, <2>1 DEF Executing, Awake, Asleep, TypeOK
<1>6. \A j \in Jobs : g[j] = f[j]
  BY <1>1, <1>5
<1>7. JobsInv(g)'
  BY <1>2, <1>3, <1>4, <1>6, JobsScheduled
<1> QED BY <1>1, <1>7, JobInvNext

\* The other steps do nothing to the jobs in Jobs.
LEMMA QuietRound ==
  ASSUME TypeOK, WorkerJob, JobInv, NEW w \in Workers,
         ExitWorker(w) \/ RunOwn(w) \/ Sleep(w)
  PROVE  JobInv'
<1>1. CASE ExitWorker(w) \/ Sleep(w)
  <2>1. /\ UNCHANGED <<job, attached, deps, notify, pending, queued, running,
                       done, cancelled, queue, ran>>
        /\ pc[w] = "top" /\ \E p \in {"exited", "asleep"} : pc' = [pc EXCEPT ![w] = p]
    BY <1>1 DEF ExitWorker, Sleep, graphVars, flagVars
  <2>2. \A j \in Jobs : Executing(j)' = Executing(j)
    BY <2>1 DEF Executing, TypeOK
  <2> QED BY <2>1, <2>2, Quiet
<1>2. CASE RunOwn(w)
  <2> DEFINE e == Head(myQueue[w])
  <2>1. e \in ExecJobs
    <3>1. myQueue[w] \in Seq(ExecJobs) /\ myQueue[w] # <<>>
      BY <1>2 DEF RunOwn, TypeOK
    <3> QED BY <3>1, HeadTailProperties
  <2> HIDE DEF e
  <2>2. Execute(w, e, queue) /\ pc[w] = "top"
    BY <1>2 DEF RunOwn, e
  <2>3. /\ running' = running \cup {e} /\ ran' = ran \cup {e} /\ queue' = queue
        /\ job' = [job EXCEPT ![w] = e]
        /\ UNCHANGED <<attached, deps, notify, pending, queued, done, cancelled>>
    BY <2>2 DEF Execute, graphVars
  <2>4. PICK S \in SUBSET Asleep : pc' = [Awake(S) EXCEPT ![w] = "exec"]
    <3>1. \E n : \E S \in WokenBy(n) : pc' = [Awake(S) EXCEPT ![w] = "exec"]
      BY <2>2, Zenon DEF Execute
    <3> QED BY <3>1, WokenSubset
  <2>5. \A j \in Jobs : Executing(j)' = Executing(j)
    BY <2>1, <2>2, <2>3, <2>4 DEF Executing, Awake, Asleep, TypeOK
  <2> QED BY <2>1, <2>3, <2>5, Quiet
<1> QED BY <1>1, <1>2

\* execute() of an ExecJob, on which nothing depends, has returned.
LEMMA FinishExecJob ==
  ASSUME TypeOK, WorkerJob, JobInv, NEW w \in Workers, Finish(w),
         job[w] \in ExecJobs
  PROVE  JobInv'
<1> DEFINE e == job[w]
<1>1. Complete(w, e, queue, 0) /\ running' = running \ {e} /\ pc[w] = "exec"
  BY DEF Finish
<1>2. FreedBy(e) = {}
  BY DEF FreedBy, Freed
<1>3. queue' = queue
  <2>1. queue' = Push(queue, {}) /\ queue \in [Jobs -> Nat]
    BY <1>1, <1>2, CompleteFacts DEF TypeOK
  <2> QED BY <2>1 DEF Push
<1>4. /\ queued' = queued /\ done' = done \cup {e}
      /\ UNCHANGED <<attached, deps, notify, pending, cancelled, ran>>
  <2>1. queued' = queued \cup FreedBy(e)
    BY <1>1, CompleteFacts
  <2> QED BY <1>1, <1>2, <2>1, CompleteFacts DEF graphVars
<1>5. \A j \in Jobs : Executing(j)' = Executing(j)
  <2>1. PICK S \in SUBSET Asleep : pc' = [Awake(S) EXCEPT ![w] = "top"]
    BY <1>1, CompleteFacts
  <2>2. job' = [job EXCEPT ![w] = NoJob]
    BY <1>1, CompleteFacts
  <2> QED BY <1>1, <2>1, <2>2 DEF Executing, Awake, Asleep, TypeOK
<1> QED BY <1>1, <1>3, <1>4, <1>5, Quiet

-----------------------------------------------------------------------------
\* The invariant.

LEMMA InvInit == Init => IInv
<1> SUFFICES ASSUME Init PROVE IInv
  OBVIOUS
<1>1. TypeOK /\ WorkerJob
  BY TypeInit
<1>2. RequestsHold
  BY DEF Init, GraphInit, RequestsHold
<1>3. \A j \in Jobs : Untouched(j) /\ j \notin attached
  BY DEF Init, GraphInit, Untouched, UntouchedIn, Executing
<1>4. Graph
  BY <1>3 DEF Init, GraphInit, Graph, Links, Untouched, UntouchedIn
<1>5. Flags /\ Once /\ NoLostJob
  BY <1>3 DEF Flags, FlagsOf, FlagsIn, Once, Single, NoLostJob, Untouched, UntouchedIn
<1> QED BY <1>1, <1>2, <1>4, <1>5 DEF IInv, JobInv

LEMMA InvRound ==
  ASSUME IInv, NEW w \in Workers, Round(w)
  PROVE  RequestsHold' /\ JobInv'
<1>0. TypeOK /\ WorkerJob /\ RequestsHold /\ JobInv
  BY DEF IInv
<1>1. RequestsHold'
  <2>1. UNCHANGED <<req, call, attached>>
    BY DEF Round, ExitWorker, RunOwn, RunGlobal, PopGlobal, Sleep, Finish,
           Execute, Skip, Complete, callVars, graphVars
  <2> QED BY <1>0, <2>1, RequestsKept
<1>2. CASE RunGlobal(w)
  <2>1. PICK j \in Tops :
          LET q == [queue EXCEPT ![j] = @ - 1]
          IN \/ Execute(w, j, q) /\ UNCHANGED myQueue
             \/ Skip(w, j, q)
    BY <1>2 DEF RunGlobal, PopGlobal
  <2> DEFINE q == [queue EXCEPT ![j] = @ - 1]
  <2>2. j \in Jobs /\ queue[j] > 0 /\ q \in [Jobs -> Nat] /\ pc[w] = "top"
    BY <1>0, <1>2 DEF RunGlobal, PopGlobal, Tops, TypeOK
  <2>3. CASE Execute(w, j, q)
    BY <1>0, <1>1, <2>2, <2>3, StartJob
  <2>4. CASE Skip(w, j, q)
    <3>1. /\ Complete(w, j, q, IF NotEmpty(q) THEN 1 ELSE 0)
          /\ j \in cancelled /\ running' = running
      BY <2>4 DEF Skip
    <3>2. q = [queue EXCEPT ![j] = @ - 1]
      OBVIOUS
    <3> HIDE DEF q
    <3> QED BY <1>0, <1>1, <2>2, <3>1, <3>2, CompleteJob
  <2> QED BY <2>1, <2>3, <2>4
<1>3. CASE Finish(w)
  <2>1. job[w] \in AllJobs /\ queue \in [Jobs -> Nat]
    BY <1>0, <1>3 DEF Finish, TypeOK, WorkerJob
  <2>2. /\ Complete(w, job[w], queue, 0) /\ pc[w] = "exec"
        /\ running' = running \ {job[w]}
    BY <1>3 DEF Finish
  <2>3. CASE job[w] \in Jobs
    BY <1>0, <1>1, <2>1, <2>2, <2>3, CompleteJob
  <2> QED BY <1>0, <1>1, <1>3, <2>1, <2>3, FinishExecJob
<1> QED BY <1>0, <1>1, <1>2, <1>3, QuietRound DEF Round

\* Steps that change no field of a job.
LEMMA Still ==
  ASSUME TypeOK, JobInv, UNCHANGED <<graphVars, flagVars>>,
         \A j \in Jobs : Executing(j)' = Executing(j)
  PROVE  JobInv'
BY Quiet DEF graphVars, flagVars

LEMMA InvContinue ==
  ASSUME SoleScheduler, IInv, NEW t \in Threads, Continue(t)
  PROVE  RequestsHold' /\ JobInv'
<1> USE DEF IInv
<1>1. CASE Schedule(t)
  BY <1>1, RequestsSchedule, ScheduleJob
<1>2. CASE WaitDone(t) \/ WaitMore(t) \/ Shutdown(t) \/ Join(t)
  <2>1. /\ UNCHANGED <<req, job, graphVars, flagVars>>
        /\ pc' = pc \/ pc' = Awake(Asleep)
    BY <1>2 DEF WaitDone, WaitMore, Shutdown, ShutdownRound, Join, callVars
  <2>2. \A u \in Threads : call'[u] = "schedule" => call[u] = "schedule"
    BY <1>2 DEF WaitDone, WaitMore, Shutdown, ShutdownRound, Join, Returns,
                Called, callVars, TypeOK
  <2>3. \A j \in Jobs : Executing(j)' = Executing(j)
    BY <2>1 DEF Executing, Awake, Asleep, TypeOK
  <2>4. JobInv'
    BY <2>1, <2>3, Still
  <2>5. RequestsHold'
    BY <2>1, <2>2, RequestsKept DEF graphVars
  <2> QED BY <2>4, <2>5
<1> QED BY <1>1, <1>2 DEF Continue

LEMMA InvBegin ==
  ASSUME IInv, NEW t \in Threads, Begin(t)
  PROVE  RequestsHold' /\ JobInv'
<1> USE DEF IInv
<1>1. ASSUME UNCHANGED <<pc, job>>
      PROVE  \A j \in Jobs : Executing(j)' = Executing(j)
  BY <1>1 DEF Executing
<1>2. ASSUME NEW js \in (SUBSET Jobs) \ {{}}, NEW ds \in SUBSET Jobs,
             ScheduleCheck(t, js, ds)
      PROVE  RequestsHold' /\ JobInv'
  <2>1. RequestsHold'
    BY <1>2 DEF ScheduleCheck, Called, graphVars, RequestsHold, TypeOK
  <2> QED BY <1>1, <1>2, <2>1, Still DEF ScheduleCheck
<1>3. ASSUME NEW j \in Jobs, CancelJob(t, j) PROVE RequestsHold' /\ JobInv'
  <2>1. RequestsHold'
    BY <1>3, RequestsKept DEF CancelJob, Cancel, callVars, graphVars
  <2> QED BY <1>3, <2>1, CancelAJob
<1>4. ASSUME \/ \E j \in Jobs : WaitJob(t, j)
             \/ \E wait \in CloseModes : CloseBegin(t, wait)
      PROVE  RequestsHold' /\ JobInv'
  <2>1. UNCHANGED <<req, pc, job, graphVars, flagVars>>
    BY <1>4 DEF WaitJob, CloseBegin
  <2>2. \A u \in Threads : call'[u] = "schedule" => call[u] = "schedule"
    BY <1>4 DEF WaitJob, CloseBegin, Called, TypeOK
  <2>3. RequestsHold'
    BY <2>1, <2>2, RequestsKept DEF graphVars
  <2> QED BY <1>1, <2>1, <2>3, Still
<1>5. ASSUME NEW e \in ExecJobs, BroadcastJob(t, e)
      PROVE  RequestsHold' /\ JobInv'
  <2>1. /\ attached' = attached \cup {e}
        /\ UNCHANGED <<req, call, pc, job, deps, notify, pending, flagVars>>
    BY <1>5 DEF BroadcastJob, callVars
  <2>2. attached' \cap Jobs = attached \cap Jobs
    BY <2>1
  <2>3. RequestsHold'
    BY <2>1, <2>2, RequestsKept
  <2> QED BY <1>1, <2>1, <2>2, <2>3, Quiet DEF flagVars
<1> QED BY <1>2, <1>3, <1>4, <1>5 DEF Begin

LEMMA InvNext ==
  ASSUME SoleScheduler, IInv, [Next]_vars
  PROVE  IInv'
<1>1. TypeOK' /\ WorkerJob'
  BY TypeNext DEF IInv
<1>2. CASE UNCHANGED vars
  <2>1. UNCHANGED <<req, call, pc, job, graphVars, flagVars>>
    BY <1>2 DEF vars, callVars
  <2>2. \A j \in Jobs : Executing(j)' = Executing(j)
    BY <2>1 DEF Executing
  <2>3. JobInv' /\ RequestsHold'
    BY <2>1, <2>2, Still, RequestsKept DEF graphVars, IInv
  <2> QED BY <1>1, <2>3 DEF IInv
<1>3. CASE SpuriousWake
  <2>1. /\ UNCHANGED <<req, call, job, graphVars, flagVars>>
        /\ pc' = pc \/ \E w \in Asleep : pc' = Awake({w})
    BY <1>3 DEF SpuriousWake, callVars
  <2>2. \A j \in Jobs : Executing(j)' = Executing(j)
    BY <2>1 DEF Executing, Awake, Asleep, IInv, TypeOK
  <2>3. JobInv'
    BY <2>1, <2>2, Still DEF IInv
  <2>4. RequestsHold'
    BY <2>1, RequestsKept DEF graphVars, IInv
  <2> QED BY <1>1, <2>3, <2>4 DEF IInv
<1> QED BY <1>1, <1>2, <1>3, InvRound, InvContinue, InvBegin DEF Next, IInv

\* If each job has one thread that may schedule it, IInv holds throughout.
THEOREM Invariance ==
  ASSUME SoleScheduler
  PROVE  Spec => []IInv
<1>1. IInv /\ [Next]_vars => IInv'
  BY InvNext
<1> QED BY <1>1, InvInit, PTL DEF Spec

\* No job whose dependencies are done is forgotten by notifyDeps(), attachJob()
\* or cancelJob(), in whatever order they see it.
THEOREM NothingLost ==
  ASSUME SoleScheduler
  PROVE  Spec => []NoLostJob
<1>1. IInv => NoLostJob
  BY DEF IInv, JobInv
<1> QED BY <1>1, Invariance, PTL

\* Whatever is cancelled, the dependencies whose results execute() reads without
\* the lock have been executed.  For those that were queued once, and only for
\* those, it follows that nobody is writing their results meanwhile.
THEOREM InputsExecuted ==
  ASSUME SoleScheduler
  PROVE  Spec => []InputsReady
<1>1. ASSUME IInv PROVE InputsReady
  <2> SUFFICES ASSUME NEW w \in Workers, pc[w] = "exec", job[w] \in Jobs,
                      NEW d \in deps[job[w]]
               PROVE  d \in ran /\ d \in done /\ (Single(d) => Executing(d) = {})
    BY DEF InputsReady
  <2>1. w \in Executing(job[w]) /\ FlagsOf(job[w])
    BY <1>1 DEF Executing, IInv, JobInv, Flags
  <2>2. d \in ran /\ d \in done
    BY <2>1 DEF FlagsOf, FlagsIn
  <2>3. d \in Jobs
    BY <1>1 DEF IInv, TypeOK
  <2>4. Single(d) => OnceOf(d)
    BY <1>1, <2>3 DEF IInv, JobInv, Once
  <2> QED BY <2>2, <2>4 DEF OnceOf, OnceIn
<1> QED BY <1>1, Invariance, PTL

\* What waitJob() returns as the result of a job is one.
THEOREM ResultsThere ==
  ASSUME SoleScheduler
  PROVE  Spec => []ResultReady
<1>1. IInv => ResultReady
  BY DEF IInv, JobInv, Flags, FlagsOf, FlagsIn, Once, OnceOf, OnceIn, ResultReady
<1> QED BY <1>1, Invariance, PTL

\* Only Execute() takes a worker to execute(), and it takes its job from a queue.
LEMMA StartFacts ==
  ASSUME TypeOK, Next, NEW w \in Workers, NEW j \in Jobs,
         pc[w] = "top", pc'[w] = "exec", job'[w] = j
  PROVE  queue[j] > 0
<1>1. ASSUME NEW v \in Workers, NEW k, NEW q, Execute(v, k, q) PROVE k = j
  <2>1. \E n : \E S \in WokenBy(n) : pc' = [Awake(S) EXCEPT ![v] = "exec"]
    BY <1>1, Zenon DEF Execute
  <2>2. v = w
    BY <2>1 DEF Awake
  <2> QED BY <1>1, <2>2 DEF Execute, TypeOK
<1>2. ASSUME NEW v, NEW k, NEW q, NEW n, Complete(v, k, q, n) PROVE FALSE
  <2>1. \E S \in SUBSET Asleep : pc' = [Awake(S) EXCEPT ![v] = "top"]
    BY <1>2, CompleteFacts
  <2> QED BY <2>1 DEF Awake
<1>3. ASSUME \/ pc' = pc \/ \E S : pc' = Awake(S)
             \/ \E v, p : p \in {"exited", "asleep"} /\ pc' = [pc EXCEPT ![v] = p]
      PROVE  FALSE
  BY <1>3 DEF Awake, TypeOK
<1>4. ASSUME NEW v \in Workers, Round(v) PROVE queue[j] > 0
  <2>1. CASE ExitWorker(v) \/ Sleep(v)
    BY <1>3, <2>1 DEF ExitWorker, Sleep
  <2>2. CASE RunOwn(v)
    <3>1. Head(myQueue[v]) \in ExecJobs
      <4>1. myQueue[v] \in Seq(ExecJobs) /\ myQueue[v] # <<>>
        BY <2>2 DEF RunOwn, TypeOK
      <4> QED BY <4>1, HeadTailProperties
    <3>2. Head(myQueue[v]) = j
      BY <1>1, <2>2 DEF RunOwn
    <3> QED BY <3>1, <3>2
  <2>3. CASE RunGlobal(v)
    <3>1. PICK k \in Tops : \E q : Execute(v, k, q) \/ Skip(v, k, q)
      BY <2>3, Zenon DEF RunGlobal, PopGlobal
    <3>2. k = j
      BY <1>1, <1>2, <3>1 DEF Skip
    <3> QED BY <3>2 DEF Tops
  <2>4. CASE Finish(v)
    BY <1>2, <2>4 DEF Finish
  <2> QED BY <1>4, <2>1, <2>2, <2>3, <2>4 DEF Round
<1>5. ASSUME NEW t \in Threads, Continue(t) PROVE FALSE
  <2>1. CASE Schedule(t)
    <3>1. \E S \in SUBSET Asleep : pc' = Awake(S)
      BY <2>1, ScheduleFacts
    <3> QED BY <1>3, <3>1
  <2>2. CASE WaitDone(t) \/ WaitMore(t) \/ Shutdown(t) \/ Join(t)
    BY <1>3, <2>2 DEF WaitDone, WaitMore, Shutdown, ShutdownRound, Join
  <2> QED BY <1>5, <2>1, <2>2 DEF Continue
<1>6. ASSUME NEW t \in Threads, Begin(t) PROVE FALSE
  BY <1>3, <1>6 DEF Begin, ScheduleCheck, CancelJob, Cancel, WaitJob, BroadcastJob,
                    CloseBegin
<1>7. SpuriousWake => FALSE
  BY <1>3 DEF SpuriousWake
<1> QED BY <1>4, <1>5, <1>6, <1>7 DEF Next

\* A job that is put into the queue once is executed once.
THEOREM NotTwice ==
  ASSUME SoleScheduler
  PROVE  Spec => ExecutedOnce
<1> DEFINE Step == \A w \in Workers, j \in Jobs :
                     pc[w] = "top" /\ pc'[w] = "exec" /\ job'[w] = j /\ Single(j)
                     => j \notin ran
<1>1. ASSUME IInv, [Next]_vars PROVE Step
  <2> SUFFICES ASSUME NEW w \in Workers, NEW j \in Jobs, Single(j),
                      pc[w] = "top", pc'[w] = "exec", job'[w] = j
               PROVE  j \notin ran
    OBVIOUS
  <2>1. TypeOK
    BY <1>1 DEF IInv
  <2>2. Next
    BY <1>1 DEF vars
  <2>3. queue[j] > 0
    BY <2>1, <2>2, StartFacts
  <2> QED BY <1>1, <2>3 DEF IInv, JobInv, Once, OnceOf, OnceIn
<1>2. IInv /\ [Next]_vars => [Step]_vars
  BY <1>1
<1> QED BY <1>2, Invariance, PTL DEF Spec, ExecutedOnce

-----------------------------------------------------------------------------
\* Wake-ups and the end of the pool, without any hypothesis about jobs.

Exited == {w \in Workers : pc[w] = "exited"}

\* A worker awake at the top of its loop looks into the queue before it sleeps.
AtTop == \E w \in Workers : pc[w] = "top"

WakeInv == TypeOK /\ WorkerJob /\ CloseInSync /\ SomeoneAwake

\* Sets of workers and of jobs are finite.
LEMMA FiniteParts ==
  /\ \A S \in SUBSET Workers : IsFiniteSet(S) /\ Cardinality(S) \in Nat
  /\ \A S \in SUBSET Jobs : IsFiniteSet(S) /\ Cardinality(S) \in Nat
  /\ \A S \in SUBSET Workers : Cardinality(S) = 0 <=> S = {}
  /\ \A S \in SUBSET Jobs : Cardinality(S) = 0 <=> S = {}
BY FS_Subset, FS_CardinalityType, FS_EmptySet

\* One signal is enough to wake somebody if anybody sleeps.
LEMMA Woken ==
  ASSUME NEW n \in Nat, NEW S \in WokenBy(n)
  PROVE  S \subseteq Asleep /\ (n > 0 /\ Asleep # {} => S # {})
<1>1. S \subseteq Asleep
        /\ Cardinality(S) = IF n < Cardinality(Asleep) THEN n
                                                       ELSE Cardinality(Asleep)
  BY DEF WokenBy
<1>2. Asleep \in SUBSET Workers /\ S \in SUBSET Workers
  BY <1>1 DEF Asleep
<1> QED BY <1>1, <1>2, FiniteParts

\* A step that lets the workers in S wake, and one worker go from the top of
\* the loop or from execute() to p.
Moves(S, w, p) == S \subseteq Asleep /\ pc' = [Awake(S) EXCEPT ![w] = p]

\* Steps by which no worker leaves the loop, and which put nobody to sleep and
\* nothing into the queue unless somebody is then at the top of the loop.
LEMMA WakeKept ==
  ASSUME TypeOK, CloseInSync, SomeoneAwake,
         Exited' = Exited, counter' = counter, Asleep' \subseteq Asleep,
         shuttingDown' => shuttingDown \/ Asleep' = {},
         \A t \in Threads : call'[t] = "join" =>
           call[t] = "join" \/ \A w \in Workers : pc[w] = "exited",
         \/ AtTop' \/ Asleep' = {}
         \/ (NotEmpty(queue') => NotEmpty(queue)) /\ (AtTop => AtTop')
  PROVE  CloseInSync' /\ SomeoneAwake'
<1>1. \A w \in Workers : pc[w] = "exited" <=> pc'[w] = "exited"
  BY DEF Exited
<1>2. CloseInSync'
  BY <1>1 DEF CloseInSync, Exited
<1>3. SomeoneAwake'
  BY DEF SomeoneAwake, AtTop
<1> QED BY <1>2, <1>3

LEMMA WakeExecute ==
  ASSUME WakeInv, NEW w \in Workers, NEW j, NEW q, pc[w] = "top",
         Execute(w, j, q), NotEmpty(q) => NotEmpty(queue)
  PROVE  CloseInSync' /\ SomeoneAwake'
<1> USE DEF WakeInv
<1>1. /\ queue' = q
      /\ UNCHANGED <<call, shuttingDown, counter>>
  BY DEF Execute, callVars, closeVars
<1>2. PICK S \in WokenBy(IF NotEmpty(q) THEN 1 ELSE 0) :
        pc' = [Awake(S) EXCEPT ![w] = "exec"]
  BY Zenon DEF Execute
<1>3. S \subseteq Asleep /\ (NotEmpty(q) /\ Asleep # {} => S # {})
  <2>1. (IF NotEmpty(q) THEN 1 ELSE 0) \in Nat
          /\ (NotEmpty(q) => (IF NotEmpty(q) THEN 1 ELSE 0) > 0)
    OBVIOUS
  <2> QED BY <2>1, Woken
<1>4. \A v \in Workers :
        pc'[v] = IF v = w THEN "exec" ELSE IF v \in S THEN "top" ELSE pc[v]
  BY <1>2 DEF Awake, TypeOK
<1>5. Exited' = Exited /\ Asleep' \subseteq Asleep
  BY <1>3, <1>4 DEF Exited, Asleep
<1>6. S # {} => AtTop'
  BY <1>3, <1>4 DEF AtTop, Asleep
<1>7. NotEmpty(queue') => AtTop' \/ Asleep' = {}
  BY <1>1, <1>3, <1>5, <1>6
<1>8. CloseInSync' /\ SomeoneAwake'
  <2>1. CloseInSync'
    BY <1>1, <1>4, <1>5 DEF CloseInSync, Exited, Asleep
  <2>2. SomeoneAwake'
    BY <1>7 DEF SomeoneAwake, AtTop
  <2> QED BY <2>1, <2>2
<1> QED BY <1>8

LEMMA WakeComplete ==
  ASSUME WakeInv, NEW w \in Workers, pc[w] \in {"top", "exec"}, NEW j, NEW q,
         NEW n, Complete(w, j, q, n)
  PROVE  CloseInSync' /\ SomeoneAwake'
<1> USE DEF WakeInv
<1>1. PICK S \in SUBSET Asleep : pc' = [Awake(S) EXCEPT ![w] = "top"]
  BY CompleteFacts
<1>2. UNCHANGED <<call, shuttingDown, counter>>
  BY CompleteFacts DEF callVars, closeVars
<1>3. \A v \in Workers :
        pc'[v] = IF v = w \/ v \in S THEN "top" ELSE pc[v]
  BY <1>1 DEF Awake, TypeOK
<1>4. Exited' = Exited /\ Asleep' \subseteq Asleep /\ AtTop'
  BY <1>3 DEF Exited, Asleep, AtTop
<1> QED BY <1>2, <1>4, WakeKept

LEMMA WakeRound ==
  ASSUME WakeInv, NEW w \in Workers, Round(w)
  PROVE  CloseInSync' /\ SomeoneAwake'
<1> USE DEF WakeInv
<1>1. CASE ExitWorker(w)
  <2>1. /\ pc[w] = "top" /\ shuttingDown /\ counter' = counter + 1
        /\ pc' = [pc EXCEPT ![w] = "exited"]
        /\ UNCHANGED <<call, shuttingDown>>
    BY <1>1 DEF ExitWorker, callVars
  <2>2. Asleep = {} /\ Asleep' = {}
    BY <2>1 DEF CloseInSync, Asleep, TypeOK
  <2>3. Exited' = Exited \cup {w} /\ w \notin Exited
    BY <2>1 DEF Exited, TypeOK
  <2>4. Cardinality(Exited') = Cardinality(Exited) + 1
    BY <2>3, FiniteParts, FS_AddElement DEF Exited
  <2>5. CloseInSync'
    BY <2>1, <2>2, <2>4 DEF CloseInSync, Exited
  <2> QED BY <2>2, <2>5 DEF SomeoneAwake
<1>2. CASE RunOwn(w)
  BY <1>2, WakeExecute DEF RunOwn
<1>3. CASE RunGlobal(w)
  <2>1. PICK j \in Tops : LET q == [queue EXCEPT ![j] = @ - 1]
                          IN Execute(w, j, q) \/ Skip(w, j, q)
    BY <1>3, Zenon DEF RunGlobal, PopGlobal
  <2>2. pc[w] = "top" /\ NotEmpty(queue)
    BY <1>3, <2>1 DEF RunGlobal, PopGlobal, Tops, NotEmpty
  <2> QED BY <2>1, <2>2, WakeExecute, WakeComplete DEF Skip
<1>4. CASE Sleep(w)
  <2>1. /\ pc[w] = "top" /\ ~shuttingDown /\ ~NotEmpty(queue)
        /\ pc' = [pc EXCEPT ![w] = "asleep"]
        /\ UNCHANGED <<call, queue, shuttingDown, counter>>
    BY <1>4 DEF Sleep, callVars, flagVars, closeVars
  <2>2. Exited' = Exited
    BY <2>1 DEF Exited, TypeOK
  <2>3. CloseInSync'
    BY <2>1, <2>2 DEF CloseInSync, Exited, TypeOK
  <2> QED BY <2>1, <2>3 DEF SomeoneAwake
<1>5. CASE Finish(w)
  BY <1>5, WakeComplete DEF Finish
<1> QED BY <1>1, <1>2, <1>3, <1>4, <1>5 DEF Round

\* Whatever scheduleJob pushes, it signals for.
LEMMA WakeSchedule ==
  ASSUME WakeInv, NEW t \in Threads, Schedule(t)
  PROVE  CloseInSync' /\ SomeoneAwake'
<1> USE DEF WakeInv
<1> DEFINE js == req[t].jobs
           ds == req[t].deps
           F == FreedNow(ds)
           R == ReadyNow(js)
<1>1. UNCHANGED <<shuttingDown, counter>> /\ call' = [call EXCEPT ![t] = "none"]
  BY ScheduleFacts
<1>2. PICK S \in WokenBy(Signals(js, ds)) : pc' = Awake(S)
  BY Zenon DEF Schedule
<1>3. js \subseteq Jobs /\ F \in SUBSET Jobs /\ R \in SUBSET Jobs
  BY TypeSchedule DEF TypeOK, FreedNow, Freed, ReadyNow
<1>4. /\ Signals(js, ds) \in Nat
      /\ F # {} => Signals(js, ds) > 0
      /\ R # {} /\ ds \cap cancelled = {} => Signals(js, ds) > 0
  <2>1. /\ Cardinality(F) \in Nat /\ (F # {} => Cardinality(F) > 0)
        /\ Cardinality(R) \in Nat /\ (R # {} => Cardinality(R) > 0)
    BY <1>3, FiniteParts
  <2> QED BY <2>1 DEF Signals
<1>5. S \subseteq Asleep /\ (Signals(js, ds) > 0 /\ Asleep # {} => S # {})
  BY <1>4, Woken
<1>6. \A v \in Workers : pc'[v] = IF v \in S THEN "top" ELSE pc[v]
  BY <1>2 DEF Awake
<1>7. /\ Exited' = Exited /\ Asleep' \subseteq Asleep
      /\ AtTop => AtTop'
      /\ S # {} => AtTop'
  BY <1>5, <1>6 DEF Exited, Asleep, AtTop
<1>8. ASSUME NotEmpty(queue'), ~NotEmpty(queue)
      PROVE  F # {} \/ (R # {} /\ ds \cap cancelled = {})
  <2>1. queue \in [Jobs -> Nat]
    BY DEF TypeOK
  <2>2. \/ queue' = Push(queue, F)
        \/ ds \cap cancelled = {} /\ queue' = Push(Push(queue, F), R)
    BY ScheduleFacts
  <2> HIDE DEF F, R
  <2> SUFFICES ASSUME F = {}, R = {} \/ ds \cap cancelled # {} PROVE FALSE
    OBVIOUS
  <2>3. Push(queue, {}) = queue
    BY <2>1 DEF Push
  <2> QED BY <1>8, <2>2, <2>3
<1>9. \A u \in Threads : call'[u] = "join" => call[u] = "join"
  BY <1>1 DEF TypeOK
<1> HIDE DEF js, ds, F, R
<1>10. \/ AtTop' \/ Asleep' = {}
       \/ (NotEmpty(queue') => NotEmpty(queue)) /\ (AtTop => AtTop')
  BY <1>4, <1>5, <1>7, <1>8
<1> QED BY <1>1, <1>7, <1>9, <1>10, WakeKept

LEMMA WakeShutdown ==
  ASSUME WakeInv, NEW t \in Threads, Shutdown(t)
  PROVE  CloseInSync' /\ SomeoneAwake'
<1> USE DEF WakeInv
<1>0. UNCHANGED <<queue, counter>>
  BY DEF Shutdown, flagVars
<1>1. CASE ShutdownRound(t) /\ counter < Cardinality(Workers)
  <2>1. pc' = Awake(Asleep) /\ call' = [call EXCEPT ![t] = "stop"]
    BY <1>1 DEF ShutdownRound, Called
  <2>2. Exited' = Exited /\ Asleep' = {}
    BY <2>1 DEF Exited, Asleep, Awake, TypeOK
  <2>3. \A u \in Threads : call'[u] = "join" => call[u] = "join"
    BY <2>1 DEF TypeOK
  <2> QED BY <1>0, <2>2, <2>3, WakeKept
<1>2. CASE ShutdownRound(t) /\ ~(counter < Cardinality(Workers))
  <2>1. pc' = pc /\ call' = [call EXCEPT ![t] = "join"] /\ shuttingDown' = TRUE
    BY <1>2 DEF ShutdownRound, Called
  <2>2. Exited = Workers
    <3>1. Exited \subseteq Workers /\ counter = Cardinality(Exited)
      BY DEF CloseInSync, Exited
    <3>2. Cardinality(Exited) <= Cardinality(Workers) /\ Cardinality(Exited) \in Nat
            /\ Cardinality(Workers) \in Nat
      BY <3>1, FiniteParts, FS_Subset
    <3>3. Cardinality(Exited) = Cardinality(Workers)
      BY <1>2, <3>1, <3>2
    <3> QED BY <3>1, <3>3, FS_Subset
  <2>3. (\A w \in Workers : pc[w] = "exited") /\ Asleep' = {} /\ Exited' = Exited
          /\ Asleep = {}
    BY <2>1, <2>2 DEF Exited, Asleep
  <2> QED BY <1>0, <2>1, <2>3, WakeKept
<1>3. CASE UNCHANGED <<pc, call, shuttingDown>>
  <2>1. Exited' = Exited /\ Asleep' = Asleep /\ (AtTop => AtTop')
    BY <1>3 DEF Exited, Asleep, AtTop
  <2> QED BY <1>0, <1>3, <2>1, WakeKept
<1> QED BY <1>1, <1>2, <1>3 DEF Shutdown

\* Steps that move no worker, push nothing and begin no join.
LEMMA WakeStill ==
  ASSUME WakeInv, UNCHANGED <<pc, queue, closeVars>>,
         \A t \in Threads : call'[t] = "join" => call[t] = "join"
  PROVE  CloseInSync' /\ SomeoneAwake'
<1>1. Exited' = Exited /\ Asleep' = Asleep /\ (AtTop => AtTop')
        /\ counter' = counter /\ shuttingDown' = shuttingDown
  BY DEF Exited, Asleep, AtTop, closeVars
<1> QED BY <1>1, WakeKept DEF WakeInv

LEMMA WakeNext == WakeInv /\ [Next]_vars => WakeInv'
<1> SUFFICES ASSUME WakeInv, [Next]_vars PROVE CloseInSync' /\ SomeoneAwake'
  BY TypeNext DEF WakeInv
<1> USE DEF flagVars, closeVars, callVars
<1>1. CASE UNCHANGED vars
  BY <1>1, WakeStill DEF vars
<1>2. CASE SpuriousWake
  <2>1. /\ pc' = pc \/ \E w \in Asleep : pc' = Awake({w})
        /\ UNCHANGED <<call, queue, shuttingDown, counter>>
    BY <1>2 DEF SpuriousWake
  <2>2. Exited' = Exited /\ Asleep' \subseteq Asleep /\ (AtTop => AtTop')
    BY <2>1 DEF Exited, Asleep, AtTop, Awake
  <2> QED BY <2>1, <2>2, WakeKept DEF WakeInv
<1>3. ASSUME NEW t \in Threads, Continue(t) PROVE CloseInSync' /\ SomeoneAwake'
  <2>1. CASE WaitDone(t) \/ WaitMore(t) \/ Join(t)
    <3>1. UNCHANGED <<pc, queue, closeVars>>
      BY <2>1 DEF WaitDone, WaitMore, Join
    <3>2. \A u \in Threads : call'[u] = "join" => call[u] = "join"
      BY <2>1 DEF WaitDone, WaitMore, Join, Returns, Called, WakeInv, TypeOK
    <3> QED BY <3>1, <3>2, WakeStill
  <2> QED BY <1>3, <2>1, WakeSchedule, WakeShutdown DEF Continue
<1>4. ASSUME NEW t \in Threads, Begin(t) PROVE CloseInSync' /\ SomeoneAwake'
  <2>1. UNCHANGED <<pc, queue, closeVars>>
    BY <1>4 DEF Begin, ScheduleCheck, CancelJob, WaitJob, BroadcastJob, CloseBegin
  <2>2. \A u \in Threads : call'[u] = "join" => call[u] = "join"
    <3>1. \/ call' = call
          \/ \E c \in {"schedule", "wait", "drain", "stop"} :
               call' = [call EXCEPT ![t] = c]
      BY <1>4 DEF Begin, ScheduleCheck, CancelJob, WaitJob, BroadcastJob,
                  CloseBegin, Called
    <3> QED BY <3>1 DEF WakeInv, TypeOK
  <2> QED BY <2>1, <2>2, WakeStill
<1> QED BY <1>1, <1>2, <1>3, <1>4, WakeRound DEF Next

LEMMA WakeInit == Init => WakeInv
<1> SUFFICES ASSUME Init PROVE CloseInSync /\ SomeoneAwake
  BY TypeInit DEF WakeInv
<1>1. Exited = {} /\ Asleep = {} /\ counter = 0
        /\ \A t \in Threads : call[t] = "none"
  BY DEF Init, Exited, Asleep
<1> QED BY <1>1, FS_EmptySet DEF CloseInSync, SomeoneAwake, Exited

\* No wake-up is lost.
THEOREM NoLostWakeup == Spec => []SomeoneAwake
<1>1. WakeInv => SomeoneAwake
  BY DEF WakeInv
<1> QED BY <1>1, WakeInit, WakeNext, PTL DEF Spec

\* closeThreadPool() counts the workers that left, and joins when all have.
THEOREM ClosesInSync == Spec => []CloseInSync
<1>1. WakeInv => CloseInSync
  BY DEF WakeInv
<1> QED BY <1>1, WakeInit, WakeNext, PTL DEF Spec

-----------------------------------------------------------------------------
\* threadPoolExec before the jobs that are scheduled after it.

\* An expression that was broadcast before a job was attached is attached.
SeenAttached == \A j \in Jobs : seen[j] \subseteq attached

OrderInv == IInv /\ InitializedFirst /\ SeenAttached

\* Steps that start no job and broadcast nothing.
LEMMA OrderKept ==
  ASSUME TypeOK, InitializedFirst, SeenAttached, UNCHANGED <<myQueue, seen>>,
         attached \subseteq attached',
         \A j \in Jobs : Executing(j)' \subseteq Executing(j)
  PROVE  InitializedFirst' /\ SeenAttached'
<1>1. SeenAttached'
  BY DEF SeenAttached
<1>2. ASSUME NEW w \in Workers, pc'[w] = "exec", job'[w] \in Jobs
      PROVE  pc[w] = "exec" /\ job[w] = job'[w]
  BY <1>2 DEF Executing
<1> QED BY <1>1, <1>2 DEF InitializedFirst

LEMMA OrderRound ==
  ASSUME OrderInv, NEW w \in Workers, Round(w)
  PROVE  InitializedFirst' /\ SeenAttached'
<1> USE DEF OrderInv, IInv
<1>1. CASE ExitWorker(w) \/ Sleep(w)
  <2>1. /\ UNCHANGED <<job, myQueue, seen, attached>>
        /\ \E p \in {"exited", "asleep"} : pc' = [pc EXCEPT ![w] = p]
    BY <1>1 DEF ExitWorker, Sleep, graphVars
  <2>2. \A j \in Jobs : Executing(j)' \subseteq Executing(j)
    BY <2>1 DEF Executing, TypeOK
  <2> QED BY <2>1, <2>2, OrderKept
<1>2. ASSUME NEW j, NEW q, NEW n, Complete(w, j, q, n)
      PROVE  InitializedFirst' /\ SeenAttached'
  <2>1. /\ UNCHANGED <<myQueue, seen, attached>> /\ job' = [job EXCEPT ![w] = NoJob]
        /\ \E S \in SUBSET Asleep : pc' = [Awake(S) EXCEPT ![w] = "top"]
    BY <1>2, CompleteFacts DEF graphVars
  <2>2. \A k \in Jobs : Executing(k)' \subseteq Executing(k)
    BY <2>1 DEF Executing, Awake, Asleep, TypeOK
  <2> QED BY <2>1, <2>2, OrderKept
<1>3. ASSUME NEW j, NEW q, Execute(w, j, q), pc[w] = "top"
      PROVE  /\ UNCHANGED <<seen, attached>>
             /\ job'[w] = j
             /\ \A v \in Workers \ {w} : pc'[v] = "exec" =>
                  pc[v] = "exec" /\ job'[v] = job[v]
  <2>1. \E n : \E S \in WokenBy(n) : pc' = [Awake(S) EXCEPT ![w] = "exec"]
    BY <1>3, Zenon DEF Execute
  <2>2. PICK S \in SUBSET Asleep : pc' = [Awake(S) EXCEPT ![w] = "exec"]
    BY <2>1, WokenSubset
  <2>3. job' = [job EXCEPT ![w] = j] /\ UNCHANGED <<seen, attached>>
    BY <1>3 DEF Execute, graphVars
  <2> QED BY <2>2, <2>3 DEF Awake, TypeOK
<1>4. CASE RunOwn(w)
  <2> DEFINE e == Head(myQueue[w])
  <2>1. e \in ExecJobs
    <3>1. myQueue[w] \in Seq(ExecJobs) /\ myQueue[w] # <<>>
      BY <1>4 DEF RunOwn, TypeOK
    <3> QED BY <3>1, HeadTailProperties
  <2>2. Execute(w, e, queue) /\ pc[w] = "top"
    BY <1>4 DEF RunOwn
  <2>3. \A v \in Workers \ {w} : myQueue'[v] = myQueue[v]
    BY <1>4 DEF RunOwn, TypeOK
  <2> HIDE DEF e
  <2>4. InitializedFirst'
    BY <1>3, <2>1, <2>2, <2>3 DEF InitializedFirst
  <2> QED BY <1>3, <2>2, <2>4 DEF SeenAttached
<1>5. CASE RunGlobal(w)
  <2>1. PICK j \in Tops : \E q : \/ Execute(w, j, q) /\ UNCHANGED myQueue
                                 \/ Skip(w, j, q)
    BY <1>5, Zenon DEF RunGlobal, PopGlobal
  <2>2. pc[w] = "top" /\ Len(myQueue[w]) = 0
    BY <1>5 DEF RunGlobal, PopGlobal
  <2>3. ASSUME NEW q, Execute(w, j, q), UNCHANGED myQueue
        PROVE  InitializedFirst' /\ SeenAttached'
    <3>1. InitializedFirst'
      BY <1>3, <2>2, <2>3 DEF InitializedFirst
    <3> QED BY <1>3, <2>2, <2>3, <3>1 DEF SeenAttached
  <2> QED BY <1>2, <2>1, <2>3 DEF Skip
<1>6. CASE Finish(w)
  BY <1>2, <1>6 DEF Finish
<1> QED BY <1>1, <1>4, <1>5, <1>6 DEF Round

\* What is in a queue when a job is attached has been broadcast before.
LEMMA OrderSchedule ==
  ASSUME OrderInv, NEW t \in Threads, Schedule(t)
  PROVE  InitializedFirst' /\ SeenAttached'
<1> USE DEF OrderInv, IInv, JobInv
<1> DEFINE js == req[t].jobs
<1>1. /\ attached' = attached \cup js /\ UNCHANGED <<job, myQueue>>
      /\ seen' = [j \in Jobs |-> IF j \in js THEN attached \cap ExecJobs
                                             ELSE seen[j]]
      /\ \E S \in SUBSET Asleep : pc' = Awake(S)
  BY ScheduleFacts
<1>2. \A j \in js : j \notin attached
  BY ScheduleFacts DEF RequestsHold
<1>3. \A w \in Workers : pc'[w] = "exec" => pc[w] = "exec"
  BY <1>1 DEF Awake
<1>4. ASSUME NEW w \in Workers, pc[w] = "exec", job[w] \in Jobs
      PROVE  job[w] \notin js
  <2>1. w \in Executing(job[w])
    BY <1>4 DEF Executing
  <2> QED BY <1>2, <1>4, <2>1 DEF Graph, Links, Untouched, UntouchedIn
<1> HIDE DEF js
<1>5. InitializedFirst'
  BY <1>1, <1>3, <1>4 DEF InitializedFirst
<1>6. SeenAttached'
  BY <1>1 DEF SeenAttached
<1> QED BY <1>5, <1>6

LEMMA OrderBroadcast ==
  ASSUME OrderInv, NEW t \in Threads, NEW e \in ExecJobs, BroadcastJob(t, e)
  PROVE  InitializedFirst' /\ SeenAttached'
<1> USE DEF OrderInv, IInv
<1>1. /\ e \notin attached /\ attached' = attached \cup {e}
      /\ myQueue' = [w \in Workers |-> Append(myQueue[w], e)]
      /\ UNCHANGED <<pc, job, seen>>
  BY DEF BroadcastJob
<1>2. SeenAttached'
  BY <1>1 DEF SeenAttached
<1>3. ASSUME NEW w \in Workers, pc[w] = "exec", job[w] \in Jobs,
             NEW i \in 1 .. Len(myQueue'[w])
      PROVE  myQueue'[w][i] \notin seen[job[w]]
  <2>1. myQueue[w] \in Seq(ExecJobs) /\ myQueue'[w] = Append(myQueue[w], e)
    BY <1>1 DEF TypeOK
  <2>2. /\ Len(myQueue'[w]) = Len(myQueue[w]) + 1
        /\ \A k \in 1 .. Len(myQueue[w]) : myQueue'[w][k] = myQueue[w][k]
        /\ myQueue'[w][Len(myQueue[w]) + 1] = e
    BY <2>1, AppendProperties
  <2>3. CASE i = Len(myQueue[w]) + 1
    BY <1>1, <1>3, <2>2, <2>3 DEF SeenAttached
  <2>4. CASE i \in 1 .. Len(myQueue[w])
    BY <1>3, <2>2, <2>4 DEF InitializedFirst
  <2>5. Len(myQueue[w]) \in Nat
    BY <2>1
  <2> QED BY <2>2, <2>3, <2>4, <2>5
<1>4. InitializedFirst'
  BY <1>1, <1>3 DEF InitializedFirst
<1> QED BY <1>2, <1>4

LEMMA OrderNext ==
  ASSUME SoleScheduler, OrderInv, [Next]_vars
  PROVE  OrderInv'
<1>1. IInv'
  BY InvNext DEF OrderInv
<1>2. TypeOK /\ InitializedFirst /\ SeenAttached
  BY DEF OrderInv, IInv
<1>3. CASE UNCHANGED vars \/ SpuriousWake
  <2>1. /\ UNCHANGED <<job, myQueue, seen, attached>>
        /\ pc' = pc \/ \E w \in Asleep : pc' = Awake({w})
    BY <1>3 DEF vars, SpuriousWake, graphVars
  <2>2. \A j \in Jobs : Executing(j)' \subseteq Executing(j)
    BY <2>1 DEF Executing, Awake
  <2> QED BY <1>1, <1>2, <2>1, <2>2, OrderKept DEF OrderInv
<1>4. ASSUME NEW t \in Threads, Continue(t) PROVE OrderInv'
  <2>1. CASE Schedule(t)
    BY <1>1, <2>1, OrderSchedule DEF OrderInv
  <2>2. CASE WaitDone(t) \/ WaitMore(t) \/ Shutdown(t) \/ Join(t)
    <3>1. /\ UNCHANGED <<job, myQueue, seen, attached>>
          /\ pc' = pc \/ pc' = Awake(Asleep)
      BY <2>2 DEF WaitDone, WaitMore, Shutdown, ShutdownRound, Join, graphVars
    <3>2. \A j \in Jobs : Executing(j)' \subseteq Executing(j)
      BY <3>1 DEF Executing, Awake
    <3> QED BY <1>1, <1>2, <3>1, <3>2, OrderKept DEF OrderInv
  <2> QED BY <1>4, <2>1, <2>2 DEF Continue
<1>5. ASSUME NEW t \in Threads, Begin(t) PROVE OrderInv'
  <2>1. CASE \E e \in ExecJobs : BroadcastJob(t, e)
    BY <1>1, <2>1, OrderBroadcast DEF OrderInv
  <2>2. CASE ~\E e \in ExecJobs : BroadcastJob(t, e)
    <3>1. UNCHANGED <<pc, job, myQueue, seen, attached>>
      BY <1>5, <2>2 DEF Begin, ScheduleCheck, CancelJob, WaitJob, CloseBegin,
                        graphVars
    <3>2. \A j \in Jobs : Executing(j)' \subseteq Executing(j)
      BY <3>1 DEF Executing
    <3> QED BY <1>1, <1>2, <3>1, <3>2, OrderKept DEF OrderInv
  <2> QED BY <2>1, <2>2
<1> QED BY <1>1, <1>3, <1>4, <1>5, OrderRound DEF Next, OrderInv

\* A job runs after every expression that threadPoolExec broadcast before the
\* job was attached.
THEOREM InitializedBefore ==
  ASSUME SoleScheduler
  PROVE  Spec => []InitializedFirst
<1>1. Init => OrderInv
  BY InvInit DEF Init, OrderInv, InitializedFirst, SeenAttached
<1>2. OrderInv /\ [Next]_vars => OrderInv'
  BY OrderNext
<1>3. OrderInv => InitializedFirst
  BY DEF OrderInv
<1> QED BY <1>1, <1>2, <1>3, PTL DEF Spec

-----------------------------------------------------------------------------
\* The scheduler implements JobPool.

\* The jobs that cancelJob() visits along the lists notify are those that
\* depend on the jobs it is called for.
LEMMA SameDependents ==
  ASSUME NEW S \in SUBSET Jobs, NEW ntf \in [Jobs -> SUBSET Jobs], NEW dps,
         \A d, n \in Jobs : n \in ntf[d] <=> d \in dps[n]
  PROVE  Pool!WithDependents(S, dps) = CancelSet(S, ntf)
<1>1. ASSUME NEW T \in SUBSET Jobs
      PROVE  (\A n \in Jobs :
                (\E j \in T : ~Pool!Started(j) /\ j \in dps[n]) => n \in T)
             <=> Closed(T, ntf)
  BY DEF Closed, Pool!Started, Live
<1> QED BY <1>1 DEF Pool!WithDependents, CancelSet

\* Cancelling in the scheduler is cancelling in the pool.
LEMMA PoolDrop ==
  ASSUME NEW S \in SUBSET Jobs, NEW ntf \in [Jobs -> SUBSET Jobs],
         NEW dps, \A d, n \in Jobs : n \in ntf[d] <=> d \in dps[n],
         cancelled' = cancelled \cup CancelSet(S, ntf),
         done' = done \cup {k \in CancelSet(S, ntf) : Live(k)}
  PROVE  Pool!Drop(S, dps)
<1> DEFINE C == CancelSet(S, ntf)
<1>1. Pool!WithDependents(S, dps) = C
  BY SameDependents
<1>2. C \subseteq Jobs
  BY DEF CancelSet
<1>3. cancelled' = cancelled \cup C /\ done' = done \cup {k \in C : Live(k)}
  OBVIOUS
<1> HIDE DEF C
<1>4. done' \cap Jobs = (done \cap Jobs) \cup {k \in C : ~Pool!Started(k)}
  BY <1>2, <1>3 DEF Pool!Started, Live
<1> QED BY <1>1, <1>3, <1>4 DEF Pool!Drop

\* Steps that leave the jobs in Jobs alone.
LEMMA PoolStutter ==
  ASSUME UNCHANGED <<deps, pending, cancelled>>,
         attached' \cap Jobs = attached \cap Jobs,
         running' \cap Jobs = running \cap Jobs,
         done' \cap Jobs = done \cap Jobs,
         ran' \cap Jobs = ran \cap Jobs
  PROVE  UNCHANGED Pool!poolvars
<1>1. {j \in attached \cap Jobs : ~Single(j)}'
        = {j \in attached \cap Jobs : ~Single(j)}
  BY DEF Single
<1> QED BY <1>1 DEF Pool!poolvars

\* The jobs that may be executed again, and what a job of the queue has.
LEMMA PoolStarts ==
  ASSUME JobTypes, NEW f, JobsInv(f), NEW j \in Tops, j \notin cancelled,
         running' = running \cup {j}, ran' = ran \cup {j},
         UNCHANGED <<attached, deps, pending, done, cancelled>>
  PROVE  Pool!PoolNext
<1>1. /\ j \in Jobs /\ queue[j] > 0 /\ j \in attached /\ FlagsIn(j, f[j])
      /\ Single(j) => OnceIn(j, f[j])
  BY DEF Tops, JobsInv, UntouchedIn
<1>2. Single(j) => j \notin ran
  BY <1>1 DEF OnceIn
<1>3. {k \in attached \cap Jobs : ~Single(k)}'
        = {k \in attached \cap Jobs : ~Single(k)}
  BY DEF Single
<1>4. deps[j] \subseteq done \cap Jobs
  BY <1>1 DEF FlagsIn, JobTypes
<1>5. Pool!Start(j)
  BY <1>1, <1>2, <1>3, <1>4 DEF Pool!Start
<1> QED BY <1>1, <1>5 DEF Pool!PoolNext

\* A job of the queue that has been cancelled is executed no more.
LEMMA PoolDiscards ==
  ASSUME JobTypes, NEW f, JobsInv(f), NEW j \in Tops, j \in cancelled,
         done' = done \cup {j},
         UNCHANGED <<attached, deps, pending, running, cancelled, ran>>
  PROVE  [Pool!PoolNext]_(Pool!poolvars)
<1>1. /\ j \in Jobs /\ queue[j] > 0 /\ j \in attached /\ FlagsIn(j, f[j])
      /\ Single(j) => OnceIn(j, f[j])
  BY DEF Tops, JobsInv, UntouchedIn
<1>2. CASE j \in done
  BY <1>2, PoolStutter
<1>3. CASE j \notin done
  <2> DEFINE Again == {k \in attached \cap Jobs : ~Single(k)}
  <2>1. ~Single(j)
    BY <1>1, <1>3 DEF FlagsIn, OnceIn
  <2>2. Again' = Again
    BY DEF Single
  <2>3. Pool!Discard(j)
    BY <1>1, <2>1, <2>2 DEF Pool!Discard
  <2> QED BY <1>1, <2>3 DEF Pool!PoolNext
<1> QED BY <1>2, <1>3

\* execute() of a job has returned.
LEMMA PoolFinishes ==
  ASSUME JobTypes, NEW f, JobsInv(f), NEW j \in Jobs, f[j] # {},
         running' = running \ {j}, done' = done \cup {j},
         UNCHANGED <<attached, deps, pending, cancelled, ran>>
  PROVE  Pool!PoolNext
<1>1. j \in attached /\ j \in ran /\ (Single(j) => j \in running)
  BY DEF JobsInv, UntouchedIn, FlagsIn, OnceIn
<1>2. {k \in attached \cap Jobs : ~Single(k)}'
        = {k \in attached \cap Jobs : ~Single(k)}
  BY DEF Single
<1>3. Pool!Finish(j)
  BY <1>1, <1>2 DEF Pool!Finish
<1> QED BY <1>3 DEF Pool!PoolNext

LEMMA PoolCancels ==
  ASSUME JobTypes, NEW f, JobsInv(f), NEW j \in Jobs, j \in attached,
         Cancel({j}, notify),
         UNCHANGED <<attached, deps, pending, running, ran>>
  PROVE  Pool!PoolNext
<1>1. /\ cancelled' = cancelled \cup CancelSet({j}, notify)
      /\ done' = done \cup {k \in CancelSet({j}, notify) : Live(k)}
  BY DEF Cancel
<1>2. Pool!Drop({j}, deps)
  <2>1. /\ {j} \in SUBSET Jobs /\ notify \in [Jobs -> SUBSET Jobs]
        /\ \A d, n \in Jobs : n \in notify[d] <=> d \in deps[n]
    BY DEF JobsInv, Links, JobTypes
  <2> QED BY <1>1, <2>1, PoolDrop
<1>3. {k \in attached \cap Jobs : ~Single(k)}'
        = {k \in attached \cap Jobs : ~Single(k)}
  BY DEF Single
<1>4. Pool!CancelJob(j)
  BY <1>2, <1>3 DEF Pool!CancelJob
<1> QED BY <1>4 DEF Pool!PoolNext

\* scheduleJob: the jobs with dependencies all of which are done or one of
\* which is cancelled may be queued again.
LEMMA PoolAdds ==
  ASSUME JobTypes, NEW f, JobsInv(f), NEW js, NEW ds, CanAttach(js, ds),
         js # {}, AttachJobs(js, ds), UNCHANGED <<running, ran>>
  PROVE  Pool!PoolNext
<1> DEFINE Again == {j \in attached \cap Jobs : ~Single(j)}
<1>1. /\ attached' = attached \cup js
      /\ \A j \in Jobs :
           /\ deps'[j] = IF j \in js THEN ds ELSE deps[j]
           /\ notify'[j] = IF j \in ds THEN notify[j] \cup js ELSE notify[j]
      /\ \A j \in js : UntouchedIn(j, f[j]) /\ notify'[j] = {} /\ j \notin ds
  BY AttachFacts
<1>2. deps' \in [Jobs -> SUBSET Jobs] /\ notify' \in [Jobs -> SUBSET Jobs]
  BY AttachFacts
<1>3. \/ /\ ds \cap cancelled # {} /\ Cancel(js, notify') /\ pending' = pending
      \/ /\ ds \cap cancelled = {}
         /\ pending' = pending \cup (js \ ReadyNow(js))
         /\ UNCHANGED <<done, cancelled>>
  BY Zenon DEF AttachJobs
<1>4. \A d, n \in Jobs : n \in notify'[d] <=> d \in deps'[n]
  <2>1. JobsInv(f)'
    BY JobsScheduled
  <2> QED BY <2>1 DEF JobsInv, Links
<1>5. /\ js \subseteq Jobs /\ js \cap attached = {}
      /\ ds \subseteq attached /\ ds \subseteq Jobs
  BY DEF CanAttach
<1>6. deps' = [j \in Jobs |-> IF j \in js THEN ds ELSE deps[j]]
  BY <1>1, <1>2
<1>7. IF ds \cap cancelled # {} THEN Pool!Drop(js, deps')
      ELSE cancelled' = cancelled /\ done' \cap Jobs = done \cap Jobs
  <2>1. ASSUME Cancel(js, notify') PROVE Pool!Drop(js, deps')
    <3>1. /\ cancelled' = cancelled \cup CancelSet(js, notify')
          /\ done' = done \cup {k \in CancelSet(js, notify') : Live(k)}
      BY <2>1 DEF Cancel
    <3> QED BY <1>2, <1>4, <1>5, <3>1, PoolDrop
  <2> QED BY <1>3, <2>1
<1>8. /\ ds \cap cancelled # {} => pending' = pending
      /\ ds \cap cancelled = {} => pending' = pending \cup (js \ ReadyNow(js))
  BY <1>3
<1>9. Again' = IF ds # {} /\ (ds \cap cancelled # {} \/ ds \subseteq done \cap Jobs)
               THEN Again \cup js ELSE Again
  <2>1. ASSUME NEW j \in Jobs \ js PROVE j \in Again' <=> j \in Again
    BY <1>1, <1>8, <2>1 DEF Single, ReadyNow
  <2>2. ASSUME NEW j \in js
        PROVE  /\ j \notin Again
               /\ j \in Again' <=>
                    ds # {} /\ (ds \cap cancelled # {} \/ ds \subseteq done)
    <3>1. j \notin pending /\ deps'[j] = ds
      BY <1>1, <1>5 DEF UntouchedIn
    <3> QED BY <1>1, <1>5, <1>8, <3>1 DEF Single, ReadyNow
  <2>3. Again \subseteq Jobs /\ Again' \subseteq Jobs
    OBVIOUS
  <2> QED BY <1>5, <2>1, <2>2, <2>3
<1>10. Pool!Add(js, ds)
  BY <1>1, <1>5, <1>6, <1>7, <1>9 DEF Pool!Add
<1> QED BY <1>5, <1>10 DEF Pool!PoolNext

LEMMA PoolInitial == Init => Pool!PoolInit
BY DEF Init, GraphInit, Pool!PoolInit

LEMMA PoolRound ==
  ASSUME IInv, NEW w \in Workers, Round(w)
  PROVE  [Pool!PoolNext]_(Pool!poolvars)
<1> USE DEF IInv
<1>1. PICK f : f = [k \in Jobs |-> Executing(k)]
  OBVIOUS
<1>2. JobTypes /\ JobsInv(f)
  BY <1>1, JobInvNow DEF TypeOK, JobTypes
<1>3. CASE ExitWorker(w) \/ Sleep(w)
  <2>1. UNCHANGED <<attached, deps, pending, running, done, cancelled, ran>>
    BY <1>3 DEF ExitWorker, Sleep, graphVars, flagVars
  <2> QED BY <2>1, PoolStutter
<1>4. CASE RunOwn(w)
  <2> DEFINE e == Head(myQueue[w])
  <2>1. e \in ExecJobs
    <3>1. myQueue[w] \in Seq(ExecJobs) /\ myQueue[w] # <<>>
      BY <1>4 DEF RunOwn, TypeOK
    <3> QED BY <3>1, HeadTailProperties
  <2> HIDE DEF e
  <2>2. /\ running' = running \cup {e} /\ ran' = ran \cup {e}
        /\ UNCHANGED <<attached, deps, pending, done, cancelled>>
    BY <1>4 DEF RunOwn, Execute, graphVars, e
  <2>3. running' \cap Jobs = running \cap Jobs /\ ran' \cap Jobs = ran \cap Jobs
    BY <2>1, <2>2
  <2> QED BY <2>2, <2>3, PoolStutter
<1>5. CASE RunGlobal(w)
  <2>1. PICK j \in Tops : \E q : Execute(w, j, q) \/ Skip(w, j, q)
    BY <1>5, Zenon DEF RunGlobal, PopGlobal
  <2>2. ASSUME NEW q, Execute(w, j, q) PROVE Pool!PoolNext
    <3>1. /\ j \notin cancelled
          /\ running' = running \cup {j} /\ ran' = ran \cup {j}
          /\ UNCHANGED <<attached, deps, pending, done, cancelled>>
      BY <2>2 DEF Execute, graphVars
    <3> QED BY <1>2, <3>1, PoolStarts
  <2>3. ASSUME NEW q, Skip(w, j, q) PROVE [Pool!PoolNext]_(Pool!poolvars)
    <3>1. /\ j \in cancelled /\ done' = done \cup {j}
          /\ UNCHANGED <<attached, deps, pending, running, cancelled, ran>>
      BY <2>3, CompleteFacts DEF Skip, graphVars
    <3> QED BY <1>2, <3>1, PoolDiscards
  <2> QED BY <2>1, <2>2, <2>3
<1>6. CASE Finish(w)
  <2> DEFINE j == job[w]
  <2>1. /\ Complete(w, j, queue, 0) /\ pc[w] = "exec" /\ running' = running \ {j}
        /\ j \in AllJobs
    BY <1>6 DEF Finish, TypeOK, WorkerJob
  <2> HIDE DEF j
  <2>2. /\ done' = done \cup {j}
        /\ UNCHANGED <<attached, deps, pending, cancelled, ran>>
    BY <2>1, CompleteFacts DEF graphVars
  <2>3. CASE j \in ExecJobs
    <3>1. running' \cap Jobs = running \cap Jobs /\ done' \cap Jobs = done \cap Jobs
      BY <2>1, <2>2, <2>3
    <3> QED BY <2>2, <3>1, PoolStutter
  <2>4. CASE j \in Jobs
    <3>1. w \in f[j]
      BY <1>1, <2>1, <2>4 DEF Executing, j
    <3> QED BY <1>2, <2>1, <2>2, <2>4, <3>1, PoolFinishes
  <2> QED BY <2>1, <2>3, <2>4
<1> QED BY <1>3, <1>4, <1>5, <1>6 DEF Round

LEMMA PoolSchedule ==
  ASSUME SoleScheduler, IInv, NEW t \in Threads, Schedule(t)
  PROVE  Pool!PoolNext
<1> USE DEF IInv
<1>1. PICK f, js, ds : /\ f = [k \in Jobs |-> Executing(k)]
                       /\ js = req[t].jobs /\ ds = req[t].deps
  OBVIOUS
<1>2. JobTypes /\ JobsInv(f)
  BY <1>1, JobInvNow DEF TypeOK, JobTypes
<1>3. call[t] = "schedule" /\ AttachJobs(js, ds) /\ UNCHANGED <<running, ran>>
  BY <1>1, Zenon DEF Schedule
<1>4. CanAttach(js, ds) /\ js # {}
  BY <1>1, <1>3 DEF TypeOK, RequestsHold, CanAttach
<1> QED BY <1>2, <1>3, <1>4, PoolAdds

LEMMA PoolContinue ==
  ASSUME SoleScheduler, IInv, NEW t \in Threads, Continue(t)
  PROVE  [Pool!PoolNext]_(Pool!poolvars)
<1>1. CASE WaitDone(t) \/ WaitMore(t) \/ Shutdown(t) \/ Join(t)
  <2>1. UNCHANGED <<graphVars, flagVars>>
    BY <1>1 DEF WaitDone, WaitMore, Shutdown, Join
  <2> QED BY <2>1, PoolStutter DEF graphVars, flagVars
<1> QED BY <1>1, PoolSchedule DEF Continue

LEMMA PoolBegin ==
  ASSUME IInv, NEW t \in Threads, Begin(t)
  PROVE  [Pool!PoolNext]_(Pool!poolvars)
<1> USE DEF IInv
<1>1. ASSUME NEW j \in Jobs, CancelJob(t, j) PROVE Pool!PoolNext
  <2>1. PICK f : f = [k \in Jobs |-> Executing(k)]
    OBVIOUS
  <2>2. JobTypes /\ JobsInv(f)
    BY <2>1, JobInvNow DEF TypeOK, JobTypes
  <2>3. /\ j \in attached /\ Cancel({j}, notify)
        /\ UNCHANGED <<attached, deps, pending, running, ran>>
    BY <1>1, Zenon DEF CancelJob, graphVars
  <2> QED BY <2>2, <2>3, PoolCancels
<1>2. ASSUME NEW e \in ExecJobs, BroadcastJob(t, e)
      PROVE  UNCHANGED Pool!poolvars
  <2>1. attached' = attached \cup {e} /\ UNCHANGED <<deps, pending, flagVars>>
    BY <1>2 DEF BroadcastJob
  <2>2. attached' \cap Jobs = attached \cap Jobs
    BY <2>1
  <2> QED BY <2>1, <2>2, PoolStutter DEF flagVars
<1>3. ASSUME \/ \E js, ds : ScheduleCheck(t, js, ds)
             \/ \E j \in Jobs : WaitJob(t, j)
             \/ \E wait \in CloseModes : CloseBegin(t, wait)
      PROVE  UNCHANGED Pool!poolvars
  <2>1. UNCHANGED <<graphVars, flagVars>>
    BY <1>3 DEF ScheduleCheck, WaitJob, CloseBegin
  <2> QED BY <2>1, PoolStutter DEF graphVars, flagVars
<1> QED BY <1>1, <1>2, <1>3 DEF Begin

\* Every step of the scheduler is one that JobPool allows.
THEOREM Implementation ==
  ASSUME SoleScheduler
  PROVE  Spec => ImplementsPool
<1>1. ASSUME IInv, [Next]_vars PROVE [Pool!PoolNext]_(Pool!poolvars)
  <2>1. CASE SpuriousWake \/ UNCHANGED vars
    <3>1. UNCHANGED <<graphVars, flagVars>>
      BY <2>1 DEF SpuriousWake, vars
    <3> QED BY <3>1, PoolStutter DEF graphVars, flagVars
  <2> QED BY <1>1, <2>1, PoolRound, PoolContinue, PoolBegin DEF Next
<1> QED BY <1>1, PoolInitial, Invariance, PTL
        DEF Spec, ImplementsPool, Pool!PoolSpec

-----------------------------------------------------------------------------
\* The pool without threads, which has the job graph of this module and threads
\* of its own choice: Clients may be any set, and Workers may be empty.

CONSTANT Owner         \* Handles of that pool
VARIABLE poolQueue     \* its variable myQueue

Alone == INSTANCE SingleThreaded WITH Handles <- Owner, myQueue <- poolQueue

LEMMA NotAThread == NoThread \notin Threads
OBVIOUS

HIDE RolesAssumption
HIDE ThreadsAssumption DEF Threads
USE DEF Alone!AllJobs

\* The n-th run of the stack s, counted from the outermost, executes job j.
Has(s, n, j) == n \in 1..Len(s) /\ s[Len(s) + 1 - n].job = j

Runs == [info : Jobs \cup {NoJob}, job : AllJobs \cup {NoJob}, nested : BOOLEAN]

\* The runs that execute j: a thread and a position in its stack.
Frames(j) == {p \in Threads \X Nat : Has(stack[p[1]], p[2], j)}

\* The innermost run of a stack is replaced.
LEMMA TopReplaced ==
  ASSUME NEW s \in Seq(Runs), s # <<>>, NEW r \in Runs
  PROVE  /\ <<r>> \o Tail(s) \in Seq(Runs)
         /\ Len(<<r>> \o Tail(s)) = Len(s) /\ Len(s) \in Nat \ {0}
         /\ (<<r>> \o Tail(s))[1] = r
         /\ \A i \in 2..Len(s) : (<<r>> \o Tail(s))[i] = s[i]
<1>1. /\ Tail(s) \in Seq(Runs) /\ Len(Tail(s)) = Len(s) - 1
      /\ \A i \in 1..Len(Tail(s)) : Tail(s)[i] = s[i + 1]
      /\ Len(s) \in Nat \ {0}
  BY HeadTailProperties, EmptySeq
<1>2. <<r>> \in Seq(Runs) /\ Len(<<r>>) = 1 /\ <<r>>[1] = r
  OBVIOUS
<1>3. PICK u : u = Tail(s)
  OBVIOUS
<1>4. PICK v : v = <<r>>
  OBVIOUS
<1>5. /\ v \o u \in Seq(Runs)
      /\ Len(v \o u) = Len(v) + Len(u)
      /\ \A i \in 1..Len(v) + Len(u) :
           (v \o u)[i] = IF i <= Len(v) THEN v[i] ELSE u[i - Len(v)]
  BY <1>1, <1>2, <1>3, <1>4, ConcatProperties
<1>6. \A i \in 2..Len(s) : (v \o u)[i] = s[i]
  <2> TAKE i \in 2..Len(s)
  <2>1. i \in 1..Len(v) + Len(u) /\ ~(i <= Len(v)) /\ i - 1 \in 1..Len(u)
    BY <1>1, <1>2, <1>3, <1>4
  <2>2. (v \o u)[i] = u[i - 1]
    BY <1>2, <1>4, <1>5, <2>1
  <2>3. u[i - 1] = s[i - 1 + 1] /\ i - 1 + 1 = i
    BY <1>1, <1>3, <2>1
  <2> QED BY <2>2, <2>3
<1>7. (v \o u)[1] = r
  <2>1. 1 \in 1..Len(v) + Len(u)
    BY <1>1, <1>2, <1>3, <1>4
  <2> QED BY <1>2, <1>4, <1>5, <2>1
<1> QED BY <1>1, <1>2, <1>3, <1>4, <1>5, <1>6, <1>7

\* A run is put on top of a stack.
LEMMA Pushed ==
  ASSUME NEW s \in Seq(Runs), NEW r \in Runs
  PROVE  /\ <<r>> \o s \in Seq(Runs)
         /\ Len(<<r>> \o s) = Len(s) + 1 /\ Len(s) \in Nat
         /\ (<<r>> \o s)[1] = r
         /\ \A i \in 2..Len(s) + 1 : (<<r>> \o s)[i] = s[i - 1]
<1>1. <<r>> \in Seq(Runs) /\ Len(<<r>>) = 1 /\ <<r>>[1] = r /\ Len(s) \in Nat
  OBVIOUS
<1>2. PICK v : v = <<r>>
  OBVIOUS
<1>3. /\ v \o s \in Seq(Runs)
      /\ Len(v \o s) = Len(v) + Len(s)
      /\ \A i \in 1..Len(v) + Len(s) :
           (v \o s)[i] = IF i <= Len(v) THEN v[i] ELSE s[i - Len(v)]
  BY <1>1, <1>2, ConcatProperties
<1>4. \A i \in 2..Len(s) + 1 : (v \o s)[i] = s[i - 1]
  BY <1>1, <1>2, <1>3
<1>5. (v \o s)[1] = r
  BY <1>1, <1>2, <1>3
<1> QED BY <1>1, <1>2, <1>3, <1>4, <1>5

\* The outermost run is number 1, so that only the innermost can change.
LEMMA HasTop ==
  ASSUME NEW s \in Seq(Runs), s # <<>>, NEW r \in Runs, NEW n \in Nat, NEW j
  PROVE  /\ Has(s, Len(s), j) <=> s[1].job = j
         /\ Has(<<r>> \o Tail(s), n, j)
              <=> IF n = Len(s) THEN r.job = j ELSE Has(s, n, j)
<1>1. PICK u : u = <<r>> \o Tail(s)
  OBVIOUS
<1>2. /\ Len(u) = Len(s) /\ Len(s) \in Nat \ {0} /\ u[1] = r
      /\ \A i \in 2..Len(s) : u[i] = s[i]
  BY <1>1, TopReplaced
<1>3. Has(s, Len(s), j) <=> s[1].job = j
  BY <1>2 DEF Has
<1>4. Has(u, n, j) <=> IF n = Len(s) THEN r.job = j ELSE Has(s, n, j)
  <2>1. CASE n = Len(s)
    BY <1>2, <2>1 DEF Has
  <2>2. CASE n # Len(s) /\ n \in 1..Len(s)
    <3>1. Len(s) + 1 - n \in 2..Len(s)
      BY <1>2, <2>2
    <3> QED BY <1>2, <2>2, <3>1 DEF Has
  <2>3. CASE n \notin 1..Len(s) /\ n # Len(s)
    BY <1>2, <2>3 DEF Has
  <2> QED BY <2>1, <2>2, <2>3
<1> QED BY <1>1, <1>3, <1>4

LEMMA HasPushed ==
  ASSUME NEW s \in Seq(Runs), NEW r \in Runs, NEW n \in Nat, NEW j, r.job # j
  PROVE  Has(<<r>> \o s, n, j) <=> Has(s, n, j)
<1>1. PICK u : u = <<r>> \o s
  OBVIOUS
<1>2. /\ Len(u) = Len(s) + 1 /\ Len(s) \in Nat /\ u[1] = r
      /\ \A i \in 2..Len(s) + 1 : u[i] = s[i - 1]
  BY <1>1, Pushed
<1>3. CASE n \in 1..Len(s)
  <2>1. Len(u) + 1 - n \in 2..Len(s) + 1 /\ Len(u) + 1 - n - 1 = Len(s) + 1 - n
    BY <1>2, <1>3
  <2> QED BY <1>1, <1>2, <1>3, <2>1 DEF Has
<1>4. CASE n = Len(s) + 1
  BY <1>1, <1>2, <1>4 DEF Has
<1>5. CASE n \notin 1..Len(s) + 1
  BY <1>1, <1>2, <1>5 DEF Has
<1> QED BY <1>2, <1>3, <1>4, <1>5

LEMMA HasPopped ==
  ASSUME NEW s \in Seq(Runs), s # <<>>, NEW n \in Nat, NEW j, s[1].job # j
  PROVE  Has(Tail(s), n, j) <=> Has(s, n, j)
<1>1. PICK u : u = Tail(s)
  OBVIOUS
<1>2. /\ Len(u) = Len(s) - 1 /\ Len(s) \in Nat \ {0}
      /\ \A i \in 1..Len(u) : u[i] = s[i + 1]
  BY <1>1, HeadTailProperties, EmptySeq
<1>3. CASE n \in 1..Len(s) - 1
  <2>1. Len(u) + 1 - n \in 1..Len(u) /\ Len(u) + 1 - n + 1 = Len(s) + 1 - n
    BY <1>2, <1>3
  <2> QED BY <1>1, <1>2, <1>3, <2>1 DEF Has
<1>4. CASE n = Len(s)
  BY <1>1, <1>2, <1>4 DEF Has
<1>5. CASE n \notin 1..Len(s)
  BY <1>1, <1>2, <1>5 DEF Has
<1> QED BY <1>2, <1>3, <1>4, <1>5

-----------------------------------------------------------------------------
\* The stack of a thread's runs: only the innermost may be between two jobs, and
\* its thread holds the lock just then.  What CurrentJob says of the innermost
\* job follows from what the run that waits in it finds in currentJobRef.
StackOf(t) ==
  /\ lock = t <=> stack[t] # <<>> /\ Head(stack[t]).job = NoJob
  /\ \A i \in 2..Len(stack[t]) : stack[t][i].job # NoJob /\ stack[t][i].nested
  /\ stack[t] = <<>> => current[t] = NoJob
  /\ stack[t] # <<>> /\ Head(stack[t]).job # NoJob =>
       \/ current[t] = Head(stack[t]).job
       \/ current[t] = NoJob /\ Head(stack[t]).nested
  /\ stack[t] # <<>> /\ Head(stack[t]).job = NoJob =>
       \/ current[t] = NoJob
       \/ Len(stack[t]) > 1 /\ current[t] = stack[t][2].job

Stacks == \A t \in Threads : StackOf(t)

StackTypes ==
  /\ lock \in Threads \cup {NoThread}
  /\ stack \in [Threads -> Seq(Runs)]
  /\ current \in [Threads -> AllJobs \cup {NoJob}]

\* The effect on Frames of the three things that happen to a stack.
LEMMA FramesReplaced ==
  ASSUME StackTypes, NEW t \in Threads, stack[t] # <<>>, NEW r \in Runs,
         stack' = [stack EXCEPT ![t] = <<r>> \o Tail(@)], NEW j \in Jobs
  PROVE  /\ Frames(j)' = IF r.job = j THEN Frames(j) \cup {<<t, Len(stack[t])>>}
                                      ELSE Frames(j) \ {<<t, Len(stack[t])>>}
         /\ <<t, Len(stack[t])>> \in Frames(j) <=> Head(stack[t]).job = j
<1>1. PICK s : s = stack[t]
  OBVIOUS
<1>2. s \in Seq(Runs) /\ s # <<>> /\ Len(s) \in Nat /\ Head(s) = s[1]
  BY <1>1 DEF StackTypes
<1>3. /\ stack'[t] = <<r>> \o Tail(s)
      /\ \A u \in Threads \ {t} : stack'[u] = stack[u]
  BY <1>1 DEF StackTypes
<1>4. \A n \in Nat : Has(stack'[t], n, j)
                       <=> IF n = Len(s) THEN r.job = j ELSE Has(s, n, j)
  <2> TAKE n \in Nat
  <2>1. Has(<<r>> \o Tail(s), n, j)
          <=> IF n = Len(s) THEN r.job = j ELSE Has(s, n, j)
    BY <1>2, HasTop
  <2> QED BY <1>3, <2>1
<1>5. Has(s, Len(s), j) <=> Head(s).job = j
  BY <1>2, HasTop
<1>6. ASSUME NEW u \in Threads, NEW n \in Nat
      PROVE  <<u, n>> \in Frames(j)' <=>
               IF u = t /\ n = Len(s) THEN r.job = j ELSE <<u, n>> \in Frames(j)
  <2>1. /\ <<u, n>> \in Frames(j)' <=> Has(stack'[u], n, j)
        /\ <<u, n>> \in Frames(j) <=> Has(stack[u], n, j)
    BY DEF Frames
  <2> QED BY <1>1, <1>3, <1>4, <2>1
<1>7. Frames(j) \subseteq Threads \X Nat /\ Frames(j)' \subseteq Threads \X Nat
  BY DEF Frames
<1>8. ASSUME NEW p \in Threads \X Nat
      PROVE  p \in Frames(j)' <=>
               IF p = <<t, Len(s)>> THEN r.job = j ELSE p \in Frames(j)
  <2>1. PICK u \in Threads, n \in Nat : p = <<u, n>>
    OBVIOUS
  <2>2. p = <<t, Len(s)>> <=> u = t /\ n = Len(s)
    BY <2>1
  <2> QED BY <1>6, <2>1, <2>2
<1>9. <<t, Len(s)>> \in Threads \X Nat
  BY <1>2
<1>10. <<t, Len(s)>> \in Frames(j) <=> Has(s, Len(s), j)
  BY <1>1, <1>2 DEF Frames
<1> QED BY <1>1, <1>5, <1>7, <1>8, <1>9, <1>10

\* A run that executes nothing comes or goes.
LEMMA FramesKept ==
  ASSUME StackTypes, NEW j \in Jobs,
         \A u \in Threads : \A n \in Nat : Has(stack'[u], n, j) <=> Has(stack[u], n, j)
  PROVE  Frames(j)' = Frames(j)
<1>1. ASSUME NEW u \in Threads, NEW n \in Nat
      PROVE  <<u, n>> \in Frames(j)' <=> <<u, n>> \in Frames(j)
  BY DEF Frames
<1>2. Frames(j) \subseteq Threads \X Nat /\ Frames(j)' \subseteq Threads \X Nat
  BY DEF Frames
<1>3. ASSUME NEW p \in Threads \X Nat PROVE p \in Frames(j)' <=> p \in Frames(j)
  <2>1. PICK u \in Threads, n \in Nat : p = <<u, n>>
    OBVIOUS
  <2> QED BY <1>1, <2>1
<1> QED BY <1>2, <1>3

-----------------------------------------------------------------------------
\* Scheduler::main is called.
LEMMA StackCalls ==
  ASSUME StackTypes, Stacks, NEW t \in Threads,
         NEW info \in Jobs \cup {NoJob}, Alone!CallMain(t, info)
  PROVE  /\ StackTypes' /\ Stacks'
         /\ \A j \in Jobs : Frames(j)' = Frames(j)
         /\ \A u \in Threads : Len(stack'[u]) >= Len(stack[u])
<1>1. PICK s, v : /\ s = stack[t]
                  /\ v = IF s = <<>> THEN <<>>
                         ELSE <<[Head(s) EXCEPT !.nested = TRUE]>> \o Tail(s)
  OBVIOUS
<1> DEFINE r == Alone!Run(info)
<1>2. /\ stack'[t] = <<r>> \o v
      /\ \A u \in Threads \ {t} : stack'[u] = stack[u]
      /\ stack' = [stack EXCEPT ![t] = <<r>> \o v]
      /\ lock' = t /\ current' = current
      /\ lock = NoThread /\ (s = <<>> \/ Head(s).job # NoJob)
  BY <1>1 DEF Alone!CallMain, Alone!CanCall, Alone!InJob, Alone!Top, StackTypes
<1>3. s \in Seq(Runs) /\ Len(s) \in Nat /\ (s # <<>> => Head(s) = s[1] /\ s[1] \in Runs)
  <2>1. s \in Seq(Runs)
    BY <1>1 DEF StackTypes
  <2> QED BY <2>1, HeadTailProperties
<1>4. r \in Runs /\ r.job = NoJob /\ ~r.nested
  BY DEF Runs, Alone!Run
<1> HIDE DEF r
<1>5. /\ v \in Seq(Runs) /\ Len(v) = Len(s)
      /\ s # <<>> => v[1].nested /\ v[1].job = s[1].job
      /\ \A i \in 2..Len(s) : v[i] = s[i]
      /\ \A n \in Nat : \A j \in Jobs : Has(v, n, j) <=> Has(s, n, j)
  <2>1. CASE s = <<>>
    BY <1>1, <2>1
  <2>2. CASE s # <<>>
    <3>1. PICK h : h = [Head(s) EXCEPT !.nested = TRUE]
      OBVIOUS
    <3>2. h \in Runs /\ h.nested /\ h.job = s[1].job
      BY <1>3, <2>2, <3>1 DEF Runs
    <3>3. v = <<h>> \o Tail(s)
      BY <1>1, <2>2, <3>1
    <3>4. /\ v \in Seq(Runs) /\ Len(v) = Len(s) /\ v[1] = h
          /\ \A i \in 2..Len(s) : v[i] = s[i]
      BY <1>3, <2>2, <3>2, <3>3, TopReplaced
    <3>5. \A n \in Nat : \A j \in Jobs : Has(v, n, j) <=> Has(s, n, j)
      BY <1>3, <2>2, <3>2, <3>3, HasTop
    <3> QED BY <3>2, <3>4, <3>5
  <2> QED BY <2>1, <2>2
<1>6. PICK x : x = <<r>> \o v
  OBVIOUS
<1>7. /\ x \in Seq(Runs) /\ Len(x) = Len(s) + 1 /\ x[1] = r
      /\ \A i \in 2..Len(s) + 1 : x[i] = v[i - 1]
  BY <1>4, <1>5, <1>6, Pushed
<1>8. stack' \in [Threads -> Seq(Runs)]
  BY <1>2, <1>6, <1>7 DEF StackTypes
<1>9. StackTypes'
  BY <1>2, <1>8 DEF StackTypes
<1>10. ASSUME NEW j \in Jobs PROVE Frames(j)' = Frames(j)
  <2>1. \A n \in Nat : Has(x, n, j) <=> Has(v, n, j)
    BY <1>4, <1>5, <1>6, HasPushed
  <2>2. \A u \in Threads : \A n \in Nat :
          Has(stack'[u], n, j) <=> Has(stack[u], n, j)
    <3> TAKE u \in Threads
    <3> TAKE n \in Nat
    <3>1. CASE u = t
      <4>1. stack'[u] = x /\ stack[u] = s
        BY <1>1, <1>2, <1>6, <3>1
      <4>2. Has(x, n, j) <=> Has(s, n, j)
        BY <1>5, <2>1
      <4> QED BY <4>1, <4>2
    <3>2. CASE u # t
      <4>1. stack'[u] = stack[u]
        BY <1>2, <3>2
      <4> QED BY <4>1
    <3> QED BY <3>1, <3>2
  <2> QED BY <2>2, FramesKept
<1>11. ASSUME NEW u \in Threads \ {t} PROVE StackOf(u)'
  <2>1. StackOf(u) /\ lock # u /\ lock' # u
    BY <1>2, NotAThread DEF Stacks
  <2>2. stack'[u] = stack[u] /\ current'[u] = current[u]
    BY <1>2
  <2> QED BY <2>1, <2>2 DEF StackOf
<1>12. StackOf(t)'
  <2>1. stack'[t] = x /\ x # <<>> /\ Head(x) = r /\ Len(x) \in Nat
    BY <1>2, <1>3, <1>6, <1>7
  <2>2. StackOf(t) /\ s = stack[t]
    BY <1>1 DEF Stacks
  <2>3. ASSUME NEW i \in 2..Len(x) PROVE x[i].job # NoJob /\ x[i].nested
    <3>1. x[i] = v[i - 1] /\ s # <<>>
      BY <1>3, <1>7
    <3>2. CASE i = 2
      BY <1>2, <1>3, <1>5, <3>1, <3>2
    <3>3. CASE i # 2
      <4>1. i - 1 \in 2..Len(s)
        BY <1>3, <1>7, <3>3
      <4> QED BY <1>5, <2>2, <3>1, <4>1 DEF StackOf
    <3> QED BY <3>2, <3>3
  <2>4. current'[t] = NoJob \/ (Len(x) > 1 /\ current'[t] = x[2].job)
    <3>1. CASE s = <<>>
      BY <1>2, <2>2, <3>1 DEF StackOf
    <3>2. CASE s # <<>>
      <4>1. Len(s) >= 1
        BY <1>3, <3>2, EmptySeq
      <4>2. x[2].job = Head(s).job
        BY <1>3, <1>5, <1>7, <3>2, <4>1
      <4> QED BY <1>2, <1>3, <1>7, <2>2, <3>2, <4>1, <4>2 DEF StackOf
    <3> QED BY <3>1, <3>2
  <2> QED BY <1>2, <1>4, <2>1, <2>3, <2>4 DEF StackOf
<1>13. \A u \in Threads : Len(stack'[u]) >= Len(stack[u])
  BY <1>1, <1>2, <1>3, <1>6, <1>7 DEF StackTypes
<1> QED BY <1>9, <1>10, <1>11, <1>12, <1>13 DEF Stacks

\* A run of Scheduler::main ends.
LEMMA StackReturns ==
  ASSUME StackTypes, Stacks, NEW t \in Threads, lock = t, stack[t] # <<>>,
         stack' = [stack EXCEPT ![t] = Tail(@)], lock' = NoThread,
         current' = current
  PROVE  /\ StackTypes' /\ Stacks'
         /\ \A j \in Jobs : Frames(j)' = Frames(j)
<1>1. PICK s : s = stack[t]
  OBVIOUS
<1>2. /\ s \in Seq(Runs) /\ s # <<>> /\ Len(s) \in Nat \ {0} /\ Head(s) = s[1]
      /\ Tail(s) \in Seq(Runs) /\ Len(Tail(s)) = Len(s) - 1
      /\ \A i \in 1..Len(s) - 1 : Tail(s)[i] = s[i + 1]
  <2>1. s \in Seq(Runs) /\ s # <<>>
    BY <1>1 DEF StackTypes
  <2> QED BY <2>1, HeadTailProperties, EmptySeq
<1>3. PICK x : x = Tail(s)
  OBVIOUS
<1>4. stack'[t] = x /\ \A u \in Threads \ {t} : stack'[u] = stack[u]
  BY <1>1, <1>3 DEF StackTypes
<1>5. StackTypes'
  <2>1. stack' \in [Threads -> Seq(Runs)]
    BY <1>1, <1>2 DEF StackTypes
  <2> QED BY <2>1 DEF StackTypes
<1>6. StackOf(t) /\ s[1].job = NoJob
  BY <1>1, <1>2 DEF Stacks, StackOf
<1>7. ASSUME NEW j \in Jobs PROVE Frames(j)' = Frames(j)
  <2>1. \A n \in Nat : Has(x, n, j) <=> Has(s, n, j)
    BY <1>2, <1>3, <1>6, HasPopped
  <2>2. \A u \in Threads : \A n \in Nat :
          Has(stack'[u], n, j) <=> Has(stack[u], n, j)
    <3> TAKE u \in Threads
    <3> TAKE n \in Nat
    <3>1. CASE u = t
      BY <1>1, <1>4, <2>1, <3>1
    <3>2. CASE u # t
      <4>1. stack'[u] = stack[u]
        BY <1>4, <3>2
      <4> QED BY <4>1
    <3> QED BY <3>1, <3>2
  <2> QED BY <2>2, FramesKept
<1>8. ASSUME NEW u \in Threads \ {t} PROVE StackOf(u)'
  <2>1. StackOf(u) /\ lock # u /\ lock' # u
    BY NotAThread DEF Stacks
  <2>2. stack'[u] = stack[u] /\ current'[u] = current[u]
    BY <1>4
  <2> QED BY <2>1, <2>2 DEF StackOf
<1>9. StackOf(t)'
  <2>1. lock' # t
    BY NotAThread
  <2>2. CASE Len(s) = 1
    <3>1. x = <<>> /\ Len(x) = 0
      BY <1>2, <1>3, <2>2, EmptySeq
    <3>2. current[t] = NoJob
      BY <1>1, <1>2, <1>6, <2>2 DEF StackOf
    <3>3. stack'[t] = <<>> /\ Len(stack'[t]) = 0
      BY <1>4, <3>1
    <3> QED BY <2>1, <3>2, <3>3 DEF StackOf
  <2>3. CASE Len(s) # 1
    <3>0. Len(s) >= 2 /\ 1 \in 1..Len(s) - 1 /\ 2 \in 2..Len(s)
      BY <1>2, <2>3
    <3>1. x # <<>> /\ Head(x) = s[2] /\ x[1] = s[2] /\ Len(x) = Len(s) - 1
      <4>1. x[1] = s[2] /\ Len(x) = Len(s) - 1 /\ Len(x) # 0
        BY <1>2, <1>3, <3>0
      <4> QED BY <4>1
    <3>2. s[2].job # NoJob /\ s[2].nested
      BY <1>1, <1>6, <3>0 DEF StackOf
    <3>3. ASSUME NEW i \in 2..Len(x) PROVE x[i].job # NoJob /\ x[i].nested
      <4>1. i + 1 \in 2..Len(s) /\ x[i] = s[i + 1]
        BY <1>2, <1>3, <3>1
      <4> QED BY <1>1, <1>6, <4>1 DEF StackOf
    <3>4. current[t] = NoJob \/ current[t] = s[2].job
      BY <1>1, <1>2, <1>6 DEF StackOf
    <3> QED BY <1>4, <2>1, <3>1, <3>2, <3>3, <3>4 DEF StackOf
  <2> QED BY <2>2, <2>3
<1> QED BY <1>5, <1>7, <1>8, <1>9 DEF Stacks

\* The innermost run starts a job or is done with it.
LEMMA StackRuns ==
  ASSUME StackTypes, Stacks, NEW t \in Threads, stack[t] # <<>>, NEW r \in Runs,
         stack' = [stack EXCEPT ![t] = <<r>> \o Tail(@)],
         current' = [current EXCEPT ![t] = r.job],
         lock \in {t, NoThread},
         r.job = NoJob => lock' = t,
         r.job # NoJob => lock' = NoThread
  PROVE  /\ StackTypes' /\ Stacks'
         /\ \A u \in Threads : Len(stack'[u]) = Len(stack[u])
<1>1. PICK s : s = stack[t]
  OBVIOUS
<1>2. s \in Seq(Runs) /\ s # <<>>
  BY <1>1 DEF StackTypes
<1>3. PICK x : x = <<r>> \o Tail(s)
  OBVIOUS
<1>4. /\ x \in Seq(Runs) /\ Len(x) = Len(s) /\ Len(s) \in Nat \ {0} /\ x[1] = r
      /\ \A i \in 2..Len(s) : x[i] = s[i]
  BY <1>2, <1>3, TopReplaced
<1>5. stack'[t] = x /\ \A u \in Threads \ {t} : stack'[u] = stack[u]
  BY <1>1, <1>3 DEF StackTypes
<1>6. r.job \in AllJobs \cup {NoJob}
  BY DEF Runs
<1>7. StackTypes'
  <2>1. stack' \in [Threads -> Seq(Runs)]
    BY <1>1, <1>3, <1>4 DEF StackTypes
  <2>2. current' \in [Threads -> AllJobs \cup {NoJob}]
    BY <1>6 DEF StackTypes
  <2> QED BY <2>1, <2>2 DEF StackTypes
<1>8. ASSUME NEW u \in Threads \ {t} PROVE StackOf(u)'
  <2>1. StackOf(u) /\ lock # u /\ lock' # u
    BY NotAThread DEF Stacks
  <2>2. stack'[u] = stack[u] /\ current'[u] = current[u]
    BY <1>5 DEF StackTypes
  <2> QED BY <2>1, <2>2 DEF StackOf
<1>9. StackOf(t)'
  <2>1. StackOf(t) /\ current'[t] = r.job
    BY DEF Stacks, StackTypes
  <2>2. x # <<>> /\ Head(x) = r
    BY <1>4
  <2>3. \A i \in 2..Len(x) : x[i].job # NoJob /\ x[i].nested
    BY <1>1, <1>4, <2>1 DEF StackOf
  <2>4. lock' = t <=> r.job = NoJob
    BY NotAThread
  <2> QED BY <1>5, <2>1, <2>2, <2>3, <2>4 DEF StackOf
<1>10. \A u \in Threads : Len(stack'[u]) = Len(stack[u])
  BY <1>1, <1>4, <1>5
<1> QED BY <1>7, <1>8, <1>9, <1>10 DEF Stacks

-----------------------------------------------------------------------------
\* The operators of the job graph mean the same in both pools.

LEMMA SameEnd ==
  ASSUME NEW j, NEW q
  PROVE  Alone!EndJob(j, q) <=> EndJob(j, q)
BY DEF Alone!EndJob, EndJob, FreedBy, Alone!FreedBy, Freed, Alone!Freed, Push,
       Alone!Push

LEMMA SameCancel ==
  ASSUME NEW S, NEW ntf
  PROVE  Alone!Cancel(S, ntf) <=> Cancel(S, ntf)
BY DEF Alone!Cancel, Cancel, CancelSet, Alone!CancelSet, Closed, Alone!Closed, Live,
       Alone!Live

LEMMA SameAttach ==
  ASSUME NEW js, NEW ds, Alone!AttachJobs(js, ds)
  PROVE  AttachJobs(js, ds)
BY DEF Alone!AttachJobs, AttachJobs, FreedNow, Alone!FreedNow, Freed, Alone!Freed,
       Push, Alone!Push, ReadyNow, Alone!ReadyNow, Cancel, Alone!Cancel, CancelSet,
       Alone!CancelSet, Closed, Alone!Closed, Live, Alone!Live

-----------------------------------------------------------------------------
\* The invariant of the pool without threads.

\* Some job of every set depends on none of the set: there are no cycles, since
\* the dependencies of a job have been scheduled before it.
WellFounded ==
  \A T \in SUBSET Jobs : T # {} => \E k \in T : deps[k] \cap T = {}

FlagTypes ==
  /\ attached \subseteq AllJobs /\ running \subseteq AllJobs
  /\ done \subseteq AllJobs /\ ran \subseteq AllJobs
  /\ pending \subseteq Jobs /\ queued \subseteq Jobs /\ cancelled \subseteq Jobs

AloneTypes ==
  StackTypes /\ JobTypes /\ FlagTypes /\ poolQueue \in Seq(ExecJobs)

AloneJobs == JobsInv([j \in Jobs |-> Frames(j)])

AloneInv == AloneTypes /\ Stacks /\ WellFounded /\ AloneJobs

LEMMA AloneTypeOK == AloneTypes <=> Alone!TypeOK
BY DEF AloneTypes, StackTypes, JobTypes, FlagTypes, Runs, Alone!TypeOK

LEMMA AloneJobsNext ==
  ASSUME NEW g, \A j \in Jobs : g[j] = Frames(j)', JobsInv(g)'
  PROVE  AloneJobs'
BY DEF AloneJobs, JobsInv

\* The types after the critical sections.
LEMMA EndTypes ==
  ASSUME JobTypes, FlagTypes, NEW j \in AllJobs, NEW q \in [Jobs -> Nat],
         EndJob(j, q), UNCHANGED <<attached, deps, notify, pending, cancelled, ran>>,
         running' \subseteq running
  PROVE  JobTypes' /\ FlagTypes'
<1>1. FreedBy(j) \subseteq Jobs
  BY DEF FreedBy, Freed, JobTypes
<1>2. queue' \in [Jobs -> Nat]
  BY <1>1, PushFacts DEF EndJob
<1>3. queued' \subseteq Jobs /\ done' \subseteq AllJobs
  BY <1>1 DEF EndJob, FlagTypes
<1> QED BY <1>2, <1>3 DEF JobTypes, FlagTypes

LEMMA AttachTypes ==
  ASSUME JobTypes, FlagTypes, NEW f, JobsInv(f), NEW js, NEW ds,
         CanAttach(js, ds), AttachJobs(js, ds), UNCHANGED <<running, ran>>
  PROVE  JobTypes' /\ FlagTypes'
<1>1. /\ attached' = attached \cup js
      /\ queued' = queued \cup FreedNow(ds)
      /\ deps' \in [Jobs -> SUBSET Jobs] /\ notify' \in [Jobs -> SUBSET Jobs]
  BY AttachFacts
<1>2. \/ /\ cancelled' = cancelled \cup js /\ done' = done \cup js
         /\ pending' = pending /\ queue' = Push(queue, FreedNow(ds))
      \/ /\ cancelled' = cancelled /\ done' = done
         /\ pending' = pending \cup (js \ ReadyNow(js))
         /\ queue' = Push(Push(queue, FreedNow(ds)), ReadyNow(js))
  BY AttachFacts
<1>3. FreedNow(ds) \in SUBSET Jobs /\ ReadyNow(js) \in SUBSET Jobs /\ js \subseteq Jobs
  BY <1>1 DEF FreedNow, Freed, ReadyNow, CanAttach
<1>4. queue' \in [Jobs -> Nat]
  <2>1. queue \in [Jobs -> Nat]
    BY DEF JobTypes
  <2>2. Push(queue, FreedNow(ds)) \in [Jobs -> Nat]
    BY <1>3, <2>1, PushFacts
  <2>3. Push(Push(queue, FreedNow(ds)), ReadyNow(js)) \in [Jobs -> Nat]
    BY <1>3, <2>2, PushFacts
  <2> QED BY <1>2, <2>2, <2>3
<1>5. FlagTypes'
  BY <1>1, <1>2, <1>3 DEF FlagTypes
<1> QED BY <1>1, <1>4, <1>5 DEF JobTypes

\* New jobs close no cycle.
LEMMA StillWellFounded ==
  ASSUME JobTypes, WellFounded, NEW f, JobsInv(f), NEW js, NEW ds,
         CanAttach(js, ds), AttachJobs(js, ds)
  PROVE  WellFounded'
<1>1. \A j \in Jobs :
        /\ deps'[j] = IF j \in js THEN ds ELSE deps[j]
        /\ notify'[j] = IF j \in ds THEN notify[j] \cup js ELSE notify[j]
  BY AttachFacts
<1>2. /\ js \subseteq Jobs /\ js \cap ds = {}
      /\ \A k \in Jobs : deps[k] \cap js = {}
  BY DEF CanAttach, JobsInv, Links
<1> SUFFICES ASSUME NEW T \in SUBSET Jobs, T # {}
             PROVE  \E k \in T : deps'[k] \cap T = {}
  BY DEF WellFounded
<1>3. CASE T \subseteq js
  <2>1. PICK k \in T : TRUE
    OBVIOUS
  <2>2. deps'[k] \cap T = {}
    BY <1>1, <1>2, <1>3, <2>1
  <2> QED BY <2>1, <2>2
<1>4. CASE ~(T \subseteq js)
  <2>1. PICK k \in T \ js : deps[k] \cap (T \ js) = {}
    <3>1. T \ js \in SUBSET Jobs /\ T \ js # {}
      BY <1>4
    <3> QED BY <3>1 DEF WellFounded
  <2>2. deps'[k] = deps[k] /\ deps[k] \cap js = {}
    BY <1>1, <1>2, <2>1
  <2> QED BY <2>1, <2>2
<1> QED BY <1>3, <1>4

-----------------------------------------------------------------------------
\* Every step keeps the invariant, and is one that JobPool allows.

PoolStep == [Pool!PoolNext]_(Pool!poolvars)

\* Steps that change no job in Jobs.
LEMMA AloneQuiet ==
  ASSUME AloneInv, StackTypes', Stacks', FlagTypes', poolQueue' \in Seq(ExecJobs),
         UNCHANGED <<deps, notify, pending, queued, cancelled, queue>>,
         attached' \cap Jobs = attached \cap Jobs,
         running' \cap Jobs = running \cap Jobs,
         done' \cap Jobs = done \cap Jobs,
         ran' \cap Jobs = ran \cap Jobs,
         \A j \in Jobs : Frames(j)' = Frames(j)
  PROVE  AloneInv' /\ PoolStep
<1>1. PICK f, g : f = [j \in Jobs |-> Frames(j)] /\ g = [j \in Jobs |-> Frames(j)']
  OBVIOUS
<1>2. JobTypes /\ JobsInv(f) /\ \A j \in Jobs : g[j] = f[j]
  BY <1>1 DEF AloneInv, AloneTypes, AloneJobs
<1>3. JobsInv(g)'
  BY <1>2, JobsKept
<1>4. AloneJobs'
  BY <1>1, <1>3, AloneJobsNext
<1>5. AloneTypes'
  BY <1>2 DEF AloneTypes, JobTypes
<1>6. WellFounded'
  BY DEF AloneInv, WellFounded
<1>7. PoolStep
  BY PoolStutter DEF PoolStep
<1> QED BY <1>4, <1>5, <1>6, <1>7 DEF AloneInv

\* Calls from a thread that is not between two rounds leave its stack alone.
LEMMA StackKept ==
  ASSUME StackTypes, Stacks, UNCHANGED <<lock, stack, current>>
  PROVE  /\ StackTypes' /\ Stacks'
         /\ \A j \in Jobs : Frames(j)' = Frames(j)
BY DEF StackTypes, Stacks, StackOf, Frames

LEMMA AloneSchedules ==
  ASSUME AloneInv, NEW t \in Threads, NEW js \in (SUBSET Jobs) \ {{}},
         NEW ds \in SUBSET (attached \cap Jobs), Alone!Schedule(t, js, ds)
  PROVE  AloneInv' /\ PoolStep
<1>1. PICK f, g : f = [j \in Jobs |-> Frames(j)] /\ g = [j \in Jobs |-> Frames(j)']
  OBVIOUS
<1>2. /\ AttachJobs(js, ds) /\ js \cap attached = {}
      /\ UNCHANGED <<lock, stack, current, poolQueue, running, ran>>
  BY SameAttach DEF Alone!Schedule
<1>3. CanAttach(js, ds) /\ js # {}
  BY <1>2 DEF CanAttach
<1>4. /\ StackTypes' /\ Stacks' /\ \A j \in Jobs : Frames(j)' = Frames(j)
  BY <1>2, StackKept DEF AloneInv, AloneTypes
<1>5. /\ JobTypes /\ FlagTypes /\ WellFounded /\ JobsInv(f)
      /\ \A j \in Jobs : g[j] = f[j]
  BY <1>1, <1>4 DEF AloneInv, AloneTypes, AloneJobs
<1>6. JobsInv(g)'
  BY <1>2, <1>3, <1>5, JobsScheduled
<1>7. JobTypes' /\ FlagTypes'
  BY <1>2, <1>3, <1>5, AttachTypes
<1>8. AloneJobs'
  BY <1>1, <1>6, AloneJobsNext
<1>9. WellFounded'
  BY <1>2, <1>3, <1>5, StillWellFounded
<1>10. PoolStep
  BY <1>2, <1>3, <1>5, PoolAdds DEF PoolStep
<1> QED BY <1>2, <1>4, <1>7, <1>8, <1>9, <1>10 DEF AloneInv, AloneTypes

LEMMA AloneCancels ==
  ASSUME AloneInv, NEW t \in Threads, NEW j \in Jobs, Alone!CancelJob(t, j)
  PROVE  AloneInv' /\ PoolStep
<1>1. PICK f, g : f = [k \in Jobs |-> Frames(k)] /\ g = [k \in Jobs |-> Frames(k)']
  OBVIOUS
<1>2. /\ j \in attached /\ Cancel({j}, notify)
      /\ UNCHANGED <<lock, stack, current, poolQueue, attached, deps, notify,
                     pending, queued, running, queue, ran>>
  BY SameCancel DEF Alone!CancelJob, Alone!graphVars
<1>3. /\ StackTypes' /\ Stacks' /\ \A k \in Jobs : Frames(k)' = Frames(k)
  BY <1>2, StackKept DEF AloneInv, AloneTypes
<1>4. /\ JobTypes /\ FlagTypes /\ WellFounded /\ JobsInv(f)
      /\ \A k \in Jobs : g[k] = f[k]
  BY <1>1, <1>3 DEF AloneInv, AloneTypes, AloneJobs
<1>5. AloneJobs'
  <2>1. JobsInv(g)'
    BY <1>2, <1>4, JobCancelled
  <2> QED BY <1>1, <2>1, AloneJobsNext
<1>6. FlagTypes' /\ JobTypes'
  <2>1. CancelSet({j}, notify) \subseteq Jobs
    BY DEF CancelSet
  <2> QED BY <1>2, <1>4, <2>1 DEF Cancel, FlagTypes, JobTypes
<1>7. WellFounded'
  BY <1>2, <1>4 DEF WellFounded
<1>8. PoolStep
  BY <1>2, <1>4, PoolCancels DEF PoolStep
<1> QED BY <1>2, <1>3, <1>5, <1>6, <1>7, <1>8 DEF AloneInv, AloneTypes

LEMMA AloneBroadcasts ==
  ASSUME AloneInv, NEW t \in Threads, NEW e \in ExecJobs, Alone!BroadcastJob(t, e)
  PROVE  AloneInv' /\ PoolStep
<1>1. /\ attached' = attached \cup {e} /\ poolQueue' = Append(poolQueue, e)
      /\ UNCHANGED <<lock, stack, current, deps, notify, pending, queued, running,
                     done, cancelled, queue, ran>>
  BY DEF Alone!BroadcastJob, Alone!flagVars
<1>2. poolQueue' \in Seq(ExecJobs)
  BY <1>1, AppendProperties DEF AloneInv, AloneTypes
<1>3. StackTypes' /\ Stacks' /\ \A j \in Jobs : Frames(j)' = Frames(j)
  BY <1>1, StackKept DEF AloneInv, AloneTypes
<1>4. FlagTypes' /\ attached' \cap Jobs = attached \cap Jobs
  BY <1>1 DEF AloneInv, AloneTypes, FlagTypes
<1> QED BY <1>1, <1>2, <1>3, <1>4, AloneQuiet

LEMMA AloneCalls ==
  ASSUME AloneInv, NEW t \in Threads, NEW info \in Jobs \cup {NoJob},
         Alone!CallMain(t, info)
  PROVE  /\ AloneInv' /\ PoolStep
         /\ \A u \in Threads : Len(stack'[u]) >= Len(stack[u])
<1>1. /\ StackTypes' /\ Stacks' /\ \A j \in Jobs : Frames(j)' = Frames(j)
      /\ \A u \in Threads : Len(stack'[u]) >= Len(stack[u])
  BY StackCalls DEF AloneInv, AloneTypes
<1>2. UNCHANGED <<poolQueue, attached, deps, notify, pending, queued, running,
                  done, cancelled, queue, ran>>
  BY DEF Alone!CallMain, Alone!graphVars, Alone!flagVars
<1>3. FlagTypes' /\ poolQueue' \in Seq(ExecJobs)
  BY <1>2 DEF AloneInv, AloneTypes, FlagTypes
<1> QED BY <1>1, <1>2, <1>3, AloneQuiet

LEMMA AloneReturns ==
  ASSUME AloneInv, NEW t \in Threads, Alone!Return(t)
  PROVE  AloneInv' /\ PoolStep
<1>1. /\ lock = t /\ stack[t] # <<>> /\ lock' = NoThread
      /\ stack' = [stack EXCEPT ![t] = Tail(@)]
      /\ UNCHANGED <<current, poolQueue, attached, deps, notify, pending, queued,
                     running, done, cancelled, queue, ran>>
  BY DEF Alone!Return, Alone!AtLoop, Alone!graphVars, Alone!flagVars
<1>2. StackTypes' /\ Stacks' /\ \A j \in Jobs : Frames(j)' = Frames(j)
  BY <1>1, StackReturns DEF AloneInv, AloneTypes
<1>3. FlagTypes' /\ poolQueue' \in Seq(ExecJobs)
  BY <1>1 DEF AloneInv, AloneTypes, FlagTypes
<1> QED BY <1>1, <1>2, <1>3, AloneQuiet

\* What Job::run() does up to execute(), whatever queue the job comes from.
LEMMA AloneExecutes ==
  ASSUME AloneInv, NEW t \in Threads, Alone!AtLoop(t), NEW j \in AllJobs,
         Alone!Execute(t, j)
  PROVE  /\ StackTypes' /\ Stacks'
         /\ \A u \in Threads : Len(stack'[u]) = Len(stack[u])
         /\ \A k \in Jobs \ {j} : Frames(k)' = Frames(k)
         /\ j \in Jobs => /\ <<t, Len(stack[t])>> \notin Frames(j)
                          /\ Frames(j)' = Frames(j) \cup {<<t, Len(stack[t])>>}
         /\ running' = running \cup {j} /\ ran' = ran \cup {j}
         /\ UNCHANGED <<attached, deps, notify, pending, queued, done, cancelled>>
<1>1. PICK r : r = [Head(stack[t]) EXCEPT !.job = j]
  OBVIOUS
<1>2. /\ stack' = [stack EXCEPT ![t] = <<r>> \o Tail(@)]
      /\ lock = t /\ lock' = NoThread /\ stack[t] # <<>>
      /\ current' = [current EXCEPT ![t] = j]
      /\ running' = running \cup {j} /\ ran' = ran \cup {j}
      /\ UNCHANGED <<attached, deps, notify, pending, queued, done, cancelled>>
  BY <1>1 DEF Alone!Execute, Alone!AtLoop, Alone!graphVars, AloneInv, AloneTypes,
              StackTypes
<1>3. StackTypes /\ Stacks
  BY DEF AloneInv, AloneTypes
<1>4. Head(stack[t]) \in Runs /\ Head(stack[t]).job = NoJob
  <2>1. stack[t] \in Seq(Runs)
    BY <1>3 DEF StackTypes
  <2>2. Head(stack[t]) \in Runs
    BY <1>2, <2>1, HeadTailProperties
  <2> QED BY <1>2, <1>3, <2>2 DEF Stacks, StackOf
<1>5. r \in Runs /\ r.job = j /\ j # NoJob
  BY <1>1, <1>4 DEF Runs
<1>6. StackTypes' /\ Stacks' /\ \A u \in Threads : Len(stack'[u]) = Len(stack[u])
  BY <1>2, <1>3, <1>5, StackRuns
<1>7. ASSUME NEW k \in Jobs
      PROVE  /\ <<t, Len(stack[t])>> \notin Frames(k)
             /\ Frames(k)' = IF k = j THEN Frames(k) \cup {<<t, Len(stack[t])>>}
                                      ELSE Frames(k)
  <2>1. /\ Frames(k)' = IF r.job = k THEN Frames(k) \cup {<<t, Len(stack[t])>>}
                                     ELSE Frames(k) \ {<<t, Len(stack[t])>>}
        /\ <<t, Len(stack[t])>> \in Frames(k) <=> Head(stack[t]).job = k
    BY <1>2, <1>3, <1>5, FramesReplaced
  <2>2. <<t, Len(stack[t])>> \notin Frames(k)
    BY <1>4, <2>1
  <2>3. Frames(k) \ {<<t, Len(stack[t])>>} = Frames(k)
    BY <2>2
  <2> QED BY <1>5, <2>1, <2>2, <2>3
<1> QED BY <1>2, <1>6, <1>7

\* threadPoolExec's jobs are none of Jobs.
LEMMA AloneRunsOwn ==
  ASSUME AloneInv, NEW t \in Threads, Alone!RunOwn(t)
  PROVE  /\ AloneInv' /\ PoolStep
         /\ \A u \in Threads : Len(stack'[u]) = Len(stack[u])
<1>1. PICK e : e = Head(poolQueue)
  OBVIOUS
<1>2. /\ Alone!AtLoop(t) /\ Alone!Execute(t, e) /\ poolQueue # <<>>
      /\ poolQueue' = Tail(poolQueue) /\ queue' = queue
  BY <1>1 DEF Alone!RunOwn
<1>3. e \in ExecJobs /\ poolQueue' \in Seq(ExecJobs)
  <2>1. poolQueue \in Seq(ExecJobs)
    BY DEF AloneInv, AloneTypes
  <2> QED BY <1>1, <1>2, <2>1, HeadTailProperties
<1>4. e \in AllJobs /\ e \notin Jobs
  BY <1>3, JobsAssumption DEF AllJobs
<1>5. /\ StackTypes' /\ Stacks'
      /\ \A u \in Threads : Len(stack'[u]) = Len(stack[u])
      /\ \A k \in Jobs : Frames(k)' = Frames(k)
      /\ running' = running \cup {e} /\ ran' = ran \cup {e}
      /\ UNCHANGED <<attached, deps, notify, pending, queued, done, cancelled>>
  BY <1>2, <1>4, AloneExecutes
<1>6. FlagTypes' /\ running' \cap Jobs = running \cap Jobs
      /\ ran' \cap Jobs = ran \cap Jobs
  BY <1>4, <1>5 DEF AloneInv, AloneTypes, FlagTypes
<1> QED BY <1>2, <1>3, <1>5, <1>6, AloneQuiet

LEMMA AloneRunsGlobal ==
  ASSUME AloneInv, NEW t \in Threads, Alone!RunGlobal(t)
  PROVE  /\ AloneInv' /\ PoolStep
         /\ \A u \in Threads : Len(stack'[u]) = Len(stack[u])
<1>1. PICK j \in Tops \ cancelled :
        Alone!Execute(t, j) /\ queue' = [queue EXCEPT ![j] = @ - 1]
  BY DEF Alone!RunGlobal, Alone!Tops, Tops
<1>2. Alone!AtLoop(t) /\ poolQueue' = poolQueue
  BY DEF Alone!RunGlobal
<1>3. j \in Jobs /\ j \in AllJobs /\ queue[j] > 0
  BY <1>1 DEF Tops, AllJobs
<1>4. PICK f, g, w : /\ f = [k \in Jobs |-> Frames(k)]
                     /\ g = [k \in Jobs |-> Frames(k)']
                     /\ w = <<t, Len(stack[t])>>
  OBVIOUS
<1>5. /\ StackTypes' /\ Stacks'
      /\ \A u \in Threads : Len(stack'[u]) = Len(stack[u])
      /\ \A k \in Jobs \ {j} : Frames(k)' = Frames(k)
      /\ w \notin Frames(j) /\ Frames(j)' = Frames(j) \cup {w}
      /\ running' = running \cup {j} /\ ran' = ran \cup {j}
      /\ UNCHANGED <<attached, deps, notify, pending, queued, done, cancelled>>
  BY <1>1, <1>2, <1>3, <1>4, AloneExecutes
<1>6. /\ JobTypes /\ FlagTypes /\ WellFounded /\ JobsInv(f)
      /\ poolQueue \in Seq(ExecJobs)
  BY <1>4 DEF AloneInv, AloneTypes, AloneJobs
<1>7. /\ w \notin f[j] /\ g[j] = f[j] \cup {w}
      /\ \A k \in Jobs \ {j} : g[k] = f[k]
  BY <1>3, <1>4, <1>5
<1>8. JobsInv(g)'
  BY <1>1, <1>5, <1>6, <1>7, JobStarts
<1>9. AloneJobs'
  BY <1>4, <1>8, AloneJobsNext
<1>10. queue' \in [Jobs -> Nat]
  BY <1>1, <1>3, <1>6 DEF JobTypes
<1>11. JobTypes' /\ FlagTypes' /\ WellFounded'
  BY <1>3, <1>5, <1>6, <1>10 DEF JobTypes, FlagTypes, WellFounded
<1>12. PoolStep
  BY <1>1, <1>5, <1>6, PoolStarts DEF PoolStep
<1> QED BY <1>2, <1>5, <1>6, <1>9, <1>11, <1>12 DEF AloneInv, AloneTypes

LEMMA AloneSkips ==
  ASSUME AloneInv, NEW t \in Threads, Alone!Skip(t)
  PROVE  AloneInv' /\ PoolStep /\ stack' = stack
<1>1. PICK j \in Tops \cap cancelled : EndJob(j, [queue EXCEPT ![j] = @ - 1])
  BY SameEnd DEF Alone!Skip, Alone!Tops, Tops
<1>2. /\ lock = t /\ stack[t] # <<>>
      /\ current' = [current EXCEPT ![t] = NoJob]
      /\ UNCHANGED <<lock, stack, poolQueue, attached, deps, notify, pending,
                     running, cancelled, ran>>
  BY DEF Alone!Skip, Alone!AtLoop, Alone!graphVars
<1>3. PICK f, g, q, w : /\ f = [k \in Jobs |-> Frames(k)]
                        /\ g = [k \in Jobs |-> Frames(k)']
                        /\ q = [queue EXCEPT ![j] = @ - 1]
                        /\ w = <<t, 0>>
  OBVIOUS
<1>4. /\ StackTypes /\ Stacks /\ JobTypes /\ FlagTypes /\ WellFounded /\ JobsInv(f)
      /\ poolQueue \in Seq(ExecJobs)
  BY <1>3 DEF AloneInv, AloneTypes, AloneJobs
<1>5. j \in Jobs /\ j \in AllJobs /\ queue[j] > 0 /\ j \in cancelled
  BY <1>1 DEF Tops, AllJobs
<1>6. q \in [Jobs -> Nat] /\ EndJob(j, q)
  BY <1>1, <1>3, <1>4, <1>5 DEF JobTypes
<1>7. StackTypes'
  BY <1>2, <1>4 DEF StackTypes
<1>8. Stacks'
  <2> SUFFICES ASSUME NEW u \in Threads PROVE StackOf(u)'
    BY DEF Stacks
  <2>1. StackOf(u)
    BY <1>4 DEF Stacks
  <2>2. CASE u = t
    <3>1. current'[u] = NoJob /\ Head(stack[u]).job = NoJob
      BY <1>2, <1>4, <2>1, <2>2 DEF StackTypes, StackOf
    <3> QED BY <1>2, <2>1, <2>2, <3>1 DEF StackOf
  <2>3. CASE u # t
    <3>1. current'[u] = current[u]
      BY <1>2, <1>4, <2>3 DEF StackTypes
    <3> QED BY <1>2, <2>1, <3>1 DEF StackOf
  <2> QED BY <2>2, <2>3
<1>9. \A k \in Jobs : Frames(k)' = Frames(k)
  BY <1>2 DEF Frames
<1>10. w \notin Frames(j)
  BY <1>3 DEF Frames, Has
<1>11. /\ w \notin f[j] /\ g[j] = f[j] \ {w}
       /\ \A k \in Jobs \ {j} : g[k] = f[k]
  BY <1>3, <1>5, <1>9, <1>10
<1>12. JobsInv(g)'
  <2>1. UNCHANGED <<attached, deps, notify, pending, cancelled, ran>>
        /\ running' = running
    BY <1>2
  <2> QED BY <1>3, <1>4, <1>5, <1>6, <1>11, <2>1, JobEnds
<1>13. AloneJobs'
  BY <1>3, <1>12, AloneJobsNext
<1>14. JobTypes' /\ FlagTypes' /\ WellFounded'
  BY <1>2, <1>4, <1>5, <1>6, EndTypes DEF WellFounded
<1>15. PoolStep
  <2>1. done' = done \cup {j}
    BY <1>6 DEF EndJob
  <2> QED BY <1>1, <1>2, <1>4, <1>5, <2>1, PoolDiscards DEF PoolStep
<1> QED BY <1>2, <1>4, <1>7, <1>8, <1>13, <1>14, <1>15 DEF AloneInv, AloneTypes

\* The rest of Job::run(), for a job of a script or one of threadPoolExec's.
LEMMA AloneFinishes ==
  ASSUME AloneInv, NEW t \in Threads, Alone!Finish(t)
  PROVE  /\ AloneInv' /\ PoolStep
         /\ \A u \in Threads : Len(stack'[u]) = Len(stack[u])
<1>1. PICK j, r, w : /\ j = Head(stack[t]).job
                     /\ r = Alone!Run(Head(stack[t]).info)
                     /\ w = <<t, Len(stack[t])>>
  OBVIOUS
<1>2. /\ lock = NoThread /\ stack[t] # <<>> /\ j # NoJob
      /\ EndJob(j, queue) /\ running' = running \ {j}
      /\ stack' = [stack EXCEPT ![t] = <<r>> \o Tail(@)]
      /\ current' = [current EXCEPT ![t] = NoJob] /\ lock' = t
      /\ UNCHANGED <<poolQueue, attached, deps, notify, pending, cancelled, ran>>
  BY <1>1, SameEnd DEF Alone!Finish, Alone!InJob, Alone!Top, Alone!AfterJob,
                       Alone!graphVars, AloneInv, AloneTypes, StackTypes
<1>3. PICK f, g : f = [k \in Jobs |-> Frames(k)] /\ g = [k \in Jobs |-> Frames(k)']
  OBVIOUS
<1>4. /\ StackTypes /\ Stacks /\ JobTypes /\ FlagTypes /\ WellFounded /\ JobsInv(f)
      /\ poolQueue \in Seq(ExecJobs)
  BY <1>3 DEF AloneInv, AloneTypes, AloneJobs
<1>5. Head(stack[t]) \in Runs
  <2>1. stack[t] \in Seq(Runs)
    BY <1>4 DEF StackTypes
  <2> QED BY <1>2, <2>1, HeadTailProperties
<1>6. r \in Runs /\ r.job = NoJob /\ j \in AllJobs
  BY <1>1, <1>2, <1>5 DEF Runs, Alone!Run
<1>7. StackTypes' /\ Stacks' /\ \A u \in Threads : Len(stack'[u]) = Len(stack[u])
  BY <1>2, <1>4, <1>6, StackRuns
<1>8. \A k \in Jobs : /\ Frames(k)' = Frames(k) \ {w}
                      /\ w \in Frames(k) <=> j = k
  <2> TAKE k \in Jobs
  <2>1. /\ Frames(k)' = IF r.job = k THEN Frames(k) \cup {<<t, Len(stack[t])>>}
                                     ELSE Frames(k) \ {<<t, Len(stack[t])>>}
        /\ <<t, Len(stack[t])>> \in Frames(k) <=> Head(stack[t]).job = k
    BY <1>2, <1>4, <1>6, FramesReplaced
  <2>2. r.job # k
    BY <1>6, JobsAssumption DEF AllJobs
  <2> QED BY <1>1, <2>1, <2>2
<1>9. JobTypes' /\ FlagTypes'
  <2>1. queue \in [Jobs -> Nat] /\ running' \subseteq running
    BY <1>2, <1>4 DEF JobTypes
  <2> QED BY <1>2, <1>4, <1>6, <2>1, EndTypes
<1>10. WellFounded'
  BY <1>2, <1>4 DEF WellFounded
<1>11. CASE j \in Jobs
  <2>1. w \in f[j] /\ g[j] = f[j] \ {w} /\ \A k \in Jobs \ {j} : g[k] = f[k]
    BY <1>3, <1>8, <1>11
  <2>2. queue \in [Jobs -> Nat]
    BY <1>4 DEF JobTypes
  <2>3. JobsInv(g)'
    BY <1>2, <1>4, <1>11, <2>1, <2>2, JobEnds
  <2>4. AloneJobs'
    BY <1>3, <2>3, AloneJobsNext
  <2>5. PoolStep
    <3>1. done' = done \cup {j} /\ f[j] # {}
      BY <1>2, <2>1 DEF EndJob
    <3> QED BY <1>2, <1>4, <1>11, <3>1, PoolFinishes DEF PoolStep
  <2> QED BY <1>2, <1>4, <1>7, <1>9, <1>10, <2>4, <2>5 DEF AloneInv, AloneTypes
<1>12. CASE j \notin Jobs
  <2>1. FreedBy(j) = {}
    BY <1>12 DEF FreedBy, Freed
  <2>2. done' \cap Jobs = done \cap Jobs /\ queued' = queued
        /\ running' \cap Jobs = running \cap Jobs
    BY <1>2, <1>12, <2>1 DEF EndJob
  <2>3. queue' = queue
    BY <1>2, <1>4, <2>1 DEF EndJob, Push, JobTypes
  <2>4. \A k \in Jobs : Frames(k)' = Frames(k)
    BY <1>8, <1>12
  <2> QED BY <1>2, <1>4, <1>7, <1>9, <2>2, <2>3, <2>4, AloneQuiet
<1> QED BY <1>7, <1>11, <1>12

\* Every step; a run of Scheduler::main ends only in Return.
LEMMA AloneNext ==
  ASSUME AloneInv, [Alone!Next]_(Alone!vars)
  PROVE  /\ AloneInv' /\ PoolStep
         /\ \A u \in Threads :
              \/ Len(stack'[u]) >= Len(stack[u])
              \/ \E t \in Threads : Alone!Return(t)
<1> DEFINE Kept == \A u \in Threads : Len(stack'[u]) >= Len(stack[u])
           Goal == /\ AloneInv' /\ PoolStep
                   /\ Kept \/ \E t \in Threads : Alone!Return(t)
<1>1. \A u \in Threads : Len(stack[u]) \in Nat
  BY DEF AloneInv, AloneTypes, StackTypes
<1>2. ASSUME \A u \in Threads : Len(stack'[u]) = Len(stack[u]) PROVE Kept
  BY <1>1, <1>2
<1>3. ASSUME stack' = stack PROVE Kept
  BY <1>1, <1>3
<1>4. CASE UNCHANGED Alone!vars
  <2>1. UNCHANGED <<lock, stack, current, poolQueue, attached, deps, notify, pending,
                    queued, running, done, cancelled, queue, ran>>
    BY <1>4 DEF Alone!vars, Alone!graphVars, Alone!flagVars
  <2>2. StackTypes' /\ Stacks' /\ \A j \in Jobs : Frames(j)' = Frames(j)
    BY <2>1, StackKept DEF AloneInv, AloneTypes
  <2>3. FlagTypes' /\ poolQueue' \in Seq(ExecJobs)
    BY <2>1 DEF AloneInv, AloneTypes, FlagTypes
  <2>4. AloneInv' /\ PoolStep
    BY <2>1, <2>2, <2>3, AloneQuiet
  <2> QED BY <1>3, <2>1, <2>4
<1>5. ASSUME NEW t \in Threads, Alone!Loop(t) PROVE Goal
  <2>1. CASE Alone!Return(t)
    BY <2>1, AloneReturns
  <2>2. CASE Alone!RunOwn(t)
    BY <1>2, <2>2, AloneRunsOwn
  <2>3. CASE Alone!RunGlobal(t)
    BY <1>2, <2>3, AloneRunsGlobal
  <2>4. CASE Alone!Skip(t)
    BY <1>3, <2>4, AloneSkips
  <2> QED BY <1>5, <2>1, <2>2, <2>3, <2>4 DEF Alone!Loop
<1>6. ASSUME NEW t \in Threads, Alone!Finish(t) PROVE Goal
  BY <1>2, <1>6, AloneFinishes
<1>7. ASSUME NEW t \in Threads, Alone!Call(t) PROVE Goal
  <2>1. ASSUME NEW js \in (SUBSET Jobs) \ {{}},
               NEW ds \in SUBSET (attached \cap Jobs), Alone!Schedule(t, js, ds)
        PROVE  Goal
    <3>1. stack' = stack
      BY <2>1 DEF Alone!Schedule
    <3> QED BY <1>3, <2>1, <3>1, AloneSchedules
  <2>2. ASSUME NEW j \in Jobs, Alone!CancelJob(t, j) PROVE Goal
    <3>1. stack' = stack
      BY <2>2 DEF Alone!CancelJob
    <3> QED BY <1>3, <2>2, <3>1, AloneCancels
  <2>3. ASSUME NEW j \in Jobs, Alone!WaitJob(t, j) PROVE Goal
    BY <2>3, AloneCalls DEF Alone!WaitJob
  <2>4. ASSUME NEW e \in ExecJobs, Alone!BroadcastJob(t, e) PROVE Goal
    <3>1. stack' = stack
      BY <2>4 DEF Alone!BroadcastJob
    <3> QED BY <1>3, <2>4, <3>1, AloneBroadcasts
  <2>5. CASE Alone!Shutdown(t)
    BY <2>5, AloneCalls DEF Alone!Shutdown
  <2> QED BY <1>7, <2>1, <2>2, <2>3, <2>4, <2>5 DEF Alone!Call
<1>8. CASE Alone!Next
  BY <1>5, <1>6, <1>7, <1>8 DEF Alone!Next
<1>9. Goal
  BY <1>4, <1>8
<1> QED BY <1>9

LEMMA AloneInit ==
  ASSUME Alone!Init
  PROVE  AloneInv /\ Pool!PoolInit
<1>1. /\ lock = NoThread /\ stack = [t \in Threads |-> <<>>]
      /\ current = [t \in Threads |-> NoJob] /\ poolQueue = <<>>
      /\ attached = {} /\ pending = {}
      /\ deps = [j \in Jobs |-> {}] /\ notify = [j \in Jobs |-> {}]
      /\ queued = {} /\ running = {} /\ done = {} /\ cancelled = {}
      /\ queue = [j \in Jobs |-> 0] /\ ran = {}
  BY DEF Alone!Init, Alone!GraphInit
<1>2. AloneTypes /\ Stacks
  BY <1>1, NotAThread DEF AloneTypes, StackTypes, JobTypes, FlagTypes, Stacks, StackOf
<1>3. \A j \in Jobs : Frames(j) = {}
  BY <1>1 DEF Frames, Has
<1>4. PICK f : f = [j \in Jobs |-> Frames(j)]
  OBVIOUS
<1>5. JobsInv(f)
  BY <1>1, <1>3, <1>4 DEF JobsInv, Links, UntouchedIn, FlagsIn, OnceIn, NotLost,
                          Single
<1>6. WellFounded
  BY <1>1 DEF WellFounded
<1>7. Pool!PoolInit
  BY <1>1 DEF Pool!PoolInit
<1> QED BY <1>2, <1>4, <1>5, <1>6, <1>7 DEF AloneInv, AloneJobs

\* A run ends without the result it was called for only if the job is waiting
\* for one that is being executed: of the jobs that it waits for, some one waits
\* for none of them, and since nothing is in the queue, that one is executed.
LEMMA AloneGivesUp ==
  ASSUME AloneInv, NEW t \in Threads, Alone!Return(t),
         NEW j \in (attached \cap Jobs) \ done, Top(t).info \in {j, NoJob}
  PROVE  \E k \in Missing(j) : ExecutedBy(k) # {}
<1> DEFINE M == Missing(j)
           Todo == {k \in attached \cap Jobs : k \notin done}
<1>1. PICK f : f = [k \in Jobs |-> Frames(k)]
  OBVIOUS
<1>2. /\ JobTypes /\ FlagTypes /\ WellFounded /\ JobsInv(f)
  BY <1>1 DEF AloneInv, AloneTypes, AloneJobs
<1>3. NoJob \notin done
  BY <1>2, JobsAssumption DEF FlagTypes, AllJobs
<1>4. \A k \in Jobs : queue[k] = 0
  <2>1. Alone!NothingLeft
    BY <1>3 DEF Alone!Return, Alone!Top, Top
  <2> QED BY <1>2, <2>1 DEF Alone!NothingLeft, Alone!NotEmpty, JobTypes
<1>5. M \in SUBSET Jobs /\ j \in M
  BY DEF Missing
<1>6. \A n \in M : deps[n] \ done \subseteq M
  BY <1>2 DEF Missing, JobTypes
<1>7. M \subseteq Todo
  <2>1. Todo \in SUBSET Jobs /\ j \in Todo
    OBVIOUS
  <2>2. \A n \in Todo : deps[n] \ done \subseteq Todo
    BY <1>2 DEF JobsInv, Links, JobTypes
  <2> QED BY <2>1, <2>2 DEF Missing
<1>8. PICK k \in M : deps[k] \cap M = {}
  BY <1>2, <1>5 DEF WellFounded
<1>9. k \in Todo /\ deps[k] \subseteq done
  BY <1>6, <1>7, <1>8
<1>10. Frames(k) # {}
  BY <1>1, <1>2, <1>4, <1>9 DEF JobsInv, NotLost
<1>11. PICK u \in Threads, n \in Nat : Has(stack[u], n, k)
  BY <1>10 DEF Frames
<1>12. u \in DOMAIN stack /\ stack[u] \in Seq(Runs)
  BY DEF AloneInv, AloneTypes, StackTypes
<1>13. PICK i : i = Len(stack[u]) + 1 - n
  OBVIOUS
<1>14. i \in DOMAIN stack[u] /\ stack[u][i].job = k
  BY <1>11, <1>12, <1>13 DEF Has
<1>15. u \in ExecutedBy(k)
  BY <1>12, <1>14 DEF ExecutedBy
<1> QED BY <1>8, <1>15

-----------------------------------------------------------------------------
\* In every state of the pool without threads its variables have their types,
\* every run of Scheduler::main but the innermost of a thread executes a job
\* that waits, dependencies form no cycle, a job is taken from the queue or
\* executed only when its dependencies are done, and no job is lost.
THEOREM AloneInvariance == Alone!Spec => []AloneInv
<1>1. Alone!Init => AloneInv
  BY AloneInit
<1>2. AloneInv /\ [Alone!Next]_(Alone!vars) => AloneInv'
  BY AloneNext
<1> QED BY <1>1, <1>2, PTL DEF Alone!Spec

\* The variables of the pool without threads keep their types.
THEOREM AloneTypeCorrect == Alone!Spec => []Alone!TypeOK
<1>1. AloneInv => Alone!TypeOK
  BY AloneTypeOK DEF AloneInv
<1> QED BY <1>1, AloneInvariance, PTL

\* A thread that executes a job in the pool without threads finds that job in
\* currentJobRef, or none once the job has called waitJob(), however many runs
\* of Scheduler::main are nested; never another job.
THEOREM RightCurrentJob == Alone!Spec => []CurrentJob
<1>1. AloneInv => CurrentJob
  BY DEF AloneInv, AloneTypes, StackTypes, Stacks, StackOf, CurrentJob, InJob, Top
<1> QED BY <1>1, AloneInvariance, PTL

\* waitJob() without a result and closeThreadPool() leave behind only jobs that
\* wait for a job being executed.
THEOREM NoneGivenUp == Alone!Spec => NoJobGivenUp
<1> DEFINE Step == \A t \in DOMAIN stack : Len(stack'[t]) < Len(stack[t]) =>
                     \A j \in (attached \cap Jobs) \ done :
                       Top(t).info \in {j, NoJob} =>
                         \E k \in Missing(j) : ExecutedBy(k) # {}
<1>1. ASSUME AloneInv, [Alone!Next]_(Alone!vars) PROVE Step
  <2> SUFFICES ASSUME NEW t \in DOMAIN stack, Len(stack'[t]) < Len(stack[t]),
                      NEW j \in (attached \cap Jobs) \ done,
                      Top(t).info \in {j, NoJob}
               PROVE  \E k \in Missing(j) : ExecutedBy(k) # {}
    OBVIOUS
  <2>1. AloneInv' /\ t \in Threads
    BY <1>1, AloneNext DEF AloneInv, AloneTypes, StackTypes
  <2>2. Len(stack[t]) \in Nat /\ Len(stack'[t]) \in Nat
    BY <1>1, <2>1 DEF AloneInv, AloneTypes, StackTypes
  <2>3. PICK u \in Threads : Alone!Return(u)
    BY <1>1, <2>1, <2>2, AloneNext
  <2>4. u = t
    <3>1. stack' = [stack EXCEPT ![u] = Tail(@)]
      BY <2>3 DEF Alone!Return
    <3>2. u # t => stack'[t] = stack[t]
      BY <1>1, <3>1 DEF AloneInv, AloneTypes, StackTypes
    <3> QED BY <2>1, <2>2, <3>2
  <2> QED BY <1>1, <2>1, <2>3, <2>4, AloneGivesUp
<1>2. AloneInv /\ [Alone!Next]_(Alone!vars) => [Step]_stack
  BY <1>1
<1> QED BY <1>2, AloneInvariance, PTL DEF Alone!Spec, NoJobGivenUp

\* The pool without threads implements JobPool, as the one with threads does.
THEOREM AloneImplementation == Alone!Spec => ImplementsPool
<1>1. Alone!Init => Pool!PoolInit
  BY AloneInit
<1>2. AloneInv /\ [Alone!Next]_(Alone!vars) => PoolStep
  BY AloneNext
<1> QED BY <1>1, <1>2, AloneInvariance, PTL
        DEF Alone!Spec, ImplementsPool, PoolStep, Pool!PoolSpec
==============================================================================
