---------------------------- MODULE TriggersProofs ----------------------------
(***************************************************************************)
(* Triggers for any number of threads, jobs and triggers: its types, that  *)
(* a trigger that has got enough is executed, that an accumulator gets the *)
(* results of the tasks it is chained to, and that what a trigger has got  *)
(* stays as it is from when it is executed.                                *)
(***************************************************************************)
EXTENDS Triggers, SequenceTheorems, TLAPS

USE ThreadsAssumption, TasksAssumption, LinksAssumption, ArgumentsAssumption,
    LimitsAssumption, BoundsAssumption

LEMMA Members ==
  /\ Workers \subseteq Threads /\ Clients \subseteq Threads
  /\ Jobs \subseteq Tasks /\ Trigs \subseteq Tasks /\ NoTask \notin Tasks
BY DEF Threads, Tasks

USE Members

\* Where a thread is with a trigger in its hands.
InHand == {"proc", "relock", "check"}

\* What a thread holds in each place.  notifyDeps() is performed only for tasks
\* that are done, and only triggers of the pool are activated.
Place(th) ==
  /\ pc[th] \in {"idle", "exec"} \/ (pc[th] \in InHand /\ task[th] = NoTask)
       => at[th] = 0
  /\ pc[th] = "idle" => task[th] = NoTask
  /\ pc[th] = "exec" => task[th] \in attached
  /\ pc[th] = "notify" => task[th] \in done
  /\ pc[th] \in InHand => trig[th] \in attached \cap Trigs
  /\ pc[th] \in InHand => task[th] \in done \cup {NoTask}
  /\ pc[th] = "proc" => kind[trig[th]] = "proc"

Places == \A th \in Threads : Place(th)

\* What is chained is in the pool, and a pair in `early' is really chained.
Chained ==
  /\ done \subseteq attached
  /\ \A x \in Tasks : \A i \in 1 .. Len(triggers[x]) : triggers[x][i] \in attached
  /\ \A x \in Tasks, t \in Trigs : <<x, t>> \in early =>
       {x, t} \subseteq attached /\ \E i \in 1 .. Len(triggers[x]) : triggers[x][i] = t

\* A trigger starts with nothing.  A proc trigger gets its one element again
\* when a second thread has called the procedure too.
Contents ==
  \A t \in Trigs :
    /\ t \notin attached => got[t] = <<>>
    /\ kind[t] = "proc" => limit[t] = 1 /\ got[t] \in {<<>>, <<1>>}

\* A trigger fires only when it has got enough.
Fired(t) == queue[t] > 0 \/ t \in done \/ Executing(t) # {}
FiredReady == \A t \in Trigs : Fired(t) => t \in attached /\ Ready(t)

Has(t, x) == \E i \in 1 .. Len(got[t]) : got[t][i] = x

\* A thread on its way through the triggers of x comes to t yet.
Ahead(th, i) ==
  \/ pc[th] = "notify" /\ at[th] =< i
  \/ pc[th] \in InHand /\ at[th] < i
OnItsWay(x, t) ==
  \E th \in Threads : task[th] = x /\
    \E i \in 1 .. Len(triggers[x]) : triggers[x][i] = t /\ Ahead(th, i)

Results ==
  \A x \in done, t \in Trigs :
    <<x, t>> \in early /\ kind[t] = "acc" /\ ResultOf(x) # <<>>
    => Ready(t) \/ Has(t, x) \/ OnItsWay(x, t)

TInv == /\ TypeOK /\ Places /\ Chained /\ Contents /\ FiredReady
        /\ NoLostTrigger /\ Results

-----------------------------------------------------------------------------
\* What a trigger may get.
Items == Tasks \cup Nat

\* Fill() only adds to what there is, and adds a single element that fits.
LEMMA FillFacts ==
  ASSUME NEW s \in Seq(Items), NEW arg \in Seq(Items), NEW n \in Nat, Len(s) < n,
         NEW f, f = SubSeq(s \o arg, 1,
                           IF Len(s \o arg) < n THEN Len(s \o arg) ELSE n)
  PROVE  /\ f \in Seq(Items) /\ Len(f) >= Len(s)
         /\ \A i \in 1 .. Len(s) : f[i] = s[i]
         /\ \A x : arg = <<x>> => \E i \in 1 .. Len(f) : f[i] = x
<1> DEFINE all == s \o arg
           m == IF Len(all) < n THEN Len(all) ELSE n
<1>0. f = SubSeq(all, 1, m)
  OBVIOUS
<1>1. /\ all \in Seq(Items) /\ Len(all) = Len(s) + Len(arg)
      /\ \A i \in 1 .. Len(all) :
           all[i] = IF i <= Len(s) THEN s[i] ELSE arg[i - Len(s)]
  BY ConcatProperties
<1>2. m \in Nat /\ m <= Len(all) /\ Len(s) <= m
  BY <1>1
<1>3. f \in Seq(Items) /\ Len(f) = m /\ \A i \in 1 .. m : f[i] = all[i]
  BY <1>0, <1>1, <1>2, SubSeqProperties
<1>4. \A i \in 1 .. Len(s) : f[i] = s[i]
  BY <1>1, <1>2, <1>3
<1>5. ASSUME NEW x, arg = <<x>> PROVE \E i \in 1 .. Len(f) : f[i] = x
  <2>1. Len(arg) = 1 /\ arg[1] = x
    BY <1>5
  <2>2. m = Len(s) + 1
    BY <1>1, <2>1
  <2>3. f[m] = x
    BY <1>1, <1>2, <1>3, <2>1, <2>2
  <2> QED BY <1>3, <2>2, <2>3
<1> QED BY <1>2, <1>3, <1>4, <1>5

\* What activate() makes of a trigger that accepts the argument.
LEMMA GainedFacts ==
  ASSUME TypeOK, NEW t \in Trigs, NEW arg \in Seq(Items), Accepts(t, arg),
         kind[t] = "proc" => Full(t)
  PROVE  LET g == Gained(t, arg)
         IN /\ g \in Seq(Items)
            /\ Full(t) => g = got[t]
            /\ Len(g) >= Len(got[t])
            /\ \A i \in 1 .. Len(got[t]) : g[i] = got[t][i]
            /\ kind[t] = "acc" /\ ~Full(t) =>
                 \A x : arg = <<x>> => \E i \in 1 .. Len(g) : g[i] = x
<1>1. got[t] \in Seq(Items) /\ limit[t] \in Nat /\ kind[t] \in Kinds
  BY DEF TypeOK, Items
<1>2. CASE Full(t)
  <2>1. Gained(t, arg) = got[t]
    BY <1>2 DEF Gained, Full, Ready
  <2> QED BY <1>1, <1>2, <2>1
<1>3. CASE ~Full(t) /\ kind[t] = "acc"
  <2>1. Len(got[t]) < limit[t]
    BY <1>1, <1>3 DEF Full, Ready
  <2>2. Gained(t, arg) = Fill(t, arg)
    BY <1>3 DEF Gained, Full, Ready
  <2> DEFINE f == Fill(t, arg)
  <2>3. f = SubSeq(got[t] \o arg, 1, IF Len(got[t] \o arg) < limit[t]
                                       THEN Len(got[t] \o arg) ELSE limit[t])
    BY DEF Fill
  <2> HIDE DEF f
  <2>4. /\ f \in Seq(Items) /\ Len(f) >= Len(got[t])
        /\ \A i \in 1 .. Len(got[t]) : f[i] = got[t][i]
        /\ \A x : arg = <<x>> => \E i \in 1 .. Len(f) : f[i] = x
    <3>1. got[t] \in Seq(Items) /\ limit[t] \in Nat
      BY <1>1
    <3>2. ASSUME NEW s, s = got[t], NEW n, n = limit[t], NEW g, g = f
          PROVE  /\ g \in Seq(Items) /\ Len(g) >= Len(s)
                 /\ \A i \in 1 .. Len(s) : g[i] = s[i]
                 /\ \A x : arg = <<x>> => \E i \in 1 .. Len(g) : g[i] = x
      <4>1. s \in Seq(Items)
        BY <3>1, <3>2
      <4>2. n \in Nat
        BY <3>1, <3>2
      <4>3. Len(s) < n
        BY <2>1, <3>2
      <4>4. g = SubSeq(s \o arg, 1, IF Len(s \o arg) < n
                                      THEN Len(s \o arg) ELSE n)
        BY <2>3, <3>2
      <4> QED BY <4>1, <4>2, <4>3, <4>4, FillFacts, SMTT(30)
    <3> QED BY <3>2
  <2>5. Gained(t, arg) = f
    BY <2>2 DEF f
  <2> QED BY <1>3, <2>4, <2>5
<1>4. ASSUME NEW e \in Items, Gained(t, arg) = Append(got[t], e), kind[t] # "acc", ~Full(t)
      PROVE  /\ Gained(t, arg) \in Seq(Items)
             /\ Len(Gained(t, arg)) >= Len(got[t])
             /\ \A i \in 1 .. Len(got[t]) : Gained(t, arg)[i] = got[t][i]
  BY <1>1, <1>4, AppendProperties
<1>5. CASE ~Full(t) /\ kind[t] = "count"
  <2>1. Gained(t, arg) = Append(got[t], 1) /\ 1 \in Items
    BY <1>5 DEF Gained, Items
  <2>2. kind[t] # "acc"
    BY <1>5
  <2>3. /\ Gained(t, arg) \in Seq(Items)
        /\ Len(Gained(t, arg)) >= Len(got[t])
        /\ \A i \in 1 .. Len(got[t]) : Gained(t, arg)[i] = got[t][i]
    BY <1>4, <1>5, <2>1, <2>2
  <2> QED BY <1>5, <2>2, <2>3
<1>6. CASE ~Full(t) /\ kind[t] = "set"
  <2>1. arg # <<>> /\ Head(arg) \in Items
    BY <1>6, HeadTailProperties DEF Accepts
  <2>2. CASE New(t, Head(arg))
    <3>1. Gained(t, arg) = Append(got[t], Head(arg))
      BY <1>6, <2>2 DEF Gained
    <3>2. kind[t] # "acc"
      BY <1>6
    <3>3. /\ Gained(t, arg) \in Seq(Items)
          /\ Len(Gained(t, arg)) >= Len(got[t])
          /\ \A i \in 1 .. Len(got[t]) : Gained(t, arg)[i] = got[t][i]
      BY <1>4, <1>6, <2>1, <3>1, <3>2
    <3> QED BY <1>6, <3>2, <3>3
  <2>3. CASE ~New(t, Head(arg))
    BY <1>1, <1>6, <2>3 DEF Gained
  <2> QED BY <2>2, <2>3
<1> QED BY <1>1, <1>2, <1>3, <1>5, <1>6 DEF Kinds

LEMMA ResultItems == ASSUME NEW x \in Tasks PROVE ResultOf(x) \in Seq(Items)
<1>1. <<x>> \in Seq(Items) /\ <<>> \in Seq(Items)
  BY DEF Items
<1> QED BY <1>1 DEF ResultOf

\* What an activation does, by whomever.
LEMMA ActivateFacts ==
  ASSUME TypeOK, NEW th \in Threads, NEW t \in Trigs, NEW arg \in Seq(Items),
         Activate(th, t, arg)
  PROVE  /\ trig' = [trig EXCEPT ![th] = t]
         /\ \/ /\ kind[t] = "proc" /\ lock' = NoThread /\ got' = got
               /\ pc' = [pc EXCEPT ![th] = "proc"]
            \/ /\ pc' = [pc EXCEPT ![th] = "check"] /\ lock' = th
               /\ got' = [got EXCEPT ![t] = Gained(t, arg)]
               /\ kind[t] = "proc" => Full(t)
         /\ UNCHANGED <<job, kind, limit, graphVars, flagVars, aborted>>
BY DEF Activate

LEMMA CurrentTrigger ==
  ASSUME TypeOK, NEW th \in Threads, task[th] \in Tasks, InTriggers(th)
  PROVE  Current(th) \in Trigs
<1>1. triggers[task[th]] \in Seq(Trigs)
  BY DEF TypeOK
<1> QED BY <1>1, ElementOfSeq DEF InTriggers, Current

-----------------------------------------------------------------------------
\* Types.
LEMMA PushType ==
  ASSUME TypeOK, NEW x \in Tasks, Push(x) \/ UNCHANGED queue
  PROVE  queue' \in [Tasks -> Nat]
<1>1. CASE queue' = [queue EXCEPT ![x] = @ + 1]
  BY <1>1 DEF TypeOK
<1>2. CASE queue' = queue
  BY <1>2 DEF TypeOK
<1> QED BY <1>1, <1>2 DEF Push

LEMMA TypeActivate ==
  ASSUME TypeOK, NEW th \in Threads, NEW t \in Trigs, NEW arg \in Seq(Items),
         CanEnter(th), Activate(th, t, arg), UNCHANGED <<task, at>>,
         updates' \in 0 .. MaxUpdates
  PROVE  TypeOK'
<1>0. /\ UNCHANGED <<job, kind, limit, aborted, attached, deps, notify, triggers,
                     early, done, queued, queue>>
      /\ trig' = [trig EXCEPT ![th] = t]
      /\ \/ /\ kind[t] = "proc" /\ lock' = NoThread /\ got' = got
            /\ pc' = [pc EXCEPT ![th] = "proc"]
         \/ /\ pc' = [pc EXCEPT ![th] = "check"] /\ lock' = th
            /\ got' = [got EXCEPT ![t] = Gained(t, arg)]
            /\ kind[t] = "proc" => Full(t)
  BY ActivateFacts DEF graphVars, flagVars
<1>1. \A u \in Threads : u # th => pc[u] \notin {"notify", "check"}
  BY DEF TypeOK, CanEnter
<1>2. /\ lock' \in Threads \cup {NoThread}
      /\ trig' \in [Threads -> Trigs \cup {NoTask}]
      /\ pc' \in [Threads ->
                   {"idle", "exec", "notify", "proc", "relock", "check"}]
      /\ \A u \in Threads : pc'[u] \in {"notify", "check"} => lock' = u
  BY <1>0, <1>1 DEF TypeOK
<1>3. got' \in [Trigs -> Seq(Items)]
  <2>1. got \in [Trigs -> Seq(Items)]
    BY DEF TypeOK, Items
  <2>2. Accepts(t, arg)
    BY DEF Activate
  <2>3. CASE got' = got
    BY <2>1, <2>3
  <2>4. CASE got' = [got EXCEPT ![t] = Gained(t, arg)] /\ (kind[t] = "proc" => Full(t))
    <3>1. Gained(t, arg) \in Seq(Items)
      BY <2>2, <2>4, GainedFacts
    <3> QED BY <2>1, <2>4, <3>1
  <2> QED BY <1>0, <2>3, <2>4
<1> QED BY <1>0, <1>2, <1>3 DEF TypeOK, Items

LEMMA TypeCommand ==
  ASSUME TypeOK, NEW c \in Clients, Command(c)
  PROVE  TypeOK'
<1> USE DEF threadVars, trigVars, graphVars, flagVars
<1>1. ASSUME NEW t \in Trigs, CreateTrigger(c, t) PROVE TypeOK'
  <2>1. PICK k \in Kinds, n \in Limits \cup {1} :
          /\ kind' = [kind EXCEPT ![t] = k] /\ limit' = [limit EXCEPT ![t] = n]
          /\ IF n = 0 THEN Push(t) ELSE UNCHANGED queue
    BY <1>1 DEF CreateTrigger
  <2>2. queue' \in [Tasks -> Nat]
    BY <2>1, PushType
  <2>3. kind' \in [Trigs -> Kinds] /\ limit' \in [Trigs -> Nat]
    BY <2>1 DEF TypeOK
  <2>4. UNCHANGED <<lock, pc, task, at, trig, job, got, deps, notify, triggers,
                   early, done, queued, updates, aborted>>
    BY <1>1 DEF CreateTrigger
  <2>5. attached' \subseteq Tasks
    BY <1>1 DEF CreateTrigger, TypeOK
  <2> QED BY <2>2, <2>3, <2>4, <2>5 DEF TypeOK
<1>2. ASSUME NEW t \in Trigs, NEW x \in Tasks, ChainTrigger(c, t, x) PROVE TypeOK'
  <2>1. Append(triggers[x], t) \in Seq(Trigs)
    BY AppendProperties DEF TypeOK
  <2>2. triggers' \in [Tasks -> Seq(Trigs)]
    BY <1>2, <2>1 DEF ChainTrigger, TypeOK
  <2>3. early' \subseteq Tasks \X Trigs
    BY <1>2 DEF ChainTrigger, TypeOK
  <2> QED BY <1>2, <2>2, <2>3 DEF ChainTrigger, TypeOK
<1>3. ASSUME NEW t \in Trigs, NEW arg \in Arguments, UpdateTrigger(c, t, arg)
      PROVE  TypeOK'
  <2>1. arg \in Seq(Items)
    BY SeqMonotonic DEF Items
  <2>2. updates' \in 0 .. MaxUpdates
    BY <1>3 DEF UpdateTrigger, TypeOK
  <2>3. CASE Activate(c, t, arg)
    BY <1>3, <2>1, <2>2, <2>3, TypeActivate DEF UpdateTrigger
  <2>4. CASE NullArgument(c, t, arg)
    BY <1>3, <2>2, <2>4 DEF UpdateTrigger, NullArgument, TypeOK
  <2> QED BY <1>3, <2>3, <2>4 DEF UpdateTrigger
<1>4. ASSUME NEW j \in Jobs, StartJob(c, j) PROVE TypeOK'
  <2>1. queue' \in [Tasks -> Nat]
    BY <1>4, PushType DEF StartJob
  <2>2. UNCHANGED <<lock, pc, task, at, trig, job, kind, limit, got, deps, notify,
                   triggers, early, done, queued, updates, aborted>>
    BY <1>4 DEF StartJob
  <2>3. attached' \subseteq Tasks
    BY <1>4 DEF StartJob, TypeOK
  <2> QED BY <2>1, <2>2, <2>3 DEF TypeOK
<1>5. ASSUME NEW j \in Jobs, NEW x \in Tasks, ScheduleJob(c, j, x) PROVE TypeOK'
  <2>1. deps' \in [Jobs -> SUBSET Tasks] /\ notify' \in [Tasks -> SUBSET Jobs]
    BY <1>5 DEF ScheduleJob, TypeOK
  <2>2. CASE x \in done
    <3>1. \A u \in Threads : u # c => pc[u] \notin {"notify", "check"}
      BY <1>5 DEF ScheduleJob, CanEnter, TypeOK
    <3>2. UNCHANGED <<at, trig, attached, kind, limit, got, triggers, early, done,
                     queued, queue, updates, aborted>>
      BY <1>5, <2>2 DEF ScheduleJob
    <3>3. /\ lock' = c /\ pc' = [pc EXCEPT ![c] = "notify"]
          /\ task' = [task EXCEPT ![c] = x] /\ job' = [job EXCEPT ![c] = j]
      BY <1>5, <2>2 DEF ScheduleJob
    <3> QED BY <2>1, <3>1, <3>2, <3>3 DEF TypeOK
  <2>3. CASE x \notin done
    <3>1. UNCHANGED <<lock, pc, task, at, trig, job, kind, limit, got, triggers,
                     early, done, queued, queue, updates, aborted>>
      BY <1>5, <2>3 DEF ScheduleJob
    <3>2. attached' \subseteq Tasks
      BY <1>5, <2>3 DEF ScheduleJob, TypeOK
    <3> QED BY <2>1, <3>1, <3>2 DEF TypeOK
  <2> QED BY <2>2, <2>3
<1> QED BY <1>1, <1>2, <1>3, <1>4, <1>5 DEF Command

LEMMA TypeWork ==
  ASSUME TypeOK, NEW w \in Workers, Work(w)
  PROVE  TypeOK'
<1> USE DEF threadVars, trigVars, graphVars, flagVars
<1>1. CASE Rest(w)
  BY <1>1 DEF Rest, TypeOK
<1>2. ASSUME NEW x \in Tasks, Pop(w, x) PROVE TypeOK'
  <2>1. queue' \in [Tasks -> Nat]
    BY <1>2 DEF Pop, TypeOK
  <2>2. \A u \in Threads : u # w => pc[u] \notin {"notify", "check"}
    BY <1>2 DEF Pop, CanEnter, TypeOK
  <2>3. UNCHANGED <<at, trig, job, kind, limit, got, attached, deps, notify, triggers, early, done,
                   queued, updates>>
    BY <1>2 DEF Pop
  <2>4. /\ lock' \in Threads \cup {NoThread} /\ aborted' \in BOOLEAN
        /\ task' \in [Threads -> Tasks \cup {NoTask}]
        /\ pc' \in [Threads ->
                     {"idle", "exec", "notify", "proc", "relock", "check"}]
        /\ \A u \in Threads : pc'[u] \in {"notify", "check"} => lock' = u
    <3>1. CASE x \in attached
      <4>1. /\ pc' = [pc EXCEPT ![w] = "exec"] /\ task' = [task EXCEPT ![w] = x]
            /\ lock' = NoThread /\ aborted' = aborted
        BY <1>2, <3>1 DEF Pop
      <4> QED BY <2>2, <4>1 DEF TypeOK
    <3>2. CASE x \notin attached
      <4>1. UNCHANGED <<lock, pc, task>> /\ aborted' = TRUE
        BY <1>2, <3>2 DEF Pop
      <4> QED BY <4>1 DEF TypeOK
    <3> QED BY <3>1, <3>2
  <2> QED BY <2>1, <2>3, <2>4 DEF TypeOK
<1> QED BY <1>1, <1>2 DEF Work

LEMMA TypeContinue ==
  ASSUME TypeOK, Places, NEW th \in Threads, Continue(th)
  PROVE  TypeOK'
<1> USE DEF threadVars, trigVars, graphVars, flagVars
<1>1. CASE Finish(th)
  <2>1. task[th] \in Tasks
    BY <1>1 DEF Finish, Places, Place, TypeOK
  <2>2. \A u \in Threads : pc[u] \notin {"notify", "check"}
    BY <1>1 DEF Finish, TypeOK
  <2> QED BY <1>1, <2>1, <2>2 DEF Finish, TypeOK
<1>2. CASE NotifyJobs(th)
  <2>1. task[th] \in Tasks
    BY <1>2 DEF NotifyJobs, Places, Place, TypeOK
  <2>2. Freed(task[th]) \subseteq Jobs
    BY <2>1 DEF Freed, TypeOK
  <2>3. queue' \in [Tasks -> Nat]
    BY <1>2 DEF NotifyJobs, TypeOK
  <2> QED BY <1>2, <2>2, <2>3 DEF NotifyJobs, First, TypeOK
<1>3. CASE NotifyTrigger(th)
  <2>1. task[th] \in Tasks /\ lock = th
    BY <1>3 DEF NotifyTrigger, InTriggers, Places, Place, TypeOK
  <2>2. Current(th) \in Trigs /\ ResultOf(task[th]) \in Seq(Items)
    BY <1>3, <2>1, CurrentTrigger, ResultItems DEF NotifyTrigger
  <2>3. updates' \in 0 .. MaxUpdates
    BY <1>3 DEF NotifyTrigger, TypeOK
  <2> QED BY <1>3, <2>1, <2>2, <2>3, TypeActivate DEF NotifyTrigger, CanEnter
<1>4. CASE SkipTrigger(th)
  <2>1. UNCHANGED <<lock, pc, task, trig, job, kind, limit, got, attached, deps, notify, triggers, early, done, queued, queue, updates>>
    BY <1>4 DEF SkipTrigger, NullArgument
  <2>2. (at' = [at EXCEPT ![th] = @ + 1] /\ aborted' = aborted)
        \/ (at' = at /\ aborted' = TRUE)
    BY <1>4 DEF SkipTrigger, NullArgument
  <2>3. at' \in [Threads -> Nat] /\ aborted' \in BOOLEAN
    <3>1. at \in [Threads -> Nat] /\ aborted \in BOOLEAN
      BY DEF TypeOK
    <3>2. CASE at' = [at EXCEPT ![th] = @ + 1] /\ aborted' = aborted
      BY <3>1, <3>2
    <3>3. CASE at' = at /\ aborted' = TRUE
      BY <3>1, <3>3
    <3> QED BY <2>2, <3>2, <3>3
  <2> QED BY <2>1, <2>3 DEF TypeOK
<1>5. CASE ProcReturn(th)
  <2>1. <<1>> \in Seq(Tasks \cup Nat) /\ trig[th] \in Trigs
    BY <1>5 DEF ProcReturn, Places, Place, InHand
  <2>2. UNCHANGED <<lock, task, at, trig, job, kind, limit, attached, deps, notify, triggers, early, done, queued, queue, updates, aborted>>
    BY <1>5 DEF ProcReturn
  <2>3. got' \in [Trigs -> Seq(Tasks \cup Nat)]
    <3>1. got' = [got EXCEPT ![trig[th]] = <<1>>] \/ got' = got
      BY <1>5 DEF ProcReturn
    <3>2. got \in [Trigs -> Seq(Tasks \cup Nat)]
      BY DEF TypeOK
    <3> QED BY <2>1, <3>1, <3>2
  <2>4. /\ pc' \in [Threads ->
                     {"idle", "exec", "notify", "proc", "relock", "check"}]
        /\ \A u \in Threads : pc'[u] \in {"notify", "check"} => lock' = u
    BY <1>5, <2>2 DEF ProcReturn, TypeOK
  <2> QED BY <2>2, <2>3, <2>4 DEF TypeOK
<1>6. CASE Relock(th)
  BY <1>6 DEF Relock, TypeOK
<1>7. CASE QueueTrigger(th)
  <2>1. queue' \in [Tasks -> Nat]
    <3>1. trig[th] \in Tasks
      BY <1>7 DEF QueueTrigger, Places, Place, InHand
    <3> QED BY <1>7, <3>1, PushType DEF QueueTrigger
  <2>2. UNCHANGED <<lock, task, job, kind, limit, got, attached, deps, notify, triggers, early, done, queued, updates, aborted>>
    BY <1>7 DEF QueueTrigger
  <2>3. /\ pc' \in [Threads ->
                     {"idle", "exec", "notify", "proc", "relock", "check"}]
        /\ \A u \in Threads : pc'[u] \in {"notify", "check"} => lock' = u
        /\ at' \in [Threads -> Nat] /\ trig' \in [Threads -> Trigs \cup {NoTask}]
    BY <1>7, <2>2 DEF QueueTrigger, TypeOK
  <2> QED BY <2>1, <2>2, <2>3 DEF TypeOK
<1>8. CASE EndNotify(th)
  <2>1. queue' \in [Tasks -> Nat] /\ attached' \subseteq Tasks
    <3>1. CASE job[th] = NoTask
      BY <1>8, <3>1 DEF EndNotify, TypeOK
    <3>2. CASE job[th] # NoTask
      <4>1. job[th] \in Tasks
        BY <3>2 DEF TypeOK
      <4>2. /\ Push(job[th]) \/ UNCHANGED queue
            /\ attached' = attached \cup {job[th]}
        BY <1>8, <3>2 DEF EndNotify
      <4>3. queue' \in [Tasks -> Nat]
        BY <4>1, <4>2, PushType
      <4> QED BY <4>1, <4>2, <4>3 DEF TypeOK
    <3> QED BY <3>1, <3>2
  <2>2. \A u \in Threads : pc'[u] \in {"notify", "check"} => lock' = u
    BY <1>8 DEF EndNotify, TypeOK
  <2> QED BY <1>8, <2>1, <2>2 DEF EndNotify, TypeOK
<1>9. CASE RunTrigger(th)
  <2>1. \A u \in Threads : u # th => pc[u] \notin {"notify", "check"}
    BY <1>9 DEF RunTrigger, TypeOK
  <2>2. trig[th] \in Trigs
    BY <1>9 DEF RunTrigger, Places, Place, InHand
  <2>3. UNCHANGED <<at, job, kind, limit, got, attached, deps, notify, triggers, early, done, queued, queue, updates, aborted>>
    BY <1>9 DEF RunTrigger
  <2>4. /\ pc' \in [Threads ->
                     {"idle", "exec", "notify", "proc", "relock", "check"}]
        /\ \A u \in Threads : pc'[u] \in {"notify", "check"} => lock' = u
        /\ trig' \in [Threads -> Trigs \cup {NoTask}]
        /\ task' \in [Threads -> Tasks \cup {NoTask}]
        /\ lock' \in Threads \cup {NoThread}
    <3>1. /\ lock' = NoThread /\ trig' = [trig EXCEPT ![th] = NoTask]
          /\ pc[th] = "check"
      BY <1>9 DEF RunTrigger
    <3>2. CASE Fires(trig[th])
      <4>1. pc' = [pc EXCEPT ![th] = "exec"] /\ task' = [task EXCEPT ![th] = trig[th]]
        BY <1>9, <3>2 DEF RunTrigger
      <4> QED BY <2>1, <2>2, <3>1, <4>1 DEF TypeOK
    <3>3. CASE ~Fires(trig[th])
      <4>1. pc' = [pc EXCEPT ![th] = "idle"] /\ task' = task
        BY <1>9, <3>3 DEF RunTrigger
      <4> QED BY <2>1, <2>2, <3>1, <4>1 DEF TypeOK
    <3> QED BY <3>2, <3>3
  <2> QED BY <2>3, <2>4 DEF TypeOK
<1> QED BY <1>1, <1>2, <1>3, <1>4, <1>5, <1>6, <1>7, <1>8, <1>9 DEF Continue

-----------------------------------------------------------------------------
\* What a step may do to what a trigger of the pool has got.
Grows ==
  \A t \in attached \cap Trigs :
    /\ t \in attached' /\ kind'[t] = kind[t] /\ limit'[t] = limit[t]
    /\ Len(got'[t]) >= Len(got[t])
    /\ Ready(t) => got'[t] = got[t]
    /\ \A x : Has(t, x) /\ kind[t] = "acc" => Has(t, x)'

LEMMA QuietGrows ==
  ASSUME TypeOK, UNCHANGED <<kind, limit, got>>, attached \subseteq attached'
  PROVE  Grows
<1>1. \A t \in Trigs : Len(got[t]) \in Nat
  BY DEF TypeOK
<1> QED BY <1>1 DEF Grows, Has

\* Activation adds to what the trigger has got.
LEMMA ActivateGrows ==
  ASSUME TypeOK, Contents, NEW th \in Threads, NEW s \in attached \cap Trigs,
         NEW arg \in Seq(Items), Activate(th, s, arg)
  PROVE  /\ Grows
         /\ Contents'
         /\ kind[s] = "acc" => \A x : arg = <<x>> => Ready(s) \/ Has(s, x)'
<1>0. /\ UNCHANGED <<kind, limit, attached>> /\ Accepts(s, arg)
      /\ \/ got' = got /\ kind[s] = "proc"
         \/ /\ got' = [got EXCEPT ![s] = Gained(s, arg)]
            /\ kind[s] = "proc" => Full(s)
  BY ActivateFacts DEF graphVars, Activate
<1>1. \A t \in Trigs : Len(got[t]) \in Nat /\ got \in [Trigs -> Seq(Items)]
  BY DEF TypeOK, Items
<1>2. CASE got' = got /\ kind[s] = "proc"
  <2>1. Grows
    BY <1>0, <1>2, QuietGrows
  <2> QED BY <1>0, <1>2, <2>1 DEF Contents
<1>3. CASE got' = [got EXCEPT ![s] = Gained(s, arg)] /\ (kind[s] = "proc" => Full(s))
  <2> DEFINE g == Gained(s, arg)
  <2>1. /\ g \in Seq(Items)
        /\ Full(s) => g = got[s]
        /\ Len(g) >= Len(got[s])
        /\ \A i \in 1 .. Len(got[s]) : g[i] = got[s][i]
        /\ kind[s] = "acc" /\ ~Full(s) =>
             \A x : arg = <<x>> => \E i \in 1 .. Len(g) : g[i] = x
    BY <1>0, <1>3, GainedFacts
  <2>2. \A t \in Trigs : got'[t] = IF t = s THEN g ELSE got[t]
    BY <1>1, <1>3
  <2> HIDE DEF g
  <2>3. \A t \in Trigs : /\ Len(got'[t]) >= Len(got[t])
                         /\ \A i \in 1 .. Len(got[t]) : got'[t][i] = got[t][i]
    BY <1>1, <2>1, <2>2
  <2>4. \A t \in Trigs : Ready(t) => got'[t] = got[t]
    BY <2>1, <2>2 DEF Full
  <2>5. ASSUME NEW t \in Trigs, NEW x, Has(t, x) PROVE Has(t, x)'
    <3>1. PICK i \in 1 .. Len(got[t]) : got[t][i] = x
      BY <2>5 DEF Has
    <3>2. Len(got[t]) \in Nat /\ Len(got'[t]) \in Nat
      BY <1>1, <2>1, <2>2
    <3> QED BY <2>3, <3>1, <3>2 DEF Has
  <2>6. Grows
    BY <1>0, <2>3, <2>4, <2>5 DEF Grows
  <2>7. Contents'
    BY <1>0, <1>3, <2>1, <2>2 DEF Contents
  <2>8. kind[s] = "acc" => \A x : arg = <<x>> => Ready(s) \/ Has(s, x)'
    BY <2>1, <2>2 DEF Has, Full
  <2> QED BY <2>6, <2>7, <2>8
<1> QED BY <1>0, <1>2, <1>3

LEMMA Stays ==
  ASSUME TypeOK, Grows, NEW t \in attached \cap Trigs, Ready(t)
  PROVE  t \in attached' /\ Ready(t)'
BY DEF Grows, Ready, TypeOK

-----------------------------------------------------------------------------
\* What suffices for the parts of the invariant that relate several threads.
LEMMA FiredKept ==
  ASSUME TypeOK, FiredReady, Grows,
         \A t \in Trigs : Fired(t)' =>
           Fired(t) \/ (t \in attached /\ Ready(t)) \/ (t \in attached' /\ Ready(t)')
  PROVE  FiredReady'
BY Stays DEF FiredReady

LEMMA LostKept ==
  ASSUME TypeOK, NoLostTrigger, Grows, done \subseteq done',
         \A t \in attached \cap Trigs :
           /\ t \notin done' /\ (Fired(t) \/ Activating(t) # {}) =>
                queue'[t] > 0 \/ Executing(t)' # {} \/ Activating(t)' # {}
           /\ got'[t] # got[t] => Activating(t)' # {},
         \A t \in attached' \cap Trigs :
           t \notin attached /\ Ready(t)' => queue'[t] > 0
  PROVE  NoLostTrigger'
<1> SUFFICES ASSUME NEW t \in attached' \cap Trigs, Ready(t)', t \notin done'
             PROVE  queue'[t] > 0 \/ Executing(t)' \cup Activating(t)' # {}
  BY DEF NoLostTrigger
<1>1. CASE t \notin attached
  BY <1>1
<1>2. CASE t \in attached /\ got'[t] # got[t]
  BY <1>2
<1>3. CASE t \in attached /\ got'[t] = got[t]
  <2>1. Ready(t)
    BY <1>3 DEF Grows, Ready
  <2>2. Fired(t) \/ Activating(t) # {}
    BY <1>3, <2>1 DEF NoLostTrigger, Fired
  <2> QED BY <1>3, <2>2
<1> QED BY <1>1, <1>2, <1>3

LEMMA ResultsKept ==
  ASSUME TypeOK, Chained, Results, Grows,
         \A x \in done' : \A t \in Trigs : <<x, t>> \in early' =>
           /\ <<x, t>> \in early
           /\ x \notin done => OnItsWay(x, t)'
           /\ x \in done /\ kind[t] = "acc" /\ ResultOf(x) # <<>> /\ OnItsWay(x, t)
                => Ready(t) \/ Has(t, x)' \/ OnItsWay(x, t)'
  PROVE  Results'
<1> SUFFICES ASSUME NEW x \in done', NEW t \in Trigs, <<x, t>> \in early',
                    kind'[t] = "acc", ResultOf(x)' # <<>>
             PROVE  Ready(t)' \/ Has(t, x)' \/ OnItsWay(x, t)'
  BY DEF Results
<1>1. CASE x \notin done
  BY <1>1
<1>2. CASE x \in done
  <2>1. x \in Tasks /\ {x, t} \subseteq attached
    BY <1>2 DEF Chained, TypeOK
  <2>2. kind'[t] = kind[t] /\ (x \in Trigs => kind'[x] = kind[x])
    BY <2>1 DEF Grows
  <2>3. ResultOf(x) # <<>>
    BY <2>2 DEF ResultOf
  <2>4. Ready(t) \/ Has(t, x) \/ OnItsWay(x, t)
    BY <1>2, <2>2, <2>3 DEF Results
  <2>5. Ready(t) => Ready(t)'
    BY <2>1, Stays
  <2>6. Has(t, x) => Has(t, x)'
    BY <2>1, <2>2 DEF Grows
  <2> QED BY <1>2, <2>2, <2>3, <2>4, <2>5, <2>6
<1> QED BY <1>1, <1>2

\* Threads that do not move stay on their way.
LEMMA WaysKept ==
  ASSUME NEW x, NEW t, OnItsWay(x, t), NEW th \in Threads, task[th] # x,
         UNCHANGED triggers,
         \A u \in Threads : u # th => /\ pc'[u] = pc[u] /\ task'[u] = task[u]
                                      /\ at'[u] = at[u]
  PROVE  OnItsWay(x, t)'
BY DEF OnItsWay, Ahead

LEMMA PlacesKept ==
  ASSUME Places, Grows, attached \subseteq attached', done \subseteq done',
         NEW th \in Threads, Place(th)',
         \A u \in Threads : u # th => /\ pc'[u] = pc[u] /\ task'[u] = task[u]
                                      /\ at'[u] = at[u] /\ trig'[u] = trig[u]
  PROVE  Places'
<1> SUFFICES ASSUME NEW u \in Threads, u # th PROVE Place(u)'
  BY DEF Places
<1>1. Place(u) /\ pc'[u] = pc[u] /\ task'[u] = task[u] /\ at'[u] = at[u]
      /\ trig'[u] = trig[u]
  BY DEF Places
<1>2. pc[u] = "proc" => kind'[trig[u]] = "proc"
  BY <1>1 DEF Place, Grows, InHand
<1> QED BY <1>1, <1>2 DEF Place


-----------------------------------------------------------------------------
\* Commands.
LEMMA InvCreateTrigger ==
  ASSUME TInv, TypeOK', NEW c \in Clients, NEW t \in Trigs, CreateTrigger(c, t)
  PROVE  TInv'
<1> USE DEF TInv
<1>0. PICK k \in Kinds, n \in Limits \cup {1} :
        /\ IF k = "proc" THEN n = 1 ELSE n \in Limits
        /\ kind' = [kind EXCEPT ![t] = k] /\ limit' = [limit EXCEPT ![t] = n]
        /\ IF n = 0 THEN Push(t) ELSE UNCHANGED queue
  BY DEF CreateTrigger
<1>1. /\ UNCHANGED <<lock, pc, task, at, trig, job, got, deps, notify, triggers,
                     early, done, queued>>
      /\ t \notin attached /\ attached' = attached \cup {t} /\ n \in Nat
  BY DEF CreateTrigger, threadVars
<1>2. \A s \in Trigs : /\ s # t => kind'[s] = kind[s] /\ limit'[s] = limit[s]
                       /\ Len(got[s]) \in Nat
  BY <1>0 DEF TypeOK
<1>3. kind'[t] = k /\ limit'[t] = n /\ Len(got[t]) = 0
  <2>1. kind'[t] = k /\ limit'[t] = n
    BY <1>0 DEF TypeOK
  <2>2. got[t] = <<>>
    BY <1>1 DEF Contents
  <2> QED BY <2>1, <2>2
<1>4. /\ queue'[t] = IF n = 0 THEN queue[t] + 1 ELSE queue[t]
      /\ \A x \in Tasks : x # t => queue'[x] = queue[x]
      /\ queue[t] \in Nat
  BY <1>0 DEF TypeOK, Push
<1>5. Grows
  BY <1>1, <1>2 DEF Grows, Has
<1>6. Places'
  <2>1. \A th \in Threads : Place(th)
    BY DEF Places
  <2>2. \A th \in Threads : pc[th] = "proc" => kind'[trig[th]] = kind[trig[th]]
    BY <1>1, <1>2, <2>1 DEF Place, InHand
  <2> QED BY <1>1, <2>1, <2>2 DEF Places, Place
<1>7. Chained'
  BY <1>1 DEF Chained
<1>8. Contents'
  BY <1>0, <1>1, <1>2, <1>3 DEF Contents
<1>9. FiredReady'
  <2>1. \A s \in Trigs : Fired(s)' => Fired(s) \/ (s = t /\ n = 0)
    BY <1>1, <1>4 DEF Fired, Executing
  <2>2. n = 0 => Ready(t)'
    BY <1>1, <1>3 DEF Ready
  <2> QED BY <1>1, <1>5, <2>1, <2>2, FiredKept
<1>10. NoLostTrigger'
  <2>1. Ready(t)' => queue'[t] > 0
    BY <1>1, <1>3, <1>4 DEF Ready
  <2>2. \A s \in attached \cap Trigs : Fired(s) \/ Activating(s) # {} =>
          s \in done \/ queue'[s] > 0 \/ Executing(s)' # {} \/ Activating(s)' # {}
    BY <1>1, <1>4 DEF Fired, Executing, Activating
  <2> QED BY <1>1, <1>5, <2>1, <2>2, LostKept
<1>11. Results'
  <2>1. \A x \in done, s \in Trigs : OnItsWay(x, s) => OnItsWay(x, s)'
    BY <1>1 DEF OnItsWay, Ahead
  <2> QED BY <1>1, <1>5, <2>1, ResultsKept
<1> QED BY <1>6, <1>7, <1>8, <1>9, <1>10, <1>11

LEMMA InvChainTrigger ==
  ASSUME TInv, TypeOK', NEW c \in Clients, NEW t \in Trigs, NEW y \in Tasks,
         ChainTrigger(c, t, y)
  PROVE  TInv'
<1> USE DEF TInv
<1>1. /\ UNCHANGED <<lock, pc, task, at, trig, job, kind, limit, got, attached, deps,
                     notify, done, queued, queue>>
      /\ {t, y} \subseteq attached
      /\ early' = IF y \in done THEN early ELSE early \cup {<<y, t>>}
  BY DEF ChainTrigger, threadVars, trigVars, flagVars
<1>2. \A x \in Tasks :
        /\ Len(triggers[x]) \in Nat /\ Len(triggers'[x]) \in Nat
        /\ Len(triggers[x]) =< Len(triggers'[x])
        /\ \A i \in 1 .. Len(triggers[x]) : triggers'[x][i] = triggers[x][i]
        /\ \A i \in 1 .. Len(triggers'[x]) :
             i \in 1 .. Len(triggers[x]) \/ triggers'[x][i] = t
  <2>1. \A x \in Tasks : triggers[x] \in Seq(Trigs)
    BY DEF TypeOK
  <2>2. \A x \in Tasks : triggers'[x] = IF x = y THEN Append(triggers[y], t)
                                                 ELSE triggers[x]
    BY DEF ChainTrigger, TypeOK
  <2>3. /\ Len(triggers'[y]) = Len(triggers[y]) + 1
        /\ triggers'[y][Len(triggers[y]) + 1] = t
        /\ \A i \in 1 .. Len(triggers[y]) : triggers'[y][i] = triggers[y][i]
    <3>1. PICK s, a : s = triggers[y] /\ a = triggers'[y]
      OBVIOUS
    <3>2. s \in Seq(Trigs) /\ a = Append(s, t)
      BY <2>1, <2>2, <3>1
    <3>3. /\ Len(a) = Len(s) + 1 /\ a[Len(s) + 1] = t
          /\ \A i \in 1 .. Len(s) : a[i] = s[i]
      BY <3>2, AppendProperties
    <3> QED BY <3>1, <3>3
  <2> SUFFICES ASSUME NEW x \in Tasks
               PROVE  /\ Len(triggers[x]) \in Nat /\ Len(triggers'[x]) \in Nat
                      /\ Len(triggers[x]) =< Len(triggers'[x])
                      /\ \A i \in 1 .. Len(triggers[x]) :
                           triggers'[x][i] = triggers[x][i]
                      /\ \A i \in 1 .. Len(triggers'[x]) :
                           i \in 1 .. Len(triggers[x]) \/ triggers'[x][i] = t
    OBVIOUS
  <2>4. CASE x = y
    <3>1. Len(triggers[y]) \in Nat
      BY <2>1
    <3> QED BY <2>3, <2>4, <3>1
  <2>5. CASE x # y
    BY <2>1, <2>2, <2>5
  <2> QED BY <2>4, <2>5
<1>3. \E i \in 1 .. Len(triggers'[y]) : triggers'[y][i] = t
  <2>1. triggers[y] \in Seq(Trigs) /\ triggers'[y] = Append(triggers[y], t)
    BY DEF ChainTrigger, TypeOK
  <2> QED BY <2>1, AppendProperties
<1>4. Grows
  BY <1>1, QuietGrows
<1>5. Places'
  BY <1>1 DEF Places, Place
<1>6. Chained'
  <2>1. \A x \in Tasks : \A i \in 1 .. Len(triggers'[x]) : triggers'[x][i] \in attached
    BY <1>1, <1>2 DEF Chained
  <2>2. ASSUME NEW x \in Tasks, NEW s \in Trigs, <<x, s>> \in early'
        PROVE  {x, s} \subseteq attached /\
               \E i \in 1 .. Len(triggers'[x]) : triggers'[x][i] = s
    <3>0. <<x, s>> \in early \/ (x = y /\ s = t)
      BY <1>1, <2>2
    <3>1. CASE <<x, s>> \in early
      <4>1. {x, s} \subseteq attached
        BY <3>1 DEF Chained
      <4>2. PICK i \in 1 .. Len(triggers[x]) : triggers[x][i] = s
        BY <3>1 DEF Chained
      <4>3. i \in 1 .. Len(triggers'[x]) /\ triggers'[x][i] = s
        BY <1>2, <4>2
      <4> QED BY <4>1, <4>3
    <3>2. CASE x = y /\ s = t
      BY <1>1, <1>3, <3>2
    <3> QED BY <3>0, <3>1, <3>2
  <2> QED BY <1>1, <2>1, <2>2 DEF Chained
<1>7. Contents' /\ FiredReady' /\ NoLostTrigger'
  BY <1>1 DEF Contents, FiredReady, Fired, Ready, NoLostTrigger, Executing, Activating
<1>8. Results'
  <2>1. \A x \in done, s \in Trigs : OnItsWay(x, s) => OnItsWay(x, s)'
    <3> SUFFICES ASSUME NEW x \in done, NEW s \in Trigs, OnItsWay(x, s)
                 PROVE  OnItsWay(x, s)'
      OBVIOUS
    <3>1. x \in Tasks
      BY DEF TypeOK
    <3>2. PICK th \in Threads, i \in 1 .. Len(triggers[x]) :
            task[th] = x /\ triggers[x][i] = s /\ Ahead(th, i)
      BY DEF OnItsWay
    <3>3. i \in 1 .. Len(triggers'[x]) /\ triggers'[x][i] = s
      BY <1>2, <3>1, <3>2
    <3>4. task'[th] = x /\ Ahead(th, i)'
      BY <1>1, <3>2 DEF Ahead
    <3> QED BY <3>3, <3>4 DEF OnItsWay
  <2> QED BY <1>1, <1>4, <2>1, ResultsKept
<1> QED BY <1>5, <1>6, <1>7, <1>8

\* Steps that concern triggers not at all: jobs enter the pool and the queue.
LEMMA InvJobs ==
  ASSUME TInv,
         UNCHANGED <<pc, task, at, trig, kind, limit, got, triggers, early, done>>,
         attached \subseteq attached', attached' \cap Trigs = attached \cap Trigs,
         \A t \in Trigs : queue'[t] = queue[t]
  PROVE  /\ Places' /\ Chained' /\ Contents' /\ FiredReady' /\ NoLostTrigger'
         /\ Results'
<1> USE DEF TInv
<1>0. \A t \in Trigs : t \in attached' <=> t \in attached
  OBVIOUS
<1>1. Grows
  BY QuietGrows
<1>2. Places'
  BY <1>0 DEF Places, Place
<1>3. Chained'
  BY DEF Chained
<1>4. Contents' /\ FiredReady'
  BY <1>0 DEF Contents, FiredReady, Fired, Ready, Executing
<1>5. NoLostTrigger'
  BY <1>0 DEF NoLostTrigger, Ready, Executing, Activating
<1>6. Results'
  <2>1. \A x \in done, s \in Trigs : OnItsWay(x, s) => OnItsWay(x, s)'
    BY DEF OnItsWay, Ahead
  <2> QED BY <1>1, <2>1, ResultsKept
<1> QED BY <1>2, <1>3, <1>4, <1>5, <1>6

LEMMA InvStartJob ==
  ASSUME TInv, TypeOK', NEW c \in Clients, NEW j \in Jobs, StartJob(c, j)
  PROVE  TInv'
<1>1. /\ UNCHANGED <<pc, task, at, trig, kind, limit, got, triggers, early, done>>
      /\ attached' = attached \cup {j}
  BY DEF StartJob, threadVars, trigVars
<1>2. \A t \in Trigs : queue'[t] = queue[t] /\ t # j
  BY DEF StartJob, Push, TInv, TypeOK
<1>3. attached' \cap Trigs = attached \cap Trigs
  BY <1>1, <1>2
<1> QED BY <1>1, <1>2, <1>3, InvJobs DEF TInv

LEMMA InvScheduleJob ==
  ASSUME TInv, TypeOK', NEW c \in Clients, NEW j \in Jobs, NEW x \in Tasks,
         ScheduleJob(c, j, x)
  PROVE  TInv'
<1>1. CASE x \notin done
  <2>1. /\ UNCHANGED <<pc, task, at, trig, kind, limit, got, triggers, early, done,
                       queue>>
        /\ attached' = attached \cup {j}
    BY <1>1 DEF ScheduleJob, trigVars, flagVars
  <2>2. attached' \cap Trigs = attached \cap Trigs
    BY <2>1
  <2> QED BY <2>1, <2>2, InvJobs DEF TInv
<1>2. CASE x \in done
  <2> USE DEF TInv
  <2>1. /\ UNCHANGED <<at, trig, kind, limit, got, attached, triggers, early, done,
                       queue>>
        /\ pc' = [pc EXCEPT ![c] = "notify"] /\ task' = [task EXCEPT ![c] = x]
        /\ pc[c] = "idle"
    BY <1>2 DEF ScheduleJob, trigVars, flagVars
  <2>2. /\ pc'[c] = "notify" /\ task'[c] = x
        /\ \A u \in Threads : u # c => pc'[u] = pc[u] /\ task'[u] = task[u]
    BY <2>1 DEF TypeOK
  <2>3. task[c] = NoTask
    BY <2>1 DEF Places, Place
  <2>4. Grows
    BY <2>1, QuietGrows
  <2>5. Places'
    <3>1. Place(c)'
      BY <1>2, <2>1, <2>2 DEF Place, InHand
    <3> QED BY <2>1, <2>2, <2>4, <3>1, PlacesKept
  <2>6. Chained' /\ Contents'
    BY <2>1 DEF Chained, Contents
  <2>7. FiredReady' /\ NoLostTrigger'
    BY <2>1, <2>2 DEF FiredReady, Fired, NoLostTrigger, Ready, Executing, Activating
  <2>8. Results'
    <3>1. \A y \in done, s \in Trigs : OnItsWay(y, s) => OnItsWay(y, s)'
      BY <2>1, <2>2, <2>3, WaysKept DEF TypeOK
    <3> QED BY <2>1, <2>4, <3>1, ResultsKept
  <2> QED BY <2>5, <2>6, <2>7, <2>8
<1> QED BY <1>1, <1>2

\* Activation, in updateTrigger or in notifyDeps().
LEMMA InvActivate ==
  ASSUME TInv, TypeOK', NEW th \in Threads, NEW t \in attached \cap Trigs,
         NEW arg \in Seq(Items), Activate(th, t, arg), UNCHANGED <<task, at>>,
         \/ pc[th] = "idle"
         \/ pc[th] = "notify" /\ arg = ResultOf(task[th]) /\ InTriggers(th)
              /\ t = Current(th)
  PROVE  TInv'
<1> USE DEF TInv
<1>1. /\ UNCHANGED <<kind, limit, attached, triggers, early, done, queue>>
      /\ trig' = [trig EXCEPT ![th] = t]
      /\ \/ pc' = [pc EXCEPT ![th] = "proc"] /\ kind[t] = "proc" /\ got' = got
         \/ pc' = [pc EXCEPT ![th] = "check"] /\ got' = [got EXCEPT ![t] = Gained(t, arg)]
  BY ActivateFacts DEF graphVars, flagVars
<1>2. /\ pc'[th] \in {"proc", "check"} /\ (pc'[th] = "proc" => kind[t] = "proc")
      /\ \A u \in Threads : u # th => pc'[u] = pc[u]
  BY <1>1 DEF TypeOK
<1>3. trig'[th] = t /\ \A u \in Threads : u # th => trig'[u] = trig[u]
  BY <1>1 DEF TypeOK
<1>4. \A s \in Trigs : s # t => got'[s] = got[s]
  BY <1>1 DEF TypeOK
<1>5. Grows /\ Contents' /\ (kind[t] = "acc" => \A x : arg = <<x>> => Ready(t) \/ Has(t, x)')
  BY ActivateGrows
<1>6. Places'
  <2>1. Place(th)
    BY DEF Places
  <2>2. Place(th)'
    <3>1. NoTask \notin done
      BY DEF TypeOK
    <3>2. \/ task[th] = NoTask /\ at[th] = 0
          \/ task[th] \in done
      BY <2>1 DEF Place
    <3> QED BY <1>1, <1>2, <1>3, <3>1, <3>2 DEF Place, InHand
  <2> QED BY <1>1, <1>2, <1>3, <1>5, <2>2, PlacesKept
<1>7. Chained'
  BY <1>1 DEF Chained
<1>8. FiredReady'
  <2>1. \A s \in Trigs : Fired(s)' => Fired(s)
    BY <1>1, <1>2 DEF Fired, Executing
  <2> QED BY <1>5, <2>1, FiredKept
<1>9. NoLostTrigger'
  <2>1. Activating(t)' # {}
    BY <1>2, <1>3 DEF Activating
  <2>2. \A s \in Trigs : /\ Executing(s) # {} => Executing(s)' # {}
                         /\ Activating(s) # {} => Activating(s)' # {}
    BY <1>1, <1>2, <1>3 DEF Executing, Activating
  <2>3. \A s \in attached \cap Trigs : s \notin done' /\ (Fired(s) \/ Activating(s) # {}) =>
          queue'[s] > 0 \/ Executing(s)' # {} \/ Activating(s)' # {}
    BY <1>1, <2>2 DEF Fired
  <2>4. \A s \in attached \cap Trigs : got'[s] # got[s] => Activating(s)' # {}
    BY <1>4, <2>1
  <2> QED BY <1>1, <1>5, <2>3, <2>4, LostKept
<1>10. Results'
  <2>1. ASSUME NEW x \in done, NEW s \in Trigs, kind[s] = "acc", ResultOf(x) # <<>>,
               OnItsWay(x, s)
        PROVE  Ready(s) \/ Has(s, x)' \/ OnItsWay(x, s)'
    <3>1. PICK u \in Threads, i \in 1 .. Len(triggers[x]) :
            task[u] = x /\ triggers[x][i] = s /\ Ahead(u, i)
      BY <2>1 DEF OnItsWay
    <3>2. CASE u # th \/ at[u] < i
      <4>1. Ahead(u, i)'
        BY <1>2, <3>1, <3>2 DEF Ahead, InHand
      <4> QED BY <1>1, <3>1, <4>1 DEF OnItsWay
    <3>3. CASE u = th /\ ~(at[u] < i)
      <4>1. pc[th] = "notify" /\ at[th] = i
        <5>1. at[th] \in Nat /\ i \in Int
          BY DEF TypeOK
        <5>2. Ahead(th, i) /\ ~(at[th] < i)
          BY <3>1, <3>3
        <5> QED BY <5>1, <5>2 DEF Ahead
      <4>2. s = t /\ arg = ResultOf(x)
        BY <3>1, <3>3, <4>1 DEF Current
      <4>3. ResultOf(x) = <<x>>
        BY <2>1 DEF ResultOf
      <4> QED BY <1>5, <2>1, <4>2, <4>3
    <3> QED BY <3>2, <3>3
  <2> QED BY <1>1, <1>5, <2>1, ResultsKept
<1> QED BY <1>5, <1>6, <1>7, <1>8, <1>9, <1>10

\* The end of the program.
LEMMA InvAbort ==
  ASSUME TInv, TypeOK', UNCHANGED <<threadVars, trigVars, graphVars, flagVars>>
  PROVE  TInv'
<1>1. UNCHANGED <<pc, task, at, trig, kind, limit, got, triggers, early, done,
                  attached, queue>>
  BY DEF threadVars, trigVars, graphVars, flagVars
<1> QED BY <1>1, InvJobs DEF TInv

LEMMA InvCommand ==
  ASSUME TInv, NEW c \in Clients, Command(c)
  PROVE  TInv'
<1>1. TypeOK'
  BY TypeCommand DEF TInv
<1>2. ASSUME NEW t \in Trigs, NEW arg \in Arguments, UpdateTrigger(c, t, arg)
      PROVE  TInv'
  <2>1. arg \in Seq(Items)
    BY SeqMonotonic DEF Items
  <2>2. t \in attached \cap Trigs /\ pc[c] = "idle" /\ UNCHANGED <<task, at>>
    BY <1>2 DEF UpdateTrigger
  <2>3. CASE Activate(c, t, arg)
    BY <1>1, <2>1, <2>2, <2>3, InvActivate
  <2>4. CASE NullArgument(c, t, arg)
    BY <1>1, <2>4, InvAbort DEF NullArgument
  <2> QED BY <1>2, <2>3, <2>4 DEF UpdateTrigger
<1> QED BY <1>1, <1>2, InvCreateTrigger, InvChainTrigger, InvStartJob, InvScheduleJob
        DEF Command

-----------------------------------------------------------------------------
\* Workers, and what a thread does within notifyDeps().
LEMMA InvRest ==
  ASSUME TInv, TypeOK', NEW w \in Workers, Rest(w)
  PROVE  TInv'
<1>1. UNCHANGED <<pc, task, at, trig, kind, limit, got, triggers, early, done,
                  attached, queue>>
  BY DEF Rest, trigVars, graphVars, flagVars
<1> QED BY <1>1, InvJobs DEF TInv

LEMMA InvPop ==
  ASSUME TInv, TypeOK', NEW w \in Workers, NEW x \in Tasks, Pop(w, x)
  PROVE  TInv'
<1> USE DEF TInv
<1>1. /\ UNCHANGED <<at, trig, kind, limit, got, attached, triggers, early, done>>
      /\ pc[w] = "idle" /\ queue[x] > 0 /\ queue' = [queue EXCEPT ![x] = @ - 1]
      /\ IF x \in attached
           THEN pc' = [pc EXCEPT ![w] = "exec"] /\ task' = [task EXCEPT ![w] = x]
           ELSE pc' = pc /\ task' = task
  BY DEF Pop, trigVars, graphVars
<1>2. /\ \A y \in Tasks : y # x => queue'[y] = queue[y]
      /\ \A y \in Tasks : queue[y] \in Nat /\ (queue'[y] > 0 => queue[y] > 0)
  BY <1>1 DEF TypeOK
<1>3. Grows
  BY <1>1, QuietGrows
<1>4. /\ \A u \in Threads : u # w => pc'[u] = pc[u] /\ task'[u] = task[u]
      /\ x \in attached => pc'[w] = "exec" /\ task'[w] = x
      /\ x \notin attached => pc'[w] = "idle" /\ task'[w] = task[w]
      /\ task[w] = NoTask /\ at[w] = 0
  BY <1>1 DEF TypeOK, Places, Place
<1>5. Places'
  <2>1. Place(w)'
    BY <1>1, <1>4 DEF Place, InHand
  <2> QED BY <1>1, <1>3, <1>4, <2>1, PlacesKept
<1>6. Chained' /\ Contents'
  BY <1>1 DEF Chained, Contents
<1>7. FiredReady'
  <2>1. ASSUME NEW t \in Trigs, Fired(t)' PROVE Fired(t)
    <3>1. CASE queue'[t] > 0 \/ t \in done
      BY <1>1, <1>2, <3>1 DEF Fired
    <3>2. CASE Executing(t)' # {}
      <4>1. PICK u \in Threads : pc'[u] = "exec" /\ task'[u] = t
        BY <3>2 DEF Executing
      <4>2. CASE u = w
        BY <1>1, <1>4, <4>1, <4>2 DEF Fired
      <4>3. CASE u # w
        BY <1>4, <4>1, <4>3 DEF Fired, Executing
      <4> QED BY <4>2, <4>3
    <3> QED BY <1>1, <2>1, <3>1, <3>2 DEF Fired
  <2> QED BY <1>3, <2>1, FiredKept
<1>8. NoLostTrigger'
  <2>1. \A s \in attached \cap Trigs :
          /\ Executing(s) # {} => Executing(s)' # {}
          /\ Activating(s) # {} => Activating(s)' # {}
          /\ queue[s] > 0 => queue'[s] > 0 \/ Executing(s)' # {}
    BY <1>1, <1>2, <1>4 DEF Executing, Activating
  <2> QED BY <1>1, <1>3, <2>1, LostKept DEF Fired
<1>9. Results'
  <2>1. \A y \in done, s \in Trigs : OnItsWay(y, s) => OnItsWay(y, s)'
    <3>1. \A y \in done : task[w] # y
      BY <1>4 DEF TypeOK
    <3> QED BY <1>1, <1>4, <3>1, WaysKept
  <2> QED BY <1>1, <1>3, <2>1, ResultsKept
<1> QED BY <1>5, <1>6, <1>7, <1>8, <1>9

LEMMA InvFinish ==
  ASSUME TInv, TypeOK', NEW th \in Threads, Finish(th)
  PROVE  TInv'
<1> USE DEF TInv
<1>1. /\ UNCHANGED <<task, at, trig, kind, limit, got, attached, triggers, early, queue>>
      /\ pc[th] = "exec" /\ pc' = [pc EXCEPT ![th] = "notify"]
      /\ done' = done \cup {task[th]}
  BY DEF Finish, trigVars, graphVars
<1>2. /\ pc'[th] = "notify" /\ \A u \in Threads : u # th => pc'[u] = pc[u]
      /\ task[th] \in attached /\ at[th] = 0
  BY <1>1 DEF TypeOK, Places, Place
<1>3. Grows
  BY <1>1, QuietGrows
<1>4. Places'
  <2>1. Place(th)'
    BY <1>1, <1>2 DEF Place, InHand
  <2> QED BY <1>1, <1>2, <1>3, <2>1, PlacesKept
<1>5. Chained' /\ Contents'
  BY <1>1, <1>2 DEF Chained, Contents
<1>6. FiredReady'
  <2>1. \A t \in Trigs : Fired(t)' => Fired(t)
    BY <1>1, <1>2 DEF Fired, Executing
  <2> QED BY <1>3, <2>1, FiredKept
<1>7. NoLostTrigger'
  <2>1. \A s \in attached \cap Trigs : s \notin done' =>
          /\ Executing(s) # {} => Executing(s)' # {}
          /\ Activating(s) # {} => Activating(s)' # {}
    BY <1>1, <1>2 DEF Executing, Activating
  <2> QED BY <1>1, <1>3, <2>1, LostKept DEF Fired
<1>8. Results'
  <2>1. ASSUME NEW x \in done', NEW s \in Trigs, <<x, s>> \in early, x \notin done
        PROVE  OnItsWay(x, s)'
    <3>1. x = task[th] /\ x \in Tasks
      BY <1>1, <2>1 DEF TypeOK
    <3>2. PICK i \in 1 .. Len(triggers[x]) : triggers[x][i] = s
      BY <2>1, <3>1 DEF Chained
    <3>3. Ahead(th, i)'
      BY <1>1, <1>2, <3>2 DEF Ahead
    <3> QED BY <1>1, <3>1, <3>2, <3>3 DEF OnItsWay
  <2>2. \A x \in done, s \in Trigs : OnItsWay(x, s) => OnItsWay(x, s)'
    BY <1>1, <1>2 DEF OnItsWay, Ahead, InHand
  <2> QED BY <1>1, <1>3, <2>1, <2>2, ResultsKept
<1> QED BY <1>4, <1>5, <1>6, <1>7, <1>8

LEMMA InvNotifyJobs ==
  ASSUME TInv, TypeOK', NEW th \in Threads, NotifyJobs(th)
  PROVE  TInv'
<1> USE DEF TInv
<1>1. /\ UNCHANGED <<pc, task, trig, kind, limit, got, attached, triggers, early, done>>
      /\ pc[th] = "notify" /\ at[th] = 0 /\ at' = [at EXCEPT ![th] = 1]
  BY DEF NotifyJobs, trigVars, graphVars, First
<1>2. at'[th] = 1 /\ \A u \in Threads : u # th => at'[u] = at[u]
  BY <1>1 DEF TypeOK
<1>3. \A t \in Trigs : queue'[t] = queue[t]
  <2>1. task[th] \in Tasks
    BY <1>1 DEF Places, Place, TypeOK
  <2>2. Freed(task[th]) \subseteq Jobs
    BY <2>1 DEF Freed, TypeOK
  <2> QED BY <2>2 DEF NotifyJobs
<1>4. Grows
  BY <1>1, QuietGrows
<1>5. Places'
  <2>1. Place(th)'
    BY <1>1 DEF Places, Place, InHand
  <2> QED BY <1>1, <1>2, <1>4, <2>1, PlacesKept
<1>6. Chained' /\ Contents'
  BY <1>1 DEF Chained, Contents
<1>7. FiredReady' /\ NoLostTrigger'
  BY <1>1, <1>3 DEF FiredReady, Fired, NoLostTrigger, Ready, Executing, Activating
<1>8. Results'
  <2>1. \A x \in done, s \in Trigs : OnItsWay(x, s) => OnItsWay(x, s)'
    BY <1>1, <1>2 DEF OnItsWay, Ahead, InHand
  <2> QED BY <1>1, <1>4, <2>1, ResultsKept
<1> QED BY <1>5, <1>6, <1>7, <1>8

LEMMA InvNotifyTrigger ==
  ASSUME TInv, TypeOK', NEW th \in Threads, NotifyTrigger(th)
  PROVE  TInv'
<1>1. task[th] \in Tasks /\ pc[th] = "notify" /\ InTriggers(th)
  BY DEF TInv, NotifyTrigger, InTriggers, Places, Place, TypeOK
<1>2. Current(th) \in attached \cap Trigs
  BY <1>1, CurrentTrigger DEF TInv, Chained, InTriggers, Current
<1>3. ResultOf(task[th]) \in Seq(Items)
  BY <1>1, ResultItems
<1> QED BY <1>1, <1>2, <1>3, InvActivate DEF NotifyTrigger

LEMMA InvSkipTrigger ==
  ASSUME TInv, TypeOK', NEW th \in Threads, SkipTrigger(th)
  PROVE  TInv'
<1>1. CASE UNCHANGED <<threadVars, trigVars, graphVars, flagVars>>
  BY <1>1, InvAbort
<1>2. CASE /\ ~Accepts(Current(th), ResultOf(task[th]))
           /\ at' = [at EXCEPT ![th] = @ + 1]
           /\ UNCHANGED <<lock, pc, task, trig, job, trigVars, graphVars, flagVars>>
  <2> USE DEF TInv
  <2>1. /\ UNCHANGED <<pc, task, trig, kind, limit, got, attached, triggers, early,
                       done, queue>>
        /\ pc[th] = "notify" /\ at[th] \in Nat
        /\ at'[th] = at[th] + 1 /\ \A u \in Threads : u # th => at'[u] = at[u]
    BY <1>2 DEF SkipTrigger, InTriggers, trigVars, graphVars, flagVars, TypeOK
  <2>2. Grows
    BY <2>1, QuietGrows
  <2>3. Places'
    <3>1. Place(th)'
      BY <2>1 DEF Places, Place, InHand
    <3> QED BY <2>1, <2>2, <3>1, PlacesKept
  <2>4. Chained' /\ Contents'
    BY <2>1 DEF Chained, Contents
  <2>5. FiredReady' /\ NoLostTrigger'
    BY <2>1 DEF FiredReady, Fired, NoLostTrigger, Ready, Executing, Activating
  <2>6. Results'
    <3>1. ASSUME NEW x \in done, NEW s \in Trigs, kind[s] = "acc", OnItsWay(x, s)
          PROVE  OnItsWay(x, s)'
      <4>1. PICK u \in Threads, i \in 1 .. Len(triggers[x]) :
              task[u] = x /\ triggers[x][i] = s /\ Ahead(u, i)
        BY <3>1 DEF OnItsWay
      <4>2. u = th => at[th] # i
        BY <1>2, <3>1, <4>1 DEF Current, Accepts
      <4>3. at[u] \in Nat /\ i \in Int
        BY DEF TypeOK
      <4>4. Ahead(u, i)'
        BY <2>1, <4>1, <4>2, <4>3 DEF Ahead, InHand
      <4> QED BY <2>1, <4>1, <4>4 DEF OnItsWay
    <3> QED BY <2>1, <2>2, <3>1, ResultsKept
  <2> QED BY <2>3, <2>4, <2>5, <2>6
<1> QED BY <1>1, <1>2 DEF SkipTrigger, NullArgument

LEMMA InvProcReturn ==
  ASSUME TInv, TypeOK', NEW th \in Threads, ProcReturn(th)
  PROVE  TInv'
<1> USE DEF TInv
<1>1. /\ UNCHANGED <<task, at, trig, kind, limit, attached, triggers, early, done,
                     queue>>
      /\ pc[th] = "proc" /\ pc' = [pc EXCEPT ![th] = "relock"]
      /\ got' = [got EXCEPT ![trig[th]] = <<1>>] \/ got' = got
  BY DEF ProcReturn, graphVars, flagVars
<1>2. pc'[th] = "relock" /\ \A u \in Threads : u # th => pc'[u] = pc[u]
  BY <1>1 DEF TypeOK
<1>3. PICK t \in attached \cap Trigs : trig[th] = t /\ kind[t] = "proc"
  BY <1>1 DEF Places, Place, InHand
<1>4. limit[t] = 1 /\ got[t] \in {<<>>, <<1>>}
  BY <1>3 DEF Contents
<1>5. /\ got'[t] \in {got[t], <<1>>} /\ \A s \in Trigs : s # t => got'[s] = got[s]
      /\ \A s \in Trigs : Len(got[s]) \in Nat
  BY <1>1, <1>3 DEF TypeOK
<1>6. Len(<<1>>) = 1 /\ Len(<<>>) = 0
  OBVIOUS
<1>7. /\ Ready(t) => got'[t] = got[t]
      /\ Len(got'[t]) >= Len(got[t])
  BY <1>4, <1>5, <1>6 DEF Ready
<1>8. Grows
  <2>1. ASSUME NEW s \in attached \cap Trigs
        PROVE  /\ s \in attached' /\ kind'[s] = kind[s] /\ limit'[s] = limit[s]
               /\ Len(got'[s]) >= Len(got[s])
               /\ Ready(s) => got'[s] = got[s]
               /\ \A x : Has(s, x) /\ kind[s] = "acc" => Has(s, x)'
    <3>1. CASE s = t
      BY <1>1, <1>3, <1>7, <3>1
    <3>2. CASE s # t
      BY <1>1, <1>5, <3>2 DEF Has
    <3> QED BY <3>1, <3>2
  <2> QED BY <2>1, Zenon DEF Grows
<1>9. Places'
  <2>1. Place(th)'
    BY <1>1, <1>2 DEF Places, Place, InHand
  <2> QED BY <1>1, <1>2, <1>8, <2>1, PlacesKept
<1>10. Chained' /\ Contents'
  BY <1>1, <1>3, <1>4, <1>5 DEF Chained, Contents
<1>11. FiredReady'
  <2>1. \A s \in Trigs : Fired(s)' => Fired(s)
    BY <1>1, <1>2 DEF Fired, Executing
  <2> QED BY <1>8, <2>1, FiredKept
<1>12. NoLostTrigger'
  <2>1. Activating(t)' # {}
    BY <1>1, <1>2, <1>3 DEF Activating
  <2>2. \A s \in attached \cap Trigs :
          /\ Executing(s) # {} => Executing(s)' # {}
          /\ Activating(s) # {} => Activating(s)' # {}
          /\ got'[s] # got[s] => s = t
    BY <1>1, <1>2, <1>5 DEF Executing, Activating
  <2> QED BY <1>1, <1>8, <2>1, <2>2, LostKept DEF Fired
<1>13. Results'
  <2>1. \A x \in done, s \in Trigs : OnItsWay(x, s) => OnItsWay(x, s)'
    BY <1>1, <1>2 DEF OnItsWay, Ahead, InHand
  <2> QED BY <1>1, <1>8, <2>1, ResultsKept
<1> QED BY <1>9, <1>10, <1>11, <1>12, <1>13

LEMMA InvRelock ==
  ASSUME TInv, TypeOK', NEW th \in Threads, Relock(th)
  PROVE  TInv'
<1> USE DEF TInv
<1>1. /\ UNCHANGED <<task, at, trig, kind, limit, got, attached, triggers, early, done,
                     queue>>
      /\ pc[th] = "relock" /\ pc' = [pc EXCEPT ![th] = "check"]
  BY DEF Relock, trigVars, graphVars, flagVars
<1>2. pc'[th] = "check" /\ \A u \in Threads : u # th => pc'[u] = pc[u]
  BY <1>1 DEF TypeOK
<1>3. Grows
  BY <1>1, QuietGrows
<1>4. Places'
  <2>1. Place(th)'
    BY <1>1, <1>2 DEF Places, Place, InHand
  <2> QED BY <1>1, <1>2, <1>3, <2>1, PlacesKept
<1>5. Chained' /\ Contents'
  BY <1>1 DEF Chained, Contents
<1>6. FiredReady' /\ NoLostTrigger'
  <2>1. \A s \in Trigs : Executing(s)' = Executing(s) /\ Activating(s)' = Activating(s)
    BY <1>1, <1>2 DEF Executing, Activating
  <2> QED BY <1>1, <2>1 DEF FiredReady, Fired, NoLostTrigger, Ready
<1>7. Results'
  <2>1. \A x \in done, s \in Trigs : OnItsWay(x, s) => OnItsWay(x, s)'
    BY <1>1, <1>2 DEF OnItsWay, Ahead, InHand
  <2> QED BY <1>1, <1>3, <2>1, ResultsKept
<1> QED BY <1>4, <1>5, <1>6, <1>7

LEMMA InvQueueTrigger ==
  ASSUME TInv, TypeOK', NEW th \in Threads, QueueTrigger(th)
  PROVE  TInv'
<1> USE DEF TInv
<1>1. /\ UNCHANGED <<task, kind, limit, got, attached, triggers, early, done>>
      /\ pc[th] = "check" /\ pc' = [pc EXCEPT ![th] = "notify"]
      /\ at' = [at EXCEPT ![th] = @ + 1] /\ trig' = [trig EXCEPT ![th] = NoTask]
      /\ task[th] # NoTask
      /\ IF Ready(trig[th]) THEN Push(trig[th]) ELSE UNCHANGED queue
  BY DEF QueueTrigger, trigVars, graphVars, Fires
<1>2. PICK t \in attached \cap Trigs : trig[th] = t
  BY <1>1 DEF Places, Place, InHand
<1>3. /\ pc'[th] = "notify" /\ at[th] \in Nat /\ at'[th] = at[th] + 1
      /\ trig'[th] = NoTask
      /\ \A u \in Threads : u # th => /\ pc'[u] = pc[u] /\ at'[u] = at[u]
                                      /\ trig'[u] = trig[u]
  BY <1>1 DEF TypeOK
<1>4. /\ \A s \in Trigs : s # t => queue'[s] = queue[s]
      /\ queue[t] \in Nat /\ queue'[t] = IF Ready(t) THEN queue[t] + 1 ELSE queue[t]
  BY <1>1, <1>2 DEF Push, TypeOK
<1>5. Grows
  BY <1>1, QuietGrows
<1>6. Places'
  <2>1. Place(th)'
    BY <1>1, <1>3 DEF Places, Place, InHand
  <2> QED BY <1>1, <1>3, <1>5, <2>1, PlacesKept
<1>7. Chained' /\ Contents'
  BY <1>1 DEF Chained, Contents
<1>8. \A s \in Trigs : Executing(s)' = Executing(s)
  BY <1>1, <1>3 DEF Executing
<1>9. FiredReady'
  <2>1. \A s \in Trigs : Fired(s)' => Fired(s) \/ (s = t /\ Ready(t))
    BY <1>1, <1>4, <1>8 DEF Fired
  <2> QED BY <1>2, <1>5, <2>1, FiredKept
<1>10. NoLostTrigger'
  <2> SUFFICES ASSUME NEW s \in attached' \cap Trigs, Ready(s)', s \notin done'
               PROVE  queue'[s] > 0 \/ Executing(s)' \cup Activating(s)' # {}
    BY DEF NoLostTrigger
  <2>1. Ready(s) /\ s \in attached /\ s \notin done
    BY <1>1 DEF Ready
  <2>2. CASE s = t
    BY <1>4, <2>1, <2>2
  <2>3. CASE s # t
    <3>1. queue[s] > 0 \/ Executing(s) \cup Activating(s) # {}
      BY <2>1 DEF NoLostTrigger
    <3>2. Activating(s) # {} => Activating(s)' # {}
      BY <1>2, <1>3, <2>3 DEF Activating
    <3> QED BY <1>4, <1>8, <2>3, <3>1, <3>2
  <2> QED BY <2>2, <2>3
<1>11. Results'
  <2>1. ASSUME NEW x \in done, NEW s \in Trigs, OnItsWay(x, s) PROVE OnItsWay(x, s)'
    <3>1. PICK u \in Threads, i \in 1 .. Len(triggers[x]) :
            task[u] = x /\ triggers[x][i] = s /\ Ahead(u, i)
      BY <2>1 DEF OnItsWay
    <3>2. at[u] \in Nat /\ i \in Int
      BY DEF TypeOK
    <3>3. Ahead(u, i)'
      BY <1>1, <1>3, <3>1, <3>2 DEF Ahead, InHand
    <3> QED BY <1>1, <3>1, <3>3 DEF OnItsWay
  <2> QED BY <1>1, <1>5, <2>1, ResultsKept
<1> QED BY <1>6, <1>7, <1>9, <1>10, <1>11

LEMMA InvEndNotify ==
  ASSUME TInv, TypeOK', NEW th \in Threads, EndNotify(th)
  PROVE  TInv'
<1> USE DEF TInv
<1>1. /\ UNCHANGED <<trig, kind, limit, got, triggers, early, done>>
      /\ pc[th] = "notify" /\ pc' = [pc EXCEPT ![th] = "idle"]
      /\ task' = [task EXCEPT ![th] = NoTask] /\ at' = [at EXCEPT ![th] = 0]
      /\ at[th] > Len(triggers[task[th]])
  BY DEF EndNotify, trigVars
<1>2. /\ pc'[th] = "idle" /\ task'[th] = NoTask /\ at'[th] = 0
      /\ \A u \in Threads : u # th => /\ pc'[u] = pc[u] /\ at'[u] = at[u]
                                      /\ task'[u] = task[u]
  BY <1>1 DEF TypeOK
<1>3. /\ attached \subseteq attached' /\ attached' \cap Trigs = attached \cap Trigs
      /\ \A t \in Trigs : queue'[t] = queue[t]
  <2>1. CASE job[th] = NoTask
    BY <2>1 DEF EndNotify
  <2>2. CASE job[th] # NoTask
    <3>1. job[th] \in Jobs
      BY <2>2 DEF TypeOK
    <3>2. attached' = attached \cup {job[th]} /\ (Push(job[th]) \/ UNCHANGED queue)
      BY <2>2 DEF EndNotify
    <3>3. \A t \in Trigs : queue'[t] = queue[t]
      BY <3>1, <3>2 DEF Push, TypeOK
    <3> QED BY <3>1, <3>2, <3>3
  <2> QED BY <2>1, <2>2
<1>4. \A t \in Trigs : t \in attached' <=> t \in attached
  BY <1>3
<1>5. Grows
  BY <1>1, <1>3, QuietGrows
<1>6. Places'
  <2>1. Place(th)'
    BY <1>1, <1>2 DEF Place, InHand
  <2> QED BY <1>1, <1>2, <1>3, <1>5, <2>1, PlacesKept
<1>7. Chained' /\ Contents'
  BY <1>1, <1>3, <1>4 DEF Chained, Contents
<1>8. FiredReady' /\ NoLostTrigger'
  <2>1. \A s \in Trigs : Executing(s)' = Executing(s) /\ Activating(s)' = Activating(s)
    BY <1>1, <1>2 DEF Executing, Activating
  <2> QED BY <1>1, <1>3, <1>4, <2>1 DEF FiredReady, Fired, NoLostTrigger, Ready
<1>9. Results'
  <2>1. ASSUME NEW x \in done, NEW s \in Trigs, OnItsWay(x, s) PROVE OnItsWay(x, s)'
    <3>1. PICK u \in Threads, i \in 1 .. Len(triggers[x]) :
            task[u] = x /\ triggers[x][i] = s /\ Ahead(u, i)
      BY <2>1 DEF OnItsWay
    <3>2. x \in Tasks /\ Len(triggers[x]) \in Nat /\ at[th] \in Nat
      BY DEF TypeOK
    <3>3. u # th
      BY <1>1, <3>1, <3>2 DEF Ahead, InHand
    <3>4. task'[u] = x /\ Ahead(u, i)'
      BY <1>2, <3>1, <3>3 DEF Ahead
    <3> QED BY <1>1, <3>1, <3>4 DEF OnItsWay
  <2> QED BY <1>1, <1>5, <2>1, ResultsKept
<1> QED BY <1>6, <1>7, <1>8, <1>9

LEMMA InvRunTrigger ==
  ASSUME TInv, TypeOK', NEW th \in Threads, RunTrigger(th)
  PROVE  TInv'
<1> USE DEF TInv
<1>1. /\ UNCHANGED <<at, kind, limit, got, attached, triggers, early, done, queue>>
      /\ pc[th] = "check" /\ task[th] = NoTask
      /\ trig' = [trig EXCEPT ![th] = NoTask]
      /\ \/ /\ Ready(trig[th]) /\ pc' = [pc EXCEPT ![th] = "exec"]
            /\ task' = [task EXCEPT ![th] = trig[th]]
         \/ ~Ready(trig[th]) /\ pc' = [pc EXCEPT ![th] = "idle"] /\ task' = task
  BY DEF RunTrigger, trigVars, graphVars, flagVars, Fires
<1>2. PICK t \in attached \cap Trigs : trig[th] = t
  BY <1>1 DEF Places, Place, InHand
<1>3. /\ trig'[th] = NoTask /\ at[th] = 0
      /\ \A u \in Threads : u # th => /\ pc'[u] = pc[u] /\ task'[u] = task[u]
                                      /\ trig'[u] = trig[u]
      /\ \/ Ready(t) /\ pc'[th] = "exec" /\ task'[th] = t
         \/ ~Ready(t) /\ pc'[th] = "idle" /\ task'[th] = NoTask
  <2>1. at[th] = 0
    BY <1>1 DEF Places, Place, InHand
  <2>2. /\ pc \in [Threads ->
                    {"idle", "exec", "notify", "proc", "relock", "check"}]
        /\ task \in [Threads -> Tasks \cup {NoTask}]
        /\ trig \in [Threads -> Trigs \cup {NoTask}]
    BY DEF TypeOK
  <2> QED BY <1>1, <1>2, <2>1, <2>2
<1>4. Grows
  BY <1>1, QuietGrows
<1>5. Places'
  <2>1. Place(th)'
    BY <1>1, <1>3 DEF Place, InHand
  <2> QED BY <1>1, <1>3, <1>4, <2>1, PlacesKept
<1>6. Chained' /\ Contents'
  BY <1>1 DEF Chained, Contents
<1>7. FiredReady'
  <2>1. \A s \in Trigs : Fired(s)' => Fired(s) \/ (s = t /\ Ready(t))
    BY <1>1, <1>3 DEF Fired, Executing
  <2> QED BY <1>2, <1>4, <2>1, FiredKept
<1>8. NoLostTrigger'
  <2> SUFFICES ASSUME NEW s \in attached' \cap Trigs, Ready(s)', s \notin done'
               PROVE  queue'[s] > 0 \/ Executing(s)' \cup Activating(s)' # {}
    BY DEF NoLostTrigger
  <2>1. Ready(s) /\ s \in attached /\ s \notin done
    BY <1>1 DEF Ready
  <2>2. CASE s = t
    BY <1>3, <2>1, <2>2 DEF Executing
  <2>3. CASE s # t
    <3>1. queue[s] > 0 \/ Executing(s) # {} \/ Activating(s) # {}
      BY <2>1 DEF NoLostTrigger
    <3>2. /\ Activating(s) # {} => Activating(s)' # {}
          /\ Executing(s) # {} => Executing(s)' # {}
      BY <1>1, <1>2, <1>3, <2>3 DEF Activating, Executing
    <3> QED BY <1>1, <3>1, <3>2
  <2> QED BY <2>2, <2>3
<1>9. Results'
  <2>1. \A x \in done : task[th] # x
    BY <1>1 DEF TypeOK
  <2>2. \A x \in done, s \in Trigs : OnItsWay(x, s) => OnItsWay(x, s)'
    BY <1>1, <1>3, <2>1, WaysKept
  <2> QED BY <1>1, <1>4, <2>2, ResultsKept
<1> QED BY <1>5, <1>6, <1>7, <1>8, <1>9

-----------------------------------------------------------------------------
LEMMA InvInit == Init => TInv
<1> SUFFICES ASSUME Init PROVE TInv
  OBVIOUS
<1>1. TypeOK
  <2>1. /\ got \in [Trigs -> Seq(Tasks \cup Nat)] /\ triggers \in [Tasks -> Seq(Trigs)]
        /\ kind \in [Trigs -> Kinds] /\ limit \in [Trigs -> Nat]
    BY DEF Init, Kinds
  <2>2. /\ pc \in [Threads ->
                    {"idle", "exec", "notify", "proc", "relock", "check"}]
        /\ \A th \in Threads : pc[th] = "idle"
    BY DEF Init
  <2>3. /\ deps \in [Jobs -> SUBSET Tasks] /\ notify \in [Tasks -> SUBSET Jobs]
        /\ queue \in [Tasks -> Nat] /\ updates \in 0 .. MaxUpdates
    BY DEF Init
  <2> QED BY <2>1, <2>2, <2>3 DEF Init, TypeOK
<1>2. Places /\ Chained /\ Contents /\ NoLostTrigger /\ Results
  BY DEF Init, Places, Place, InHand, Chained, Contents, NoLostTrigger, Results
<1>3. FiredReady
  BY DEF Init, FiredReady, Fired, Executing
<1> QED BY <1>1, <1>2, <1>3 DEF TInv

LEMMA InvStep ==
  ASSUME TInv, Next
  PROVE  TInv'
<1>1. ASSUME NEW w \in Workers, Work(w) PROVE TInv'
  <2>1. TypeOK'
    BY <1>1, TypeWork DEF TInv
  <2> QED BY <1>1, <2>1, InvRest, InvPop DEF Work
<1>2. ASSUME NEW c \in Clients, Command(c) PROVE TInv'
  BY <1>2, InvCommand
<1>3. ASSUME NEW th \in Threads, Continue(th) PROVE TInv'
  <2>1. TypeOK'
    BY <1>3, TypeContinue DEF TInv
  <2> QED BY <1>3, <2>1, InvFinish, InvNotifyJobs, InvNotifyTrigger, InvSkipTrigger,
             InvProcReturn, InvRelock, InvQueueTrigger, InvEndNotify, InvRunTrigger
          DEF Continue
<1> QED BY <1>1, <1>2, <1>3 DEF Next

LEMMA InvStutter == ASSUME TInv, UNCHANGED vars PROVE TInv'
<1>1. UNCHANGED <<threadVars, trigVars, graphVars, flagVars, updates, aborted>>
  BY DEF vars
<1>2. TypeOK'
  BY <1>1 DEF TInv, TypeOK, threadVars, trigVars, graphVars, flagVars
<1> QED BY <1>1, <1>2, InvAbort

LEMMA Invariance == Spec => []TInv
<1>1. TInv /\ [Next]_vars => TInv'
  BY InvStep, InvStutter
<1> QED BY InvInit, <1>1, PTL DEF Spec

\* The fields keep their types, and a thread between two steps of a critical
\* section has the lock: notifyDeps() is never performed by two threads at once.
THEOREM TypeCorrect == Spec => []TypeOK
<1>1. TInv => TypeOK
  BY DEF TInv
<1> QED BY Invariance, <1>1, PTL

\* A trigger that has got enough is executed: until it is done it is in the
\* queue, executed, or in the hands of the thread that activated it.
THEOREM TriggersFire == Spec => []NoLostTrigger
<1>1. TInv => NoLostTrigger
  BY DEF TInv
<1> QED BY Invariance, <1>1, PTL

\* notifyDeps() gets round to every trigger that was chained before the task was
\* done, though proc triggers make it give up the lock on its way and other
\* threads go the same way meanwhile.
THEOREM ResultsArrive == Spec => []NoLostResult
<1>1. TInv => NoLostResult
  <2> SUFFICES ASSUME TInv, NEW x \in done, NEW t \in Trigs, <<x, t>> \in early,
                      kind[t] = "acc", ResultOf(x) # <<>>, Notifying(x) = {}
               PROVE  Ready(t) \/ Has(t, x)
    BY DEF NoLostResult, Has
  <2>1. Ready(t) \/ Has(t, x) \/ OnItsWay(x, t)
    BY DEF TInv, Results
  <2>2. ~OnItsWay(x, t)
    BY DEF OnItsWay, Ahead, InHand, Notifying
  <2> QED BY <2>1, <2>2
<1> QED BY Invariance, <1>1, PTL

-----------------------------------------------------------------------------
\* No step takes anything from a trigger of the pool, or adds to one that is
\* ready.
LEMMA AllGrow ==
  ASSUME TInv, Next
  PROVE  \A t \in attached \cap Trigs : Ready(t) => got'[t] = got[t]
<1>1. CASE UNCHANGED got
  BY <1>1
<1>2. ASSUME NEW th \in Threads, NEW t \in attached \cap Trigs, NEW arg \in Seq(Items),
             Activate(th, t, arg)
      PROVE  Grows
  BY <1>2, ActivateGrows DEF TInv
<1>3. ASSUME NEW th \in Threads, NotifyTrigger(th) PROVE Grows
  <2>1. task[th] \in Tasks /\ pc[th] = "notify" /\ InTriggers(th)
    BY <1>3 DEF TInv, NotifyTrigger, InTriggers, Places, Place, TypeOK
  <2>2. Current(th) \in attached \cap Trigs
    BY <2>1, CurrentTrigger DEF TInv, Chained, InTriggers, Current
  <2>3. ResultOf(task[th]) \in Seq(Items)
    BY <2>1, ResultItems
  <2> QED BY <1>2, <1>3, <2>2, <2>3 DEF NotifyTrigger
<1>4. ASSUME NEW th \in Threads, ProcReturn(th)
      PROVE  \A t \in attached \cap Trigs : Ready(t) => got'[t] = got[t]
  <2>1. PICK t \in attached \cap Trigs : trig[th] = t /\ kind[t] = "proc"
    BY <1>4 DEF ProcReturn, TInv, Places, Place, InHand
  <2>2. limit[t] = 1 /\ got[t] \in {<<>>, <<1>>} /\ Len(<<>>) = 0
    BY <2>1 DEF TInv, Contents
  <2>3. got' = [got EXCEPT ![t] = <<1>>] \/ got' = got
    BY <1>4, <2>1 DEF ProcReturn
  <2> QED BY <2>2, <2>3 DEF Ready, TInv, TypeOK
<1>5. ASSUME NEW c \in Clients, NEW t \in Trigs, NEW arg \in Arguments,
             UpdateTrigger(c, t, arg)
      PROVE  Grows \/ UNCHANGED got
  <2>1. arg \in Seq(Items) /\ t \in attached \cap Trigs
    BY <1>5, SeqMonotonic DEF UpdateTrigger, Items
  <2>2. NullArgument(c, t, arg) => UNCHANGED got
    BY DEF NullArgument, trigVars
  <2> QED BY <1>2, <1>5, <2>1, <2>2 DEF UpdateTrigger
<1>6. ASSUME NEW w \in Workers, Work(w) PROVE UNCHANGED got
  BY <1>6 DEF Work, Rest, Pop, trigVars
<1>7. ASSUME NEW c \in Clients, Command(c) PROVE Grows \/ UNCHANGED got
  BY <1>5, <1>7
     DEF Command, CreateTrigger, ChainTrigger, StartJob, ScheduleJob, trigVars
<1>8. ASSUME NEW th \in Threads, Continue(th)
      PROVE  \A t \in attached \cap Trigs : Ready(t) => got'[t] = got[t]
  <2>1. CASE NotifyTrigger(th)
    BY <1>3, <2>1 DEF Grows
  <2>2. CASE ProcReturn(th)
    BY <1>4, <2>2
  <2>3. CASE ~NotifyTrigger(th) /\ ~ProcReturn(th)
    BY <1>1, <1>8, <2>3
       DEF Continue, Finish, NotifyJobs, SkipTrigger, NullArgument, Relock,
           QueueTrigger, EndNotify, RunTrigger, trigVars
  <2> QED BY <2>1, <2>2, <2>3
<1> QED BY <1>1, <1>6, <1>7, <1>8 DEF Next, Grows

\* Whatever threads do, a trigger that is executed or done has its contents for
\* good: execute() may read them without the lock.
THEOREM ContentsStable == Spec => StableTrigger
<1> DEFINE A == \A t \in Trigs : t \in done \/ Executing(t) # {} => got'[t] = got[t]
<1>1. TInv /\ [Next]_vars => [A]_vars
  <2> SUFFICES ASSUME TInv, Next PROVE A
    OBVIOUS
  <2>1. \A t \in Trigs : t \in done \/ Executing(t) # {} => t \in attached /\ Ready(t)
    BY DEF TInv, FiredReady, Fired
  <2> QED BY <2>1, AllGrow
<1> QED BY Invariance, <1>1, PTL DEF Spec, StableTrigger
==============================================================================
