----------------------------- MODULE TasksProofs ------------------------------
(***************************************************************************)
(* Tasks for any number of workers and tasks: its types, that a started    *)
(* task is always in exactly one place, and that the task system           *)
(* implements AbstractTasks.                                               *)
(***************************************************************************)
EXTENDS Tasks, FiniteSetTheorems, SequenceTheorems, TLAPS

USE WorkersAssumption, MaxTasksAssumption, MaxNestingAssumption

\* Whatever is on its way is a task of the interpreter it names, and a result
\* on its way to an interpreter is that of its task.
Known ==
  /\ \A k \in DOMAIN taskQueue : taskQueue[k][2] \in Ids(taskQueue[k][1])
  /\ \A w \in Workers : doing[w] # NoTask => doing[w][2] \in Ids(doing[w][1])
  /\ \A x \in failed : x[2] \in Ids(x[1])
  /\ \A i \in Interpreters : \A k \in DOMAIN toWorker[i] :
       /\ toWorker[i][k][1] \in Ids(i)
       /\ toWorker[i][k][2] = ResultOf(i, toWorker[i][k][1])

\* A task has its own result once it is done, and none before.
Results ==
  \A i \in Interpreters : \A id \in Ids(i) :
    localTasks[i][id].result =
      IF localTasks[i][id].done THEN ResultOf(i, id) ELSE NoResult

TaskInv == TypeOK /\ Known /\ Results /\ OnePlace

-----------------------------------------------------------------------------
\* Counting.

\* How many elements of s are in A.
Count(A, s) == Cardinality({k \in DOMAIN s : s[k] \in A})

LEMMA CountNat ==
  ASSUME NEW S, NEW s \in Seq(S), NEW A
  PROVE  /\ IsFiniteSet({k \in DOMAIN s : s[k] \in A})
         /\ Count(A, s) \in Nat
         /\ Count(A, s) = 0 <=> \A k \in DOMAIN s : s[k] \notin A
<1> DEFINE C == {k \in DOMAIN s : s[k] \in A}
<1>1. IsFiniteSet(1 .. Len(s)) /\ DOMAIN s = 1 .. Len(s)
  BY FS_Interval
<1>2. IsFiniteSet(C)
  BY <1>1, FS_Subset
<1>3. Cardinality(C) \in Nat /\ (Cardinality(C) = 0 <=> C = {})
  BY <1>2, FS_CardinalityType, FS_EmptySet
<1> QED BY <1>2, <1>3 DEF Count

LEMMA CountAppend ==
  ASSUME NEW S, NEW s \in Seq(S), NEW x \in S, NEW A
  PROVE  Count(A, Append(s, x)) = Count(A, s) + (IF x \in A THEN 1 ELSE 0)
<1> DEFINE C == {k \in DOMAIN s : s[k] \in A}
           a == Append(s, x)
           D == {k \in DOMAIN a : a[k] \in A}
           n == Len(s) + 1
<1>1. /\ DOMAIN s = 1 .. Len(s) /\ DOMAIN a = 1 .. n /\ a[n] = x
      /\ \A k \in 1 .. Len(s) : a[k] = s[k]
      /\ Len(s) \in Nat
  BY AppendProperties
<1>0. Count(A, s) = Cardinality(C) /\ Count(A, a) = Cardinality(D)
  BY DEF Count
<1>2. IsFiniteSet(C) /\ n \notin C /\ Cardinality(C) \in Nat
  <2>1. IsFiniteSet(C) /\ Cardinality(C) \in Nat
    BY <1>0, CountNat
  <2> QED BY <1>1, <2>1
<1>3. CASE x \in A
  <2>1. D = C \cup {n}
    BY <1>1, <1>3
  <2>2. Cardinality(C \cup {n}) = Cardinality(C) + 1
    BY <1>2, FS_AddElement
  <2> HIDE DEF C, D
  <2> QED BY <1>0, <1>3, <2>1, <2>2
<1>4. CASE x \notin A
  <2>1. D = C
    BY <1>1, <1>4
  <2> HIDE DEF C, D
  <2> QED BY <1>0, <1>2, <1>4, <2>1
<1> QED BY <1>3, <1>4

LEMMA CountTail ==
  ASSUME NEW S, NEW s \in Seq(S), s # <<>>, NEW A
  PROVE  Count(A, s) = Count(A, Tail(s)) + (IF Head(s) \in A THEN 1 ELSE 0)
<1> DEFINE C == {k \in DOMAIN s : s[k] \in A}
           r == Tail(s)
           D == {k \in DOMAIN r : r[k] \in A}
           E == C \ {1}
<1>1. /\ r \in Seq(S) /\ Len(r) = Len(s) - 1 /\ Len(s) \in Nat \ {0}
      /\ DOMAIN s = 1 .. Len(s) /\ DOMAIN r = 1 .. Len(s) - 1
      /\ \A k \in 1 .. Len(s) - 1 : r[k] = s[k + 1]
      /\ Head(s) = s[1]
  BY HeadTailProperties, EmptySeq
<1>0. Count(A, s) = Cardinality(C) /\ Count(A, r) = Cardinality(D)
  BY DEF Count
<1>2. IsFiniteSet(C) /\ IsFiniteSet(D) /\ IsFiniteSet(E)
  <2>1. IsFiniteSet(C) /\ IsFiniteSet(D)
    BY <1>1, CountNat
  <2> QED BY <2>1, FS_Subset
<1>3. Cardinality(D) = Cardinality(E)
  <2> DEFINE f == [k \in D |-> k + 1]
  <2>1. \A k \in D : k + 1 \in E
    BY <1>1
  <2>2. \A k \in E : k - 1 \in D /\ (k - 1) + 1 = k
    BY <1>1
  <2>3. \A k, m \in D : k + 1 = m + 1 => k = m
    BY <1>1
  <2>4. f \in Bijection(D, E)
    BY <2>1, <2>2, <2>3 DEF Bijection, Injection, Surjection, IsInjective
  <2>5. ExistsBijection(D, E)
    BY <2>4 DEF ExistsBijection
  <2> QED BY <1>2, <2>5, FS_Bijection
<1>4. CASE Head(s) \in A
  <2>1. 1 \in C /\ E = C \ {1}
    BY <1>1, <1>4
  <2>2. Cardinality(E) = Cardinality(C) - 1 /\ Cardinality(C) \in Nat
    BY <1>2, <2>1, FS_RemoveElement, FS_CardinalityType
  <2> HIDE DEF C, D, E
  <2> QED BY <1>0, <1>3, <1>4, <2>2
<1>5. CASE Head(s) \notin A
  <2>1. E = C
    BY <1>1, <1>5
  <2>2. Cardinality(C) \in Nat
    BY <1>2, FS_CardinalityType
  <2> HIDE DEF C, D, E
  <2> QED BY <1>0, <1>3, <1>5, <2>1, <2>2
<1> QED BY <1>4, <1>5

-----------------------------------------------------------------------------
\* The places of a task, one by one.
Pairs == Interpreters \X Nat
Replies == Nat \X Pairs
Messages(id) == {m \in Replies : m[1] = id}

InQueue(x) == Count({x}, taskQueue)
Executing(d, x) == {w \in Workers : d[w] = x}
Doers(x) == Executing(doing, x)
Received(i, id) == Count(Messages(id), toWorker[i])
Lost(x) == IF x \in failed THEN 1 ELSE 0
Done(i, id) == IF localTasks[i][id].done THEN 1 ELSE 0

LEMMA PlacesAre ==
  ASSUME TypeOK, NEW i \in Interpreters, NEW id \in Nat
  PROVE  Places(i, id) =
           InQueue(<<i, id>>) + Cardinality(Doers(<<i, id>>)) + Received(i, id)
             + Lost(<<i, id>>) + Done(i, id)
<1>1. {k \in DOMAIN taskQueue : taskQueue[k] = <<i, id>>}
        = {k \in DOMAIN taskQueue : taskQueue[k] \in {<<i, id>>}}
  OBVIOUS
<1>2. {k \in DOMAIN toWorker[i] : toWorker[i][k][1] = id}
        = {k \in DOMAIN toWorker[i] : toWorker[i][k] \in Messages(id)}
  <2>1. toWorker[i] \in Seq(Replies)
    BY DEF TypeOK, Replies, Pairs
  <2>2. \A k \in DOMAIN toWorker[i] : toWorker[i][k] \in Replies
    BY <2>1, ElementOfSeq
  <2> QED BY <2>2 DEF Messages
<1> QED BY <1>1, <1>2 DEF Places, Occurrences, InQueue, Doers, Executing, Received, Lost, Done, Count

LEMMA CountsAre ==
  ASSUME TypeOK, NEW i \in Interpreters, NEW id \in Nat
  PROVE  /\ InQueue(<<i, id>>) \in Nat
         /\ InQueue(<<i, id>>) = 0 <=> \A k \in DOMAIN taskQueue : taskQueue[k] # <<i, id>>
         /\ Cardinality(Doers(<<i, id>>)) \in Nat
         /\ Cardinality(Doers(<<i, id>>)) = 0 <=> \A w \in Workers : doing[w] # <<i, id>>
         /\ Received(i, id) \in Nat
         /\ Received(i, id) = 0 <=> \A k \in DOMAIN toWorker[i] : toWorker[i][k][1] # id
         /\ Lost(<<i, id>>) \in {0, 1} /\ Done(i, id) \in {0, 1}
<1>1. taskQueue \in Seq(Pairs) /\ toWorker[i] \in Seq(Replies)
  BY DEF TypeOK, Pairs, Replies
<1>2. /\ InQueue(<<i, id>>) \in Nat
      /\ InQueue(<<i, id>>) = 0 <=> \A k \in DOMAIN taskQueue : taskQueue[k] \notin {<<i, id>>}
  BY <1>1, CountNat DEF InQueue
<1>3. /\ Received(i, id) \in Nat
      /\ Received(i, id) = 0 <=> \A k \in DOMAIN toWorker[i] : toWorker[i][k] \notin Messages(id)
  BY <1>1, CountNat DEF Received
<1>4. \A k \in DOMAIN toWorker[i] : toWorker[i][k] \in Replies
  BY <1>1, ElementOfSeq
<1>5. Received(i, id) = 0 <=> \A k \in DOMAIN toWorker[i] : toWorker[i][k][1] # id
  BY <1>3, <1>4 DEF Messages
<1>6. /\ Cardinality(Doers(<<i, id>>)) \in Nat
      /\ Cardinality(Doers(<<i, id>>)) = 0 <=> \A w \in Workers : doing[w] # <<i, id>>
  <2>1. IsFiniteSet(Doers(<<i, id>>))
    BY FS_Subset DEF Doers, Executing
  <2>2. Doers(<<i, id>>) = {} <=> \A w \in Workers : doing[w] # <<i, id>>
    BY DEF Doers, Executing
  <2> QED BY <2>1, <2>2, FS_CardinalityType, FS_EmptySet
<1> QED BY <1>2, <1>3, <1>5, <1>6 DEF Lost, Done

\* A worker turns to a task, or from one.
Turns(d, f, w, e) ==
  /\ d \in [Workers -> {NoTask} \cup Pairs] /\ (d[w] = NoTask \/ e = NoTask)
  /\ \A v \in Workers : f[v] = IF v = w THEN e ELSE d[v]

LEMMA DoersChange ==
  ASSUME NEW d, NEW f, NEW w \in Workers, NEW e, NEW x, x # NoTask, Turns(d, f, w, e)
  PROVE  /\ Cardinality(Executing(d, x)) \in Nat /\ Cardinality(Executing(f, x)) \in Nat
         /\ Cardinality(Executing(f, x)) + (IF d[w] = x THEN 1 ELSE 0)
              = Cardinality(Executing(d, x)) + (IF e = x THEN 1 ELSE 0)
<1> DEFINE D == {v \in Workers : d[v] = x}
           F == {v \in Workers : f[v] = x}
<1>1. IsFiniteSet(D) /\ IsFiniteSet(F) /\ Cardinality(D) \in Nat /\ Cardinality(F) \in Nat
  BY FS_Subset, FS_CardinalityType
<1>2. Cardinality(F) + (IF d[w] = x THEN 1 ELSE 0)
        = Cardinality(D) + (IF e = x THEN 1 ELSE 0)
  <2>1. CASE d[w] = x
    <3>1. F = D \ {w} /\ w \in D /\ e # x
      BY <2>1 DEF Turns
    <3>2. Cardinality(D \ {w}) = Cardinality(D) - 1
      BY <1>1, <3>1, FS_RemoveElement
    <3> HIDE DEF D, F
    <3> QED BY <1>1, <2>1, <3>1, <3>2
  <2>2. CASE d[w] # x /\ e = x
    <3>1. F = D \cup {w} /\ w \notin D
      BY <2>2 DEF Turns
    <3>2. Cardinality(D \cup {w}) = Cardinality(D) + 1
      BY <1>1, <3>1, FS_AddElement
    <3> HIDE DEF D, F
    <3> QED BY <1>1, <2>2, <3>1, <3>2
  <2>3. CASE d[w] # x /\ e # x
    <3>1. F = D
      BY <2>3 DEF Turns
    <3> HIDE DEF D, F
    <3> QED BY <1>1, <2>3, <3>1
  <2> QED BY <2>1, <2>2, <2>3
<1>3. D = Executing(d, x) /\ F = Executing(f, x)
  BY DEF Executing
<1> HIDE DEF D, F
<1> QED BY <1>1, <1>2, <1>3

-----------------------------------------------------------------------------
\* What steps do to the tasks of an interpreter.
TaskRecord == [started : BOOLEAN, done : BOOLEAN, result : {NoResult} \cup Pairs]

LEMMA IdsAre ==
  ASSUME TypeOK, NEW i \in Interpreters
  PROVE  /\ localTasks \in [Interpreters -> Seq(TaskRecord)]
         /\ Len(localTasks[i]) \in Nat /\ Ids(i) = 1 .. Len(localTasks[i])
         /\ Ids(i) \subseteq Nat
         /\ \A id \in Ids(i) : localTasks[i][id] \in TaskRecord
<1>1. localTasks \in [Interpreters -> Seq(TaskRecord)]
  BY DEF TypeOK, TaskRecord, Pairs
<1> QED BY <1>1, ElementOfSeq DEF Ids

LEMMA AddFacts ==
  ASSUME TypeOK, NEW i \in Interpreters, NEW s \in BOOLEAN,
         localTasks' = [localTasks EXCEPT ![i] = Append(@, NewTask(s))]
  PROVE  LET n == Len(localTasks[i]) + 1
         IN /\ localTasks' \in [Interpreters -> Seq(TaskRecord)]
            /\ n \in Nat /\ n \notin Ids(i) /\ Ids(i)' = Ids(i) \cup {n}
            /\ localTasks'[i][n] = NewTask(s)
            /\ \A id \in Ids(i) : localTasks'[i][id] = localTasks[i][id]
            /\ \A j \in Interpreters : j # i => localTasks'[j] = localTasks[j]
<1> DEFINE n == Len(localTasks[i]) + 1
<1>1. NewTask(s) \in TaskRecord
  BY DEF NewTask, TaskRecord
<1>2. PICK t, q : t = localTasks[i] /\ q = localTasks'[i]
  OBVIOUS
<1>3. t \in Seq(TaskRecord) /\ q = Append(t, NewTask(s)) /\ Ids(i) = DOMAIN t
      /\ Ids(i)' = DOMAIN q
  BY <1>2, IdsAre DEF Ids
<1>4. /\ q \in Seq(TaskRecord) /\ Len(t) \in Nat
      /\ DOMAIN t = 1 .. Len(t) /\ DOMAIN q = 1 .. Len(t) + 1
      /\ q[Len(t) + 1] = NewTask(s)
      /\ \A id \in 1 .. Len(t) : q[id] = t[id]
  BY <1>1, <1>3, AppendProperties
<1>5. /\ localTasks' \in [Interpreters -> Seq(TaskRecord)]
      /\ \A j \in Interpreters : j # i => localTasks'[j] = localTasks[j]
  BY <1>2, <1>4, IdsAre
<1>6. n \in Nat /\ n \notin Ids(i) /\ Ids(i)' = Ids(i) \cup {n}
  BY <1>2, <1>3, <1>4
<1> QED BY <1>2, <1>3, <1>4, <1>5, <1>6

LEMMA PollFacts ==
  ASSUME TypeOK, Known, NEW i \in Interpreters, PollIncoming(i)
  PROVE  LET r == RemoteId(i)
         IN /\ r \in Ids(i) /\ Head(toWorker[i]) = <<r, ResultOf(i, r)>>
            /\ localTasks' \in [Interpreters -> Seq(TaskRecord)]
            /\ \A j \in Interpreters : Ids(j)' = Ids(j)
            /\ \A j \in Interpreters : \A id \in Ids(j) :
                 /\ localTasks'[j][id].started = localTasks[j][id].started
                 /\ IF j = i /\ id = r
                      THEN /\ localTasks'[j][id].done = TRUE
                           /\ localTasks'[j][id].result = ResultOf(i, r)
                      ELSE localTasks'[j][id] = localTasks[j][id]
<1> DEFINE r == RemoteId(i)
<1>1. toWorker[i] \in Seq(Replies) /\ toWorker[i] # <<>>
  BY DEF TypeOK, Replies, Pairs, PollIncoming
<1>2. 1 \in DOMAIN toWorker[i] /\ Head(toWorker[i]) = toWorker[i][1]
      /\ Head(toWorker[i]) \in Replies
  BY <1>1, HeadTailProperties, EmptySeq
<1>3. r \in Ids(i) /\ Head(toWorker[i])[2] = ResultOf(i, r)
  BY <1>2 DEF Known, RemoteId
<1>4. Head(toWorker[i]) = <<r, ResultOf(i, r)>>
  BY <1>2, <1>3 DEF RemoteId, Replies
<1>5. PICK t, q, e : /\ t = localTasks[i] /\ q = localTasks'[i]
                     /\ e = [t[r] EXCEPT !.done = TRUE, !.result = ResultOf(i, r)]
  OBVIOUS
<1>6. localTasks' = [localTasks EXCEPT ![i] = [t EXCEPT ![r] = e]]
  BY <1>3, <1>5 DEF PollIncoming
<1>7. /\ t \in Seq(TaskRecord) /\ Ids(i) = DOMAIN t /\ DOMAIN t = 1 .. Len(t)
      /\ t[r] \in TaskRecord /\ Len(t) \in Nat
  BY <1>3, <1>5, IdsAre
<1>8. /\ e \in TaskRecord /\ e.done = TRUE /\ e.result = ResultOf(i, r)
      /\ e.started = t[r].started
  <2>1. ResultOf(i, r) \in Pairs
    BY <1>3, IdsAre DEF ResultOf, Pairs
  <2> QED BY <1>5, <1>7, <2>1 DEF TaskRecord
<1>9. q = [t EXCEPT ![r] = e]
  BY <1>5, <1>6, IdsAre
<1>10. q \in Seq(TaskRecord) /\ DOMAIN q = DOMAIN t
       /\ \A id \in DOMAIN t : q[id] = IF id = r THEN e ELSE t[id]
  BY <1>3, <1>7, <1>8, <1>9, ExceptSeq
<1>11. /\ localTasks' \in [Interpreters -> Seq(TaskRecord)]
       /\ \A j \in Interpreters : localTasks'[j] = IF j = i THEN q ELSE localTasks[j]
  BY <1>6, <1>9, <1>10, IdsAre
<1>12. \A j \in Interpreters : Ids(j)' = Ids(j)
  BY <1>5, <1>10, <1>11 DEF Ids
<1>13. ASSUME NEW j \in Interpreters, NEW id \in Ids(j)
       PROVE  /\ localTasks'[j][id].started = localTasks[j][id].started
              /\ IF j = i /\ id = r
                   THEN /\ localTasks'[j][id].done = TRUE
                        /\ localTasks'[j][id].result = ResultOf(i, r)
                   ELSE localTasks'[j][id] = localTasks[j][id]
  BY <1>5, <1>7, <1>8, <1>10, <1>11
<1> QED BY <1>3, <1>4, <1>11, <1>12, <1>13

-----------------------------------------------------------------------------
\* Types, and that only known tasks are on their way.
LEMMA TypeNext ==
  ASSUME TypeOK, Known, Next
  PROVE  TypeOK'
<1>0. /\ taskQueue \in Seq(Pairs) /\ toWorker \in [Interpreters -> Seq(Replies)]
      /\ localTasks \in [Interpreters -> Seq(TaskRecord)]
      /\ doing \in [Workers -> {NoTask} \cup Pairs]
      /\ Workers \subseteq Interpreters
  BY DEF TypeOK, Pairs, Replies, TaskRecord, Interpreters
<1> DEFINE Waits2 == \A i \in Interpreters : waiting'[i] # NoWait => waiting'[i][1] \subseteq Ids(i)'
<1>1. ASSUME taskQueue' \in Seq(Pairs), toWorker' \in [Interpreters -> Seq(Replies)],
             localTasks' \in [Interpreters -> Seq(TaskRecord)],
             doing' \in [Workers -> {NoTask} \cup Pairs],
             ended' \in SUBSET Workers, failed' \in SUBSET Pairs,
             waiting' \in [Interpreters -> {NoWait} \cup ((SUBSET Nat) \X Nat)],
             Waits2
      PROVE  TypeOK'
  BY <1>1 DEF TypeOK, Pairs, Replies, TaskRecord
<1>2. ASSUME NEW i \in Interpreters, RunTask(i) \/ CreateTask(i) PROVE TypeOK'
  <2>1. PICK s \in BOOLEAN : localTasks' = [localTasks EXCEPT ![i] = Append(@, NewTask(s))]
    BY <1>2 DEF RunTask, CreateTask
  <2>2. <<i, Len(localTasks[i]) + 1>> \in Pairs
    BY IdsAre DEF Pairs
  <2>3. taskQueue' \in Seq(Pairs)
    <3>1. Append(taskQueue, <<i, Len(localTasks[i]) + 1>>) \in Seq(Pairs)
      BY <1>0, <2>2, AppendProperties
    <3>2. \/ taskQueue' = Append(taskQueue, <<i, Len(localTasks[i]) + 1>>)
          \/ taskQueue' = taskQueue
      BY <1>2 DEF RunTask, CreateTask
    <3> QED BY <1>0, <3>1, <3>2
  <2>4. /\ localTasks' \in [Interpreters -> Seq(TaskRecord)]
        /\ \A j \in Interpreters : Ids(j) \subseteq Ids(j)'
    BY <2>1, AddFacts DEF Ids
  <2>5. UNCHANGED <<toWorker, doing, ended, waiting, failed>>
    BY <1>2 DEF RunTask, CreateTask
  <2>6. Waits2
    BY <2>4, <2>5 DEF TypeOK
  <2> QED BY <1>0, <1>1, <2>3, <2>4, <2>5, <2>6 DEF TypeOK, Pairs
<1>3. ASSUME NEW i \in Interpreters, Error(i), i # Main => doing[i] # NoTask
      PROVE  TypeOK'
  <2>1. CASE i = Main
    <3>1. UNCHANGED <<doing, ended, failed, taskQueue, toWorker, localTasks, waiting>>
      BY <1>3, <2>1 DEF Error
    <3> QED BY <3>1 DEF TypeOK, Ids
  <2>2. CASE i # Main
    <3>1. i \in Workers /\ doing[i] \in Pairs
      BY <1>0, <1>3, <2>2 DEF Interpreters
    <3>2. /\ failed' = failed \cup {doing[i]} /\ doing' = [doing EXCEPT ![i] = NoTask]
          /\ ended' = ended \cup {i}
          /\ UNCHANGED <<taskQueue, toWorker, localTasks, waiting>>
      BY <1>3, <2>2 DEF Error
    <3>3. Waits2
      BY <3>2 DEF TypeOK, Ids
    <3> QED BY <1>0, <1>1, <3>1, <3>2, <3>3 DEF TypeOK, Pairs
  <2> QED BY <2>1, <2>2
<1>4. ASSUME NEW w \in Workers, TakeTask(w) PROVE TypeOK'
  <2>1. Head(taskQueue) \in Pairs /\ taskQueue' \in Seq(Pairs)
    BY <1>0, <1>4, HeadTailProperties DEF TakeTask
  <2>2. UNCHANGED <<toWorker, localTasks, ended, waiting, failed>>
        /\ doing' \in [Workers -> {NoTask} \cup Pairs]
    BY <1>0, <1>4, <2>1 DEF TakeTask
  <2>3. Waits2
    BY <2>2 DEF TypeOK, Ids
  <2> QED BY <1>0, <1>1, <2>1, <2>2, <2>3 DEF TypeOK, Pairs
<1>5. ASSUME NEW w \in Workers, FinishTask(w) PROVE TypeOK'
  <2>1. doing[w] \in Pairs /\ Source(w) \in Interpreters /\ Source(w) = doing[w][1]
    BY <1>0, <1>5 DEF FinishTask, Source, Pairs
  <2>2. <<doing[w][2], ResultOf(doing[w][1], doing[w][2])>> \in Replies
    BY <2>1 DEF ResultOf, Replies, Pairs
  <2>3. toWorker' \in [Interpreters -> Seq(Replies)]
    BY <1>0, <1>5, <2>1, <2>2, AppendProperties DEF FinishTask
  <2>4. UNCHANGED <<taskQueue, localTasks, ended, waiting, failed>>
        /\ doing' \in [Workers -> {NoTask} \cup Pairs]
    BY <1>0, <1>5 DEF FinishTask
  <2>5. Waits2
    BY <2>4 DEF TypeOK, Ids
  <2> QED BY <1>0, <1>1, <2>3, <2>4, <2>5 DEF TypeOK, Pairs
<1>6. ASSUME NEW i \in Interpreters, PollIncoming(i) PROVE TypeOK'
  <2>1. toWorker' \in [Interpreters -> Seq(Replies)]
    BY <1>0, <1>6, HeadTailProperties DEF PollIncoming
  <2>2. localTasks' \in [Interpreters -> Seq(TaskRecord)]
        /\ \A j \in Interpreters : Ids(j)' = Ids(j)
    BY <1>6, PollFacts
  <2>3. UNCHANGED <<taskQueue, doing, ended, waiting, failed>>
    BY <1>6 DEF PollIncoming
  <2>4. Waits2
    BY <2>2, <2>3 DEF TypeOK
  <2> QED BY <1>0, <1>1, <2>1, <2>2, <2>3, <2>4 DEF TypeOK, Pairs
<1>7. ASSUME NEW i \in Interpreters, WaitReturns(i) PROVE TypeOK'
  <2>1. UNCHANGED <<taskQueue, toWorker, localTasks, doing, ended, failed>>
        /\ waiting' = [waiting EXCEPT ![i] = NoWait]
    BY <1>7 DEF WaitReturns
  <2> QED BY <2>1 DEF TypeOK, Ids
<1>8. ASSUME NEW i \in Interpreters, NEW T \in SUBSET Ids(i),
             NEW n \in 1 .. Cardinality(T), WaitTasks(i, T, n)
      PROVE  TypeOK'
  <2>1. IsFiniteSet(Ids(i)) /\ Ids(i) \subseteq Nat
    BY IdsAre, FS_Interval
  <2>2. Cardinality(T) \in Nat
    BY <2>1, FS_Subset, FS_CardinalityType
  <2>3. T \in SUBSET Nat /\ n \in Nat
    BY <2>1, <2>2
  <2>4. UNCHANGED <<taskQueue, toWorker, localTasks, doing, ended, failed>>
        /\ waiting' = [waiting EXCEPT ![i] = <<T, n>>]
    BY <1>8 DEF WaitTasks
  <2>5. waiting' \in [Interpreters -> {NoWait} \cup ((SUBSET Nat) \X Nat)]
    BY <2>3, <2>4 DEF TypeOK
  <2>6. Waits2
    BY <2>4 DEF TypeOK, Ids
  <2> QED BY <1>0, <1>1, <2>4, <2>5, <2>6 DEF TypeOK, Pairs
<1>9. ASSUME NEW i \in Interpreters, NEW id \in Ids(i), StartTask(i, id) PROVE TypeOK'
  BY <1>3, <1>9 DEF StartTask, Busy
<1>10. ASSUME NEW w \in Workers, FailTask(w) PROVE TypeOK'
  BY <1>0, <1>3, <1>10 DEF FailTask
<1> HIDE DEF Waits2
<1> QED BY <1>2, <1>4, <1>5, <1>6, <1>7, <1>8, <1>9, <1>10 DEF Next

LEMMA Append1 ==
  ASSUME NEW S, NEW s \in Seq(S), NEW x \in S
  PROVE  \A k \in DOMAIN Append(s, x) :
           IF k \in DOMAIN s THEN Append(s, x)[k] = s[k] ELSE Append(s, x)[k] = x
<1>1. DOMAIN s = 1 .. Len(s) /\ DOMAIN Append(s, x) = 1 .. Len(s) + 1 /\ Len(s) \in Nat
  BY AppendProperties
<1> QED BY <1>1, AppendProperties

LEMMA Tail1 ==
  ASSUME NEW S, NEW s \in Seq(S), s # <<>>
  PROVE  /\ Head(s) \in S /\ 1 \in DOMAIN s /\ Head(s) = s[1]
         /\ \A k \in DOMAIN Tail(s) : k + 1 \in DOMAIN s /\ Tail(s)[k] = s[k + 1]
<1>1. DOMAIN s = 1 .. Len(s) /\ Len(s) \in Nat \ {0}
      /\ DOMAIN Tail(s) = 1 .. Len(s) - 1
  BY HeadTailProperties, EmptySeq
<1> QED BY <1>1, HeadTailProperties, ElementOfSeq

\* Nothing that is on its way is disturbed when interpreters get more tasks.
LEMMA KnownKept ==
  ASSUME TypeOK, Known, UNCHANGED <<toWorker, doing, failed>>,
         \A i \in Interpreters : DOMAIN localTasks[i] \subseteq DOMAIN localTasks'[i],
         \A k \in DOMAIN taskQueue' :
           \/ taskQueue[k] = taskQueue'[k] /\ k \in DOMAIN taskQueue
           \/ taskQueue'[k][2] \in DOMAIN localTasks'[taskQueue'[k][1]]
  PROVE  Known'
<1>1. \A k \in DOMAIN taskQueue : taskQueue[k] \in Pairs
  BY ElementOfSeq DEF TypeOK, Pairs
<1>2. /\ \A w \in Workers : doing[w] # NoTask => doing[w] \in Pairs
      /\ \A x \in failed : x \in Pairs
  BY DEF TypeOK, Pairs
<1>3. \A x \in Pairs : x[2] \in DOMAIN localTasks[x[1]] => x[2] \in DOMAIN localTasks'[x[1]]
  BY DEF Pairs
<1>4. ASSUME NEW k \in DOMAIN taskQueue'
      PROVE  taskQueue'[k][2] \in DOMAIN localTasks'[taskQueue'[k][1]]
  <2>1. CASE taskQueue[k] = taskQueue'[k] /\ k \in DOMAIN taskQueue
    <3>1. PICK x \in Pairs : x = taskQueue[k]
      BY <1>1, <2>1
    <3>2. x[2] \in DOMAIN localTasks[x[1]]
      BY <2>1, <3>1 DEF Known, Ids
    <3> QED BY <1>3, <2>1, <3>1, <3>2
  <2> QED BY <1>4, <2>1
<1>5. \A w \in Workers : doing[w] # NoTask => doing[w][2] \in DOMAIN localTasks'[doing[w][1]]
  BY <1>2, <1>3 DEF Known, Ids
<1>6. \A x \in failed : x[2] \in DOMAIN localTasks'[x[1]]
  BY <1>2, <1>3 DEF Known, Ids
<1>7. \A i \in Interpreters : \A k \in DOMAIN toWorker[i] :
        /\ toWorker[i][k][1] \in DOMAIN localTasks'[i]
        /\ toWorker[i][k][2] = ResultOf(i, toWorker[i][k][1])
  BY DEF Known, Ids
<1> QED BY <1>4, <1>5, <1>6, <1>7 DEF Known, Ids

LEMMA KnownNext ==
  ASSUME TypeOK, Known, Next
  PROVE  Known'
<1>0. /\ taskQueue \in Seq(Pairs) /\ toWorker \in [Interpreters -> Seq(Replies)]
      /\ doing \in [Workers -> {NoTask} \cup Pairs] /\ failed \in SUBSET Pairs
      /\ Workers \subseteq Interpreters
  BY DEF TypeOK, Pairs, Replies, Interpreters
<1>1. ASSUME NEW i \in Interpreters, RunTask(i) \/ CreateTask(i) PROVE Known'
  <2> DEFINE n == Len(localTasks[i]) + 1
  <2>1. PICK s \in BOOLEAN : localTasks' = [localTasks EXCEPT ![i] = Append(@, NewTask(s))]
    BY <1>1 DEF RunTask, CreateTask
  <2>2. /\ n \in Nat /\ n \in DOMAIN localTasks'[i]
        /\ \A j \in Interpreters : DOMAIN localTasks[j] \subseteq DOMAIN localTasks'[j]
    BY <2>1, AddFacts DEF Ids
  <2>3. <<i, n>> \in Pairs
    BY <2>2 DEF Pairs
  <2>4. UNCHANGED <<toWorker, doing, failed>>
        /\ (taskQueue' = taskQueue \/ taskQueue' = Append(taskQueue, <<i, n>>))
    BY <1>1 DEF RunTask, CreateTask
  <2> HIDE DEF n
  <2>5. ASSUME NEW k \in DOMAIN taskQueue'
        PROVE  \/ taskQueue[k] = taskQueue'[k] /\ k \in DOMAIN taskQueue
               \/ taskQueue'[k][2] \in DOMAIN localTasks'[taskQueue'[k][1]]
    <3>1. CASE taskQueue' = taskQueue
      BY <2>5, <3>1
    <3>2. CASE taskQueue' = Append(taskQueue, <<i, n>>)
      <4>1. \/ k \in DOMAIN taskQueue /\ taskQueue'[k] = taskQueue[k]
            \/ taskQueue'[k] = <<i, n>>
        BY <1>0, <2>3, <2>5, <3>2, Append1
      <4> QED BY <2>2, <4>1
    <3> QED BY <2>4, <3>1, <3>2
  <2> QED BY <2>2, <2>4, <2>5, KnownKept
<1>2. ASSUME NEW i \in Interpreters, Error(i), i # Main => doing[i] # NoTask
      PROVE  Known'
  <2>1. CASE i = Main
    <3>1. UNCHANGED <<doing, failed, taskQueue, toWorker, localTasks>>
      BY <1>2, <2>1 DEF Error
    <3> QED BY <3>1 DEF Known, Ids
  <2>2. CASE i # Main
    <3>1. i \in Workers
      BY <2>2 DEF Interpreters
    <3>2. /\ failed' = failed \cup {doing[i]} /\ doing' = [doing EXCEPT ![i] = NoTask]
          /\ UNCHANGED <<taskQueue, toWorker, localTasks>>
      BY <1>2, <2>2 DEF Error
    <3>3. \A w \in Workers : doing'[w] # NoTask => doing'[w] = doing[w]
      BY <1>0, <3>1, <3>2
    <3>4. doing[i][2] \in Ids(doing[i][1])
      BY <1>2, <2>2, <3>1 DEF Known
    <3>5. \A x \in failed' : x[2] \in Ids(x[1])
      BY <3>2, <3>4 DEF Known
    <3> QED BY <3>2, <3>3, <3>5 DEF Known, Ids
  <2> QED BY <2>1, <2>2
<1>3. ASSUME NEW w \in Workers, TakeTask(w) PROVE Known'
  <2>1. UNCHANGED <<toWorker, localTasks, failed>> /\ taskQueue # <<>>
        /\ taskQueue' = Tail(taskQueue) /\ doing' = [doing EXCEPT ![w] = Head(taskQueue)]
    BY <1>3 DEF TakeTask
  <2>2. \A k \in DOMAIN taskQueue' : taskQueue'[k][2] \in Ids(taskQueue'[k][1])
    BY <1>0, <2>1, Tail1 DEF Known
  <2>3. Head(taskQueue)[2] \in Ids(Head(taskQueue)[1])
    BY <1>0, <2>1, Tail1 DEF Known
  <2>4. \A v \in Workers : doing'[v] # NoTask => doing'[v][2] \in Ids(doing'[v][1])
    BY <1>0, <2>1, <2>3 DEF Known
  <2> QED BY <2>1, <2>2, <2>4 DEF Known, Ids
<1>4. ASSUME NEW w \in Workers, FinishTask(w) PROVE Known'
  <2>1. PICK x \in Pairs : doing[w] = x
    BY <1>0, <1>4 DEF FinishTask
  <2>2. x[1] \in Interpreters /\ x[2] \in Ids(x[1]) /\ x[2] \in Nat
    BY <1>4, <2>1 DEF FinishTask, Known, Pairs
  <2>3. PICK m : m = <<x[2], ResultOf(x[1], x[2])>>
    OBVIOUS
  <2>4. m \in Replies /\ m[1] = x[2] /\ m[2] = ResultOf(x[1], x[2])
    BY <2>2, <2>3 DEF ResultOf, Replies, Pairs
  <2>5. /\ UNCHANGED <<taskQueue, localTasks, failed>>
        /\ doing' = [doing EXCEPT ![w] = NoTask]
        /\ toWorker' = [toWorker EXCEPT ![x[1]] = Append(@, m)]
    BY <1>4, <2>1, <2>3 DEF FinishTask, Source
  <2>6. ASSUME NEW i \in Interpreters, NEW k \in DOMAIN toWorker'[i]
        PROVE  /\ toWorker'[i][k][1] \in Ids(i)
               /\ toWorker'[i][k][2] = ResultOf(i, toWorker'[i][k][1])
    <3>1. CASE i = x[1]
      <4>1. toWorker'[i] = Append(toWorker[i], m)
        BY <1>0, <2>5, <3>1
      <4>2. CASE k \in DOMAIN toWorker[i]
        <5>1. toWorker'[i][k] = toWorker[i][k]
          BY <1>0, <2>4, <4>1, <4>2, Append1
        <5> QED BY <4>2, <5>1 DEF Known
      <4>3. CASE k \notin DOMAIN toWorker[i]
        <5>1. toWorker'[i][k] = m
          BY <1>0, <2>4, <2>6, <4>1, <4>3, Append1
        <5> QED BY <2>2, <2>4, <3>1, <5>1
      <4> QED BY <4>2, <4>3
    <3>2. CASE i # x[1]
      BY <1>0, <2>5, <3>2 DEF Known
    <3> QED BY <3>1, <3>2
  <2>7. \A v \in Workers : doing'[v] # NoTask => doing'[v] = doing[v]
    BY <1>0, <2>5
  <2> QED BY <2>5, <2>6, <2>7 DEF Known, Ids
<1>5. ASSUME NEW i \in Interpreters, PollIncoming(i) PROVE Known'
  <2>1. UNCHANGED <<taskQueue, doing, failed>> /\ toWorker[i] # <<>>
        /\ toWorker' = [toWorker EXCEPT ![i] = Tail(@)]
    BY <1>5 DEF PollIncoming
  <2>2. \A j \in Interpreters : Ids(j)' = Ids(j)
    BY <1>5, PollFacts
  <2>3. ASSUME NEW j \in Interpreters, NEW k \in DOMAIN toWorker'[j]
        PROVE  /\ toWorker'[j][k][1] \in Ids(j)
               /\ toWorker'[j][k][2] = ResultOf(j, toWorker'[j][k][1])
    <3>1. \E l \in DOMAIN toWorker[j] : toWorker'[j][k] = toWorker[j][l]
      BY <1>0, <2>1, <2>3, Tail1
    <3> QED BY <3>1 DEF Known
  <2>4. \A x \in Pairs : Ids(x[1])' = Ids(x[1])
    BY <2>2 DEF Pairs
  <2>5. /\ \A k \in DOMAIN taskQueue : taskQueue[k] \in Pairs
        /\ \A w \in Workers : doing[w] # NoTask => doing[w] \in Pairs
        /\ \A x \in failed : x \in Pairs
    BY <1>0, ElementOfSeq
  <2> QED BY <2>1, <2>2, <2>3, <2>4, <2>5 DEF Known
<1>6. ASSUME UNCHANGED <<taskQueue, toWorker, localTasks, doing, failed>> PROVE Known'
  BY <1>6 DEF Known, Ids
<1>7. ASSUME NEW w \in Workers, FailTask(w) PROVE Known'
  BY <1>0, <1>2, <1>7 DEF FailTask
<1>8. ASSUME NEW i \in Interpreters, NEW id \in Ids(i), StartTask(i, id) PROVE Known'
  BY <1>2, <1>8 DEF StartTask, Busy
<1> QED BY <1>1, <1>3, <1>4, <1>5, <1>6, <1>7, <1>8 DEF Next, WaitReturns, WaitTasks

LEMMA ResultsNext ==
  ASSUME TypeOK, Known, Results, Next
  PROVE  Results'
<1>1. ASSUME NEW i \in Interpreters, RunTask(i) \/ CreateTask(i) PROVE Results'
  <2>1. PICK s \in BOOLEAN : localTasks' = [localTasks EXCEPT ![i] = Append(@, NewTask(s))]
    BY <1>1 DEF RunTask, CreateTask
  <2>2. PICK n : n = Len(localTasks[i]) + 1
    OBVIOUS
  <2>3. /\ Ids(i)' = Ids(i) \cup {n} /\ localTasks'[i][n] = NewTask(s)
        /\ \A id \in Ids(i) : localTasks'[i][id] = localTasks[i][id]
        /\ \A j \in Interpreters : j # i => localTasks'[j] = localTasks[j]
    BY <2>1, <2>2, AddFacts
  <2>4. NewTask(s).done = FALSE /\ NewTask(s).result = NoResult
    BY DEF NewTask
  <2>5. ASSUME NEW j \in Interpreters, NEW id \in DOMAIN localTasks'[j]
        PROVE  localTasks'[j][id].result =
                 IF localTasks'[j][id].done THEN ResultOf(j, id) ELSE NoResult
    <3>1. CASE j = i /\ id = n
      BY <2>3, <2>4, <3>1
    <3>2. CASE ~(j = i /\ id = n)
      <4>1. id \in Ids(j) /\ localTasks'[j][id] = localTasks[j][id]
        BY <2>3, <2>5, <3>2 DEF Ids
      <4> QED BY <4>1 DEF Results
    <3> QED BY <3>1, <3>2
  <2> QED BY <2>5 DEF Results, Ids
<1>2. ASSUME NEW i \in Interpreters, PollIncoming(i) PROVE Results'
  <2>1. PICK r : r = RemoteId(i)
    OBVIOUS
  <2>2. /\ \A j \in Interpreters : DOMAIN localTasks'[j] = Ids(j)
        /\ \A j \in Interpreters : \A id \in Ids(j) :
             IF j = i /\ id = r
               THEN /\ localTasks'[j][id].done = TRUE
                    /\ localTasks'[j][id].result = ResultOf(i, r)
               ELSE localTasks'[j][id] = localTasks[j][id]
    BY <1>2, <2>1, PollFacts DEF Ids
  <2> QED BY <2>2 DEF Results, Ids
<1>3. ASSUME UNCHANGED localTasks PROVE Results'
  BY <1>3 DEF Results, Ids
<1> QED BY <1>1, <1>2, <1>3
        DEF Next, TakeTask, FinishTask, FailTask, StartTask, Error, WaitReturns, WaitTasks

-----------------------------------------------------------------------------
\* The sum of the places, and how it is made up, in a state and in the next.
SumIs(i, id) ==
  /\ Places(i, id) =
       InQueue(<<i, id>>) + Cardinality(Doers(<<i, id>>)) + Received(i, id)
         + Lost(<<i, id>>) + Done(i, id)
  /\ InQueue(<<i, id>>) \in Nat
  /\ Cardinality(Doers(<<i, id>>)) \in Nat
  /\ Received(i, id) \in Nat
  /\ Lost(<<i, id>>) \in Nat /\ Done(i, id) \in Nat

SumsAre == \A i \in Interpreters, id \in Nat : SumIs(i, id)

LEMMA Sums == TypeOK => SumsAre
<1> SUFFICES ASSUME TypeOK, NEW i \in Interpreters, NEW id \in Nat
             PROVE  SumIs(i, id)
  BY DEF SumsAre
<1>1. Lost(<<i, id>>) \in Nat /\ Done(i, id) \in Nat
  BY DEF Lost, Done
<1>2. /\ InQueue(<<i, id>>) \in Nat
      /\ Cardinality(Doers(<<i, id>>)) \in Nat
      /\ Received(i, id) \in Nat
  BY CountsAre
<1>3. Places(i, id) =
       InQueue(<<i, id>>) + Cardinality(Doers(<<i, id>>)) + Received(i, id)
         + Lost(<<i, id>>) + Done(i, id)
  BY PlacesAre
<1> QED BY <1>1, <1>2, <1>3 DEF SumIs

LEMMA SumsNext == TypeOK' => SumsAre'
<1>1. TypeOK => SumsAre
  BY Sums
<1> QED BY <1>1, PTL

LEMMA OneKept ==
  ASSUME TypeOK, TypeOK', OnePlace, NEW j \in Interpreters, NEW id \in Ids(j),
         localTasks'[j][id].started = localTasks[j][id].started,
         InQueue(<<j, id>>)' + Cardinality(Doers(<<j, id>>))' + Received(j, id)'
             + Lost(<<j, id>>)' + Done(j, id)'
           = InQueue(<<j, id>>) + Cardinality(Doers(<<j, id>>)) + Received(j, id)
               + Lost(<<j, id>>) + Done(j, id)
  PROVE  Places(j, id)' = IF localTasks'[j][id].started THEN 1 ELSE 0
<1>1. id \in Nat
  BY IdsAre
<1>2. SumIs(j, id) /\ SumIs(j, id)'
  BY <1>1, Sums, SumsNext DEF SumsAre
<1>3. Places(j, id) = IF localTasks[j][id].started THEN 1 ELSE 0
  BY DEF OnePlace
<1>4. Places(j, id)' = Places(j, id)
  BY <1>2, Zenon DEF SumIs
<1> QED BY <1>3, <1>4

LEMMA InAPlace ==
  ASSUME TypeOK, OnePlace, NEW j \in Interpreters, NEW id \in Ids(j)
  PROVE  /\ InQueue(<<j, id>>) + Cardinality(Doers(<<j, id>>)) + Received(j, id)
              + Lost(<<j, id>>) + Done(j, id)
              = IF localTasks[j][id].started THEN 1 ELSE 0
         /\ id \in Nat
         /\ InQueue(<<j, id>>) \in Nat
         /\ Cardinality(Doers(<<j, id>>)) \in Nat
         /\ Received(j, id) \in Nat
         /\ Lost(<<j, id>>) \in Nat /\ Done(j, id) \in Nat
<1>1. id \in Nat
  BY IdsAre
<1>2. SumIs(j, id)
  BY <1>1, Sums DEF SumsAre
<1>3. Places(j, id) = IF localTasks[j][id].started THEN 1 ELSE 0
  BY DEF OnePlace
<1> QED BY <1>1, <1>2, <1>3 DEF SumIs

\* A task that a worker executes is nowhere else, and so is one whose result is
\* on its way.
LEMMA DoingOnly ==
  ASSUME TypeOK, OnePlace, NEW j \in Interpreters, NEW id \in Ids(j),
         NEW w \in Workers, doing[w] = <<j, id>>
  PROVE  /\ localTasks[j][id].started /\ ~localTasks[j][id].done
         /\ <<j, id>> \notin failed
         /\ \A k \in DOMAIN toWorker[j] : toWorker[j][k][1] # id
         /\ \A v \in Workers : doing[v] = <<j, id>> => v = w
<1>1. id \in Nat
  BY IdsAre
<1>2. Cardinality(Doers(<<j, id>>)) # 0
  BY <1>1, CountsAre
<1>3. /\ localTasks[j][id].started /\ Received(j, id) = 0
      /\ Lost(<<j, id>>) = 0 /\ Done(j, id) = 0
      /\ Cardinality(Doers(<<j, id>>)) = 1
  BY <1>2, InAPlace
<1>4. ~localTasks[j][id].done /\ <<j, id>> \notin failed
  BY <1>3 DEF Lost, Done
<1>5. \A k \in DOMAIN toWorker[j] : toWorker[j][k][1] # id
  BY <1>1, <1>3, CountsAre
<1>6. \E v : Doers(<<j, id>>) = {v}
  <2>1. IsFiniteSet(Doers(<<j, id>>))
    BY FS_Subset DEF Doers, Executing
  <2> QED BY <1>3, <2>1, FS_Singleton
<1> QED BY <1>3, <1>4, <1>5, <1>6 DEF Doers, Executing

LEMMA ReceivedOnly ==
  ASSUME TypeOK, OnePlace, NEW j \in Interpreters, NEW id \in Ids(j),
         NEW k \in DOMAIN toWorker[j], toWorker[j][k][1] = id
  PROVE  /\ localTasks[j][id].started /\ ~localTasks[j][id].done
         /\ <<j, id>> \notin failed
         /\ Received(j, id) = 1
<1>1. id \in Nat
  BY IdsAre
<1>2. Received(j, id) # 0
  BY <1>1, CountsAre
<1>3. /\ localTasks[j][id].started /\ Received(j, id) = 1
      /\ Lost(<<j, id>>) = 0 /\ Done(j, id) = 0
  BY <1>2, InAPlace
<1> QED BY <1>3 DEF Lost, Done

\* The parts that a step leaves alone.
LEMMA SameParts ==
  ASSUME NEW j, NEW id
  PROVE  /\ UNCHANGED taskQueue => InQueue(<<j, id>>)' = InQueue(<<j, id>>)
         /\ UNCHANGED doing => Cardinality(Doers(<<j, id>>))' = Cardinality(Doers(<<j, id>>))
         /\ toWorker'[j] = toWorker[j] => Received(j, id)' = Received(j, id)
         /\ UNCHANGED failed => Lost(<<j, id>>)' = Lost(<<j, id>>)
         /\ localTasks'[j][id] = localTasks[j][id] => Done(j, id)' = Done(j, id)
BY DEF InQueue, Doers, Received, Lost, Done

\* A task that does not exist is nowhere.
LEMMA NewTaskNowhere ==
  ASSUME TypeOK, Known, NEW i \in Interpreters, NEW n \in Nat, n \notin Ids(i)
  PROVE  /\ InQueue(<<i, n>>) = 0 /\ Cardinality(Doers(<<i, n>>)) = 0
         /\ Received(i, n) = 0 /\ Lost(<<i, n>>) = 0
<1>1. \A k \in DOMAIN taskQueue : taskQueue[k] # <<i, n>>
  BY DEF Known
<1>2. \A w \in Workers : doing[w] # <<i, n>>
  BY DEF Known, NoTask
<1>3. \A k \in DOMAIN toWorker[i] : toWorker[i][k][1] # n
  BY DEF Known
<1>4. <<i, n>> \notin failed
  BY DEF Known
<1> QED BY <1>1, <1>2, <1>3, <1>4, CountsAre DEF Lost

LEMMA OnePlaceAdd ==
  ASSUME TypeOK, TypeOK', Known, OnePlace, NEW i \in Interpreters,
         RunTask(i) \/ CreateTask(i)
  PROVE  OnePlace'
<1>1. PICK n : n = Len(localTasks[i]) + 1
  OBVIOUS
<1>2. PICK s \in BOOLEAN :
        /\ localTasks' = [localTasks EXCEPT ![i] = Append(@, NewTask(s))]
        /\ IF s THEN taskQueue' = Append(taskQueue, <<i, n>>) ELSE UNCHANGED taskQueue
  BY <1>1 DEF RunTask, CreateTask
<1>3. UNCHANGED <<toWorker, doing, failed>>
  BY DEF RunTask, CreateTask
<1>4. /\ n \in Nat /\ n \notin Ids(i) /\ Ids(i)' = Ids(i) \cup {n}
      /\ localTasks'[i][n] = NewTask(s)
      /\ \A id \in Ids(i) : localTasks'[i][id] = localTasks[i][id]
      /\ \A j \in Interpreters : j # i => localTasks'[j] = localTasks[j]
  BY <1>1, <1>2, AddFacts
<1>5. ASSUME NEW x
      PROVE  InQueue(x)' = InQueue(x) + (IF s /\ x = <<i, n>> THEN 1 ELSE 0)
  <2>1. taskQueue \in Seq(Pairs) /\ <<i, n>> \in Pairs
    BY <1>4 DEF TypeOK, Pairs
  <2>2. Count({x}, taskQueue) \in Nat
    BY <2>1, CountNat
  <2>3. CASE s
    <3>1. Count({x}, Append(taskQueue, <<i, n>>))
            = Count({x}, taskQueue) + (IF <<i, n>> \in {x} THEN 1 ELSE 0)
      BY <2>1, CountAppend
    <3> QED BY <1>2, <2>3, <3>1 DEF InQueue
  <2>4. CASE ~s
    BY <1>2, <2>2, <2>4 DEF InQueue
  <2> QED BY <2>3, <2>4
<1>6. ASSUME NEW j \in Interpreters, NEW id \in Ids(j)
      PROVE  Places(j, id)' = IF localTasks'[j][id].started THEN 1 ELSE 0
  <2>1. <<j, id>> # <<i, n>> /\ localTasks'[j][id] = localTasks[j][id]
    BY <1>4
  <2>2. InQueue(<<j, id>>) \in Nat
    BY InAPlace
  <2>3. InQueue(<<j, id>>)' = InQueue(<<j, id>>)
    BY <1>5, <2>1, <2>2
  <2>4. /\ Cardinality(Doers(<<j, id>>))' = Cardinality(Doers(<<j, id>>))
        /\ Received(j, id)' = Received(j, id)
        /\ Lost(<<j, id>>)' = Lost(<<j, id>>)
        /\ Done(j, id)' = Done(j, id)
    BY <1>3, <2>1, SameParts
  <2> QED BY <2>1, <2>3, <2>4, OneKept
<1>7. Places(i, n)' = IF localTasks'[i][n].started THEN 1 ELSE 0
  <2>1. /\ InQueue(<<i, n>>) = 0 /\ Cardinality(Doers(<<i, n>>)) = 0
        /\ Received(i, n) = 0 /\ Lost(<<i, n>>) = 0
    BY <1>4, NewTaskNowhere
  <2>2. /\ Cardinality(Doers(<<i, n>>))' = 0 /\ Received(i, n)' = 0
        /\ Lost(<<i, n>>)' = 0
    BY <1>3, <2>1, SameParts
  <2>3. InQueue(<<i, n>>)' = IF s THEN 1 ELSE 0
    BY <1>5, <2>1
  <2>4. Done(i, n)' = 0 /\ localTasks'[i][n].started = s
    BY <1>4 DEF Done, NewTask
  <2>5. SumIs(i, n)'
    BY <1>4, SumsNext DEF SumsAre
  <2> QED BY <2>2, <2>3, <2>4, <2>5 DEF SumIs
<1>8. ASSUME NEW j \in Interpreters, NEW id \in DOMAIN localTasks'[j]
      PROVE  Places(j, id)' = IF localTasks'[j][id].started THEN 1 ELSE 0
  <2>1. id \in Ids(j) \/ (j = i /\ id = n)
    BY <1>4, <1>8 DEF Ids
  <2> QED BY <1>6, <1>7, <2>1
<1> QED BY <1>8 DEF OnePlace, Ids

LEMMA OnePlaceMove ==
  ASSUME OnePlace, UNCHANGED localTasks,
         \A j \in Interpreters : \A id \in Ids(j) : 
           Places(j, id)' = IF localTasks'[j][id].started THEN 1 ELSE 0
  PROVE  OnePlace'
BY DEF OnePlace, Ids

LEMMA OnePlaceTake ==
  ASSUME TypeOK, TypeOK', OnePlace, NEW w \in Workers, TakeTask(w)
  PROVE  OnePlace'
<1>1. /\ taskQueue \in Seq(Pairs) /\ doing \in [Workers -> {NoTask} \cup Pairs]
      /\ UNCHANGED <<toWorker, localTasks, failed>>
      /\ doing[w] = NoTask /\ taskQueue # <<>>
      /\ doing' = [doing EXCEPT ![w] = Head(taskQueue)]
      /\ taskQueue' = Tail(taskQueue)
  BY DEF TypeOK, Pairs, TakeTask
<1>2. ASSUME NEW j \in Interpreters, NEW id \in Ids(j)
      PROVE  Places(j, id)' = IF localTasks'[j][id].started THEN 1 ELSE 0
  <2>1. PICK x : x = <<j, id>>
    OBVIOUS
  <2>2. PICK h : h = IF Head(taskQueue) = x THEN 1 ELSE 0
    OBVIOUS
  <2>3. InQueue(x) = InQueue(x)' + h
    <3>1. Count({x}, taskQueue) = Count({x}, Tail(taskQueue)) + (IF Head(taskQueue) \in {x} THEN 1 ELSE 0)
      BY <1>1, CountTail
    <3> QED BY <1>1, <2>2, <3>1 DEF InQueue
  <2>4. Cardinality(Doers(x))' = Cardinality(Doers(x)) + h
    <3>1. x # NoTask
      BY <2>1 DEF NoTask
    <3>2. /\ Cardinality(Executing(doing, x)) \in Nat
          /\ Cardinality(Executing(doing', x)) + (IF doing[w] = x THEN 1 ELSE 0)
               = Cardinality(Executing(doing, x)) + (IF Head(taskQueue) = x THEN 1 ELSE 0)
          /\ Cardinality(Executing(doing', x)) \in Nat
      <4>1. Turns(doing, doing', w, Head(taskQueue))
        BY <1>1 DEF Turns
      <4> QED BY <1>1, <3>1, <4>1, DoersChange
    <3> QED BY <1>1, <2>2, <3>1, <3>2 DEF Doers
  <2>5. InQueue(x)' \in Nat
    <3>1. id \in Nat
      BY IdsAre
    <3> QED BY <2>1, <3>1, SumsNext DEF SumsAre, SumIs
  <2>6. Received(j, id)' = Received(j, id) /\ Lost(x)' = Lost(x) /\ Done(j, id)' = Done(j, id)
    BY <1>1, <2>1, SameParts
  <2>7. /\ Cardinality(Doers(x)) \in Nat /\ Received(j, id) \in Nat
        /\ Lost(x) \in Nat /\ Done(j, id) \in Nat /\ h \in {0, 1}
    BY <2>1, <2>2, InAPlace
  <2>8. InQueue(x)' + Cardinality(Doers(x))' + Received(j, id)' + Lost(x)' + Done(j, id)'
          = InQueue(x) + Cardinality(Doers(x)) + Received(j, id) + Lost(x) + Done(j, id)
    BY <2>3, <2>4, <2>5, <2>6, <2>7
  <2> QED BY <1>1, <2>1, <2>8, OneKept
<1> QED BY <1>1, <1>2, OnePlaceMove

\* The number of workers that execute x when worker w stops executing its task.
LEMMA DoersStop ==
  ASSUME TypeOK, NEW w \in Workers, doing' = [doing EXCEPT ![w] = NoTask], NEW x \in Pairs
  PROVE  /\ Cardinality(Doers(x))' \in Nat
         /\ Cardinality(Doers(x)) = Cardinality(Doers(x))' + (IF doing[w] = x THEN 1 ELSE 0)
<1>0. PICK i \in Interpreters, n \in Nat : x = <<i, n>>
  BY DEF Pairs
<1>1. x # NoTask /\ doing \in [Workers -> {NoTask} \cup Pairs]
  BY <1>0 DEF TypeOK, Pairs, NoTask
<1>2. /\ Cardinality(Executing(doing, x)) \in Nat
      /\ Cardinality(Executing(doing', x)) \in Nat
      /\ Cardinality(Executing(doing', x)) + (IF doing[w] = x THEN 1 ELSE 0)
           = Cardinality(Executing(doing, x)) + (IF NoTask = x THEN 1 ELSE 0)
  <2>1. Turns(doing, doing', w, NoTask)
    BY <1>1 DEF Turns
  <2> QED BY <1>1, <2>1, DoersChange
<1> QED BY <1>1, <1>2 DEF Doers

LEMMA OnePlaceFinish ==
  ASSUME TypeOK, TypeOK', Known, OnePlace, NEW w \in Workers, FinishTask(w)
  PROVE  OnePlace'
<1>1. PICK x \in Pairs : doing[w] = x
  BY DEF FinishTask, TypeOK, Pairs
<1>2. PICK m : m = <<x[2], ResultOf(x[1], x[2])>>
  OBVIOUS
<1>3. /\ x[1] \in Interpreters /\ x = <<x[1], x[2]>>
      /\ m \in Replies /\ m[1] = x[2]
  BY <1>2 DEF ResultOf, Replies, Pairs
<1>4. /\ toWorker \in [Interpreters -> Seq(Replies)]
      /\ UNCHANGED <<taskQueue, localTasks, failed>>
      /\ doing' = [doing EXCEPT ![w] = NoTask]
      /\ toWorker' = [toWorker EXCEPT ![x[1]] = Append(@, m)]
  BY <1>1, <1>2 DEF FinishTask, Source, TypeOK, Replies, Pairs
<1>5. ASSUME NEW j \in Interpreters, NEW id \in Ids(j)
      PROVE  Places(j, id)' = IF localTasks'[j][id].started THEN 1 ELSE 0
  <2>1. PICK y, h : y = <<j, id>> /\ h = (IF x = y THEN 1 ELSE 0)
    OBVIOUS
  <2>2. y \in Pairs
    BY <2>1, IdsAre DEF Pairs
  <2>3. Cardinality(Doers(y)) = Cardinality(Doers(y))' + h /\ Cardinality(Doers(y))' \in Nat
    BY <1>1, <1>4, <2>1, <2>2, DoersStop
  <2>4. Received(j, id)' = Received(j, id) + h
    <3>1. Received(j, id) \in Nat
      BY InAPlace
    <3>2. CASE j = x[1]
      <4>1. Count(Messages(id), Append(toWorker[j], m))
              = Count(Messages(id), toWorker[j]) + (IF m \in Messages(id) THEN 1 ELSE 0)
        BY <1>3, <1>4, CountAppend
      <4>2. m \in Messages(id) <=> x = y
        BY <1>3, <2>1, <3>2 DEF Messages
      <4> QED BY <1>4, <2>1, <3>2, <4>1, <4>2 DEF Received
    <3>3. CASE j # x[1]
      <4>1. toWorker'[j] = toWorker[j] /\ h = 0
        BY <1>3, <1>4, <2>1, <3>3
      <4>2. Received(j, id)' = Received(j, id)
        BY <4>1, SameParts
      <4> QED BY <3>1, <4>1, <4>2
    <3> QED BY <3>2, <3>3, Zenon
  <2>5. InQueue(y)' = InQueue(y) /\ Lost(y)' = Lost(y) /\ Done(j, id)' = Done(j, id)
    BY <1>4, <2>1, SameParts
  <2>6. /\ InQueue(y) \in Nat /\ Received(j, id) \in Nat
        /\ Lost(y) \in Nat /\ Done(j, id) \in Nat /\ h \in {0, 1}
    BY <2>1, InAPlace
  <2>7. InQueue(y)' + Cardinality(Doers(y))' + Received(j, id)' + Lost(y)' + Done(j, id)'
          = InQueue(y) + Cardinality(Doers(y)) + Received(j, id) + Lost(y) + Done(j, id)
    BY <2>3, <2>4, <2>5, <2>6
  <2> QED BY <1>4, <2>1, <2>7, OneKept
<1> QED BY <1>4, <1>5, OnePlaceMove

\* The task of a worker that an error ends is lost.
LEMMA OnePlaceError ==
  ASSUME TypeOK, TypeOK', Known, OnePlace, NEW w \in Workers, w # Main,
         Error(w), doing[w] # NoTask
  PROVE  OnePlace'
<1>1. PICK x \in Pairs : doing[w] = x
  BY DEF TypeOK, Pairs
<1>2. /\ UNCHANGED <<taskQueue, toWorker, localTasks>>
      /\ failed' = failed \cup {x} /\ doing' = [doing EXCEPT ![w] = NoTask]
  BY <1>1 DEF Error
<1>3. x[1] \in Interpreters /\ x[2] \in Ids(x[1]) /\ x = <<x[1], x[2]>>
  BY <1>1 DEF Known, Pairs
<1>4. x \notin failed
  BY <1>1, <1>3, DoingOnly
<1>5. ASSUME NEW j \in Interpreters, NEW id \in Ids(j)
      PROVE  Places(j, id)' = IF localTasks'[j][id].started THEN 1 ELSE 0
  <2>1. PICK y, h : y = <<j, id>> /\ h = (IF x = y THEN 1 ELSE 0)
    OBVIOUS
  <2>2. y \in Pairs
    BY <2>1, IdsAre DEF Pairs
  <2>3. Cardinality(Doers(y)) = Cardinality(Doers(y))' + h /\ Cardinality(Doers(y))' \in Nat
    BY <1>1, <1>2, <2>1, <2>2, DoersStop
  <2>4. Lost(y)' = Lost(y) + h
    BY <1>2, <1>4, <2>1 DEF Lost
  <2>5. InQueue(y)' = InQueue(y) /\ Received(j, id)' = Received(j, id) /\ Done(j, id)' = Done(j, id)
    BY <1>2, <2>1, SameParts
  <2>6. /\ InQueue(y) \in Nat /\ Received(j, id) \in Nat
        /\ Lost(y) \in Nat /\ Done(j, id) \in Nat /\ h \in {0, 1}
    BY <2>1, InAPlace
  <2>7. InQueue(y)' + Cardinality(Doers(y))' + Received(j, id)' + Lost(y)' + Done(j, id)'
          = InQueue(y) + Cardinality(Doers(y)) + Received(j, id) + Lost(y) + Done(j, id)
    BY <2>3, <2>4, <2>5, <2>6
  <2> QED BY <1>2, <2>1, <2>7, OneKept
<1> QED BY <1>2, <1>5, OnePlaceMove

LEMMA OnePlacePoll ==
  ASSUME TypeOK, TypeOK', Known, OnePlace, NEW i \in Interpreters, PollIncoming(i)
  PROVE  OnePlace'
<1>1. /\ toWorker \in [Interpreters -> Seq(Replies)] /\ toWorker[i] # <<>>
      /\ UNCHANGED <<taskQueue, doing, failed>>
      /\ toWorker' = [toWorker EXCEPT ![i] = Tail(@)]
  BY DEF PollIncoming, TypeOK, Replies, Pairs
<1>2. PICK r : r = RemoteId(i)
  OBVIOUS
<1>3. /\ r \in Ids(i) /\ Head(toWorker[i]) = <<r, ResultOf(i, r)>>
      /\ \A j \in Interpreters : DOMAIN localTasks'[j] = Ids(j)
      /\ \A j \in Interpreters : \A id \in Ids(j) :
           /\ localTasks'[j][id].started = localTasks[j][id].started
           /\ IF j = i /\ id = r
                THEN localTasks'[j][id].done = TRUE
                ELSE localTasks'[j][id] = localTasks[j][id]
  BY <1>2, PollFacts DEF Ids
<1>4. ~localTasks[i][r].done
  <2>1. Head(toWorker[i]) \in Replies /\ 1 \in DOMAIN toWorker[i] /\ Head(toWorker[i]) = toWorker[i][1]
    BY <1>1, Tail1
  <2>2. toWorker[i][1][1] = r
    BY <1>3, <2>1
  <2> QED BY <1>3, <2>1, <2>2, ReceivedOnly
<1>5. ASSUME NEW j \in Interpreters, NEW id \in Ids(j)
      PROVE  Places(j, id)' = IF localTasks'[j][id].started THEN 1 ELSE 0
  <2>1. PICK y, h : y = <<j, id>> /\ h = (IF j = i /\ id = r THEN 1 ELSE 0)
    OBVIOUS
  <2>2. /\ InQueue(y) \in Nat /\ Cardinality(Doers(y)) \in Nat /\ Received(j, id) \in Nat
        /\ Lost(y) \in Nat /\ Done(j, id) \in Nat /\ h \in {0, 1} /\ id \in Nat
    BY <2>1, InAPlace
  <2>3. Received(j, id) = Received(j, id)' + h /\ Received(j, id)' \in Nat
    <3>1. Received(j, id)' \in Nat
      BY <2>2, SumsNext DEF SumsAre, SumIs
    <3>2. CASE j = i
      <4>1. Count(Messages(id), toWorker[i])
              = Count(Messages(id), Tail(toWorker[i]))
                  + (IF Head(toWorker[i]) \in Messages(id) THEN 1 ELSE 0)
        BY <1>1, CountTail
      <4>2. Head(toWorker[i]) \in Messages(id) <=> id = r
        <5>1. Head(toWorker[i]) \in Replies
          BY <1>1, Tail1
        <5> QED BY <1>3, <5>1 DEF Messages
      <4> QED BY <1>1, <2>1, <3>1, <3>2, <4>1, <4>2 DEF Received
    <3>3. CASE j # i
      <4>1. toWorker'[j] = toWorker[j] /\ h = 0
        BY <1>1, <2>1, <3>3
      <4>2. Received(j, id)' = Received(j, id)
        BY <4>1, SameParts
      <4> QED BY <2>2, <4>1, <4>2
    <3> QED BY <3>2, <3>3, Zenon
  <2>4. Done(j, id)' = Done(j, id) + h
    <3>1. CASE j = i /\ id = r
      BY <1>3, <1>4, <2>1, <3>1 DEF Done
    <3>2. CASE ~(j = i /\ id = r)
      BY <1>3, <2>1, <2>2, <3>2 DEF Done
    <3> QED BY <3>1, <3>2
  <2>5. /\ InQueue(y)' = InQueue(y) /\ Cardinality(Doers(y))' = Cardinality(Doers(y))
        /\ Lost(y)' = Lost(y)
    BY <1>1, <2>1, SameParts
  <2>6. InQueue(y)' + Cardinality(Doers(y))' + Received(j, id)' + Lost(y)' + Done(j, id)'
          = InQueue(y) + Cardinality(Doers(y)) + Received(j, id) + Lost(y) + Done(j, id)
    BY <2>2, <2>3, <2>4, <2>5
  <2> QED BY <1>3, <2>1, <2>6, OneKept
<1> QED BY <1>3, <1>5 DEF OnePlace, Ids

LEMMA OnePlaceSame ==
  ASSUME OnePlace, UNCHANGED <<taskQueue, toWorker, localTasks, doing, failed>>
  PROVE  OnePlace'
<1>1. ASSUME NEW i \in Interpreters, NEW id \in Ids(i)
      PROVE  Places(i, id)' = Places(i, id)
  BY DEF Places, Occurrences
<1> QED BY <1>1 DEF OnePlace, Ids

LEMMA OnePlaceNext ==
  ASSUME TypeOK, TypeOK', Known, OnePlace, Next
  PROVE  OnePlace'
<1>1. ASSUME NEW i \in Interpreters, RunTask(i) \/ CreateTask(i) PROVE OnePlace'
  BY <1>1, OnePlaceAdd
<1>2. ASSUME NEW w \in Workers, TakeTask(w) PROVE OnePlace'
  BY <1>2, OnePlaceTake
<1>3. ASSUME NEW w \in Workers, FinishTask(w) PROVE OnePlace'
  BY <1>3, OnePlaceFinish
<1>4. ASSUME NEW i \in Interpreters, Error(i), i # Main => doing[i] # NoTask PROVE OnePlace'
  <2>1. CASE i = Main
    BY <1>4, <2>1, OnePlaceSame DEF Error
  <2>2. CASE i # Main
    BY <1>4, <2>2, OnePlaceError DEF Interpreters
  <2> QED BY <2>1, <2>2
<1>5. ASSUME NEW w \in Workers, FailTask(w) PROVE OnePlace'
  BY <1>4, <1>5 DEF FailTask, Interpreters
<1>6. ASSUME NEW i \in Interpreters, NEW id \in Ids(i), StartTask(i, id) PROVE OnePlace'
  BY <1>4, <1>6 DEF StartTask, Busy
<1>7. ASSUME NEW i \in Interpreters, PollIncoming(i) PROVE OnePlace'
  BY <1>7, OnePlacePoll
<1>8. ASSUME UNCHANGED <<taskQueue, toWorker, localTasks, doing, failed>> PROVE OnePlace'
  BY <1>8, OnePlaceSame
<1> QED BY <1>1, <1>2, <1>3, <1>5, <1>6, <1>7, <1>8 DEF Next, WaitReturns, WaitTasks

-----------------------------------------------------------------------------
\* The invariant.
LEMMA InvInit == Init => TaskInv
<1> SUFFICES ASSUME Init PROVE TaskInv
  OBVIOUS
<1>1. \A S : <<>> \in Seq(S) /\ DOMAIN <<>> = {}
  BY EmptySeq
<1>2. TypeOK
  BY <1>1 DEF Init, TypeOK
<1>3. \A i \in Interpreters : localTasks[i] = <<>> /\ toWorker[i] = <<>>
  BY DEF Init
<1>4. \A i \in Interpreters : Ids(i) = {}
  BY <1>1, <1>3 DEF Ids
<1>5. Known
  BY <1>1, <1>3 DEF Init, Known
<1> QED BY <1>2, <1>4, <1>5 DEF TaskInv, Results, OnePlace

LEMMA InvNext == TaskInv /\ [Next]_vars => TaskInv'
<1> SUFFICES ASSUME TaskInv, [Next]_vars PROVE TaskInv'
  OBVIOUS
<1>1. CASE Next
  <2>1. TypeOK'
    BY <1>1, TypeNext DEF TaskInv
  <2> QED BY <1>1, <2>1, KnownNext, ResultsNext, OnePlaceNext DEF TaskInv
<1>2. CASE UNCHANGED vars
  <2>1. UNCHANGED <<taskQueue, toWorker, localTasks, doing, ended, waiting, failed>>
    BY <1>2 DEF vars
  <2>2. TypeOK' /\ Known' /\ Results'
    BY <2>1 DEF TaskInv, TypeOK, Known, Results, Ids
  <2> QED BY <2>1, <2>2, OnePlaceSame DEF TaskInv
<1> QED BY <1>1, <1>2

LEMMA Invariant == Spec => []TaskInv
BY InvInit, InvNext, PTL DEF Spec

\* The types of the task system.
THEOREM TypeCorrect == Spec => []TypeOK
<1>1. TaskInv => TypeOK
  BY DEF TaskInv
<1> QED BY <1>1, Invariant, PTL

\* A started task is in exactly one of the queue, a worker, the channel to its
\* interpreter, its result and the lost tasks, whatever fails: runTask(),
\* startWorker() and pollIncoming() of src/threadtasks.lib.
THEOREM OnlyPlace == Spec => []OnePlace
<1>1. TaskInv => OnePlace
  BY DEF TaskInv
<1> QED BY <1>1, Invariant, PTL

-----------------------------------------------------------------------------
\* The state of a task, and what it is made up of.
Answered(i, id) == \E k \in DOMAIN toWorker[i] : toWorker[i][k][1] = id

Plain(i, id) ==
  IF localTasks[i][id].done THEN "done"
  ELSE IF <<i, id>> \in failed THEN "failed"
  ELSE IF Answered(i, id) THEN "executed"
  ELSE IF localTasks[i][id].started THEN "started" ELSE "created"

AllPlain == \A i \in Interpreters : \A id \in Ids(i) : StateOf(i, id) = Plain(i, id)

LEMMA PlainStates == TaskInv => AllPlain
<1> SUFFICES ASSUME TaskInv, NEW i \in Interpreters, NEW id \in Ids(i)
             PROVE  StateOf(i, id) = Plain(i, id)
  BY DEF AllPlain
<1>1. PICK task : task = localTasks[i][id]
  OBVIOUS
<1>2. task.started \in BOOLEAN /\ task.done \in BOOLEAN
  BY <1>1, IdsAre DEF TaskInv, TaskRecord
<1>3. Received(i, id) # 0 <=> Answered(i, id)
  <2>1. id \in Nat
    BY IdsAre DEF TaskInv
  <2>2. Received(i, id) = 0 <=> \A k \in DOMAIN toWorker[i] : toWorker[i][k][1] # id
    BY <2>1, CountsAre DEF TaskInv
  <2> QED BY <2>2 DEF Answered
<1>4. Lost(<<i, id>>) + Received(i, id) + Done(i, id) <= IF task.started THEN 1 ELSE 0
  BY <1>1, InAPlace DEF TaskInv
<1>5. /\ Lost(<<i, id>>) \in Nat /\ Received(i, id) \in Nat /\ Done(i, id) \in Nat
      /\ Lost(<<i, id>>) # 0 <=> <<i, id>> \in failed
      /\ Done(i, id) # 0 <=> task.done
  BY <1>1, InAPlace DEF TaskInv, Lost, Done
<1>6. /\ task.done => task.started /\ <<i, id>> \notin failed /\ ~Answered(i, id)
      /\ <<i, id>> \in failed => task.started /\ ~Answered(i, id)
      /\ Answered(i, id) => task.started
  BY <1>3, <1>4, <1>5
<1> QED BY <1>1, <1>2, <1>6 DEF StateOf, Plain, Answered

LEMMA PlainNext == TaskInv' => AllPlain'
<1>1. TaskInv => AllPlain
  BY PlainStates
<1> QED BY <1>1, PTL

LEMMA SameState ==
  ASSUME TaskInv, TaskInv', NEW i \in Interpreters, NEW id \in Ids(i),
         id \in DOMAIN localTasks'[i],
         localTasks'[i][id].done = localTasks[i][id].done,
         localTasks'[i][id].started = localTasks[i][id].started,
         <<i, id>> \in failed' <=> <<i, id>> \in failed,
         Answered(i, id)' <=> Answered(i, id)
  PROVE  StateOf(i, id)' = StateOf(i, id)
<1>1. StateOf(i, id) = Plain(i, id) /\ StateOf(i, id)' = Plain(i, id)'
  BY PlainStates, PlainNext DEF AllPlain, Ids
<1> QED BY <1>1 DEF Plain

-----------------------------------------------------------------------------
\* How steps look to AbstractTasks.
LEMMA FunctionIsSeq ==
  ASSUME NEW S, NEW n \in Nat, NEW f \in [1 .. n -> S]
  PROVE  f \in Seq(S) /\ Len(f) = n
<1>1. f \in Seq(S)
  BY SeqDef
<1>2. 1 .. Len(f) = 1 .. n /\ Len(f) \in Nat
  BY <1>1, LenProperties
<1> QED BY <1>1, <1>2

LEMMA AppendFunction ==
  ASSUME NEW S, NEW n \in Nat, NEW f \in [1 .. n -> S], NEW x \in S,
         NEW g \in [1 .. n + 1 -> S], g[n + 1] = x, \A k \in 1 .. n : g[k] = f[k]
  PROVE  g = Append(f, x) /\ Len(f) = n
<1>1. f \in Seq(S) /\ Len(f) = n /\ g \in Seq(S) /\ Len(g) = n + 1
  BY FunctionIsSeq
<1>2. PICK h : h = Append(f, x)
  OBVIOUS
<1>3. h \in Seq(S) /\ Len(h) = n + 1 /\ h[n + 1] = x /\ \A k \in 1 .. n : h[k] = f[k]
  BY <1>1, <1>2, AppendProperties
<1>4. \A k \in 1 .. n + 1 : g[k] = h[k]
  BY <1>3
<1> QED BY <1>1, <1>2, <1>3, <1>4, SeqEqual

States(i) == [id \in Ids(i) |-> StateOf(i, id)]
ResultsOf(i) == [id \in Ids(i) |-> localTasks[i][id].result]
AbsStates == [i \in Interpreters |-> States(i)]
AbsResults == [i \in Interpreters |-> ResultsOf(i)]

LEMMA AddMaps ==
  ASSUME TaskInv, TaskInv', NEW i \in Interpreters, RunTask(i) \/ CreateTask(i)
  PROVE  Abs!Add(i, "started") \/ Abs!Add(i, "created")
<1>1. PICK n : n = Len(localTasks[i]) + 1
  OBVIOUS
<1>2. PICK s \in BOOLEAN : localTasks' = [localTasks EXCEPT ![i] = Append(@, NewTask(s))]
  BY <1>1 DEF RunTask, CreateTask
<1>3. UNCHANGED <<toWorker, doing, failed>> /\ Len(localTasks[i]) < MaxTasks(i)
  BY DEF RunTask, CreateTask
<1>4. /\ n \in Nat /\ n \notin Ids(i) /\ DOMAIN localTasks'[i] = Ids(i) \cup {n}
      /\ localTasks'[i][n] = NewTask(s)
      /\ \A id \in Ids(i) : localTasks'[i][id] = localTasks[i][id]
      /\ \A j \in Interpreters : j # i => localTasks'[j] = localTasks[j]
      /\ Len(localTasks[i]) \in Nat /\ Ids(i) = 1 .. Len(localTasks[i])
  BY <1>1, <1>2, AddFacts, IdsAre DEF TaskInv, Ids
<1>5. ASSUME NEW j \in Interpreters, NEW id \in Ids(j)
      PROVE  id \in DOMAIN localTasks'[j] /\ StateOf(j, id)' = StateOf(j, id)
  <2>1. id \in DOMAIN localTasks'[j] /\ localTasks'[j][id] = localTasks[j][id]
    BY <1>4 DEF Ids
  <2>2. Answered(j, id)' <=> Answered(j, id)
    BY <1>3 DEF Answered
  <2> QED BY <1>3, <2>1, <2>2, SameState
<1>6. PICK to : to = IF s THEN "started" ELSE "created"
  OBVIOUS
<1>7. StateOf(i, n)' = to
  <2>1. ~Answered(i, n)' /\ <<i, n>> \notin failed'
    BY <1>3, <1>4 DEF Answered, TaskInv, Known
  <2>2. StateOf(i, n)' = Plain(i, n)'
    BY <1>4, PlainNext DEF AllPlain, Ids
  <2> QED BY <1>4, <1>6, <2>1, <2>2 DEF Plain, NewTask
<1>8. /\ Len(States(i)) = Len(localTasks[i])
      /\ States(i)' = Append(States(i), to)
      /\ ResultsOf(i)' = Append(ResultsOf(i), NoResult)
  <2>1. PICK m : m = Len(localTasks[i])
    OBVIOUS
  <2>2. m \in Nat /\ n = m + 1 /\ Ids(i) = 1 .. m /\ Ids(i)' = 1 .. m + 1
    BY <1>1, <1>4, <2>1 DEF Ids
  <2>3. PICK f, g : f = States(i) /\ g = States(i)'
    OBVIOUS
  <2>4. PICK S : S = {f[k] : k \in 1 .. m} \cup {to}
    OBVIOUS
  <2>5. /\ f \in [1 .. m -> S] /\ g \in [1 .. m + 1 -> S] /\ to \in S
        /\ g[m + 1] = to /\ \A k \in 1 .. m : g[k] = f[k]
    <3>1. f = [k \in 1 .. m |-> StateOf(i, k)]
      BY <2>2, <2>3 DEF States
    <3>2. g = [k \in 1 .. m + 1 |-> StateOf(i, k)']
      BY <2>2, <2>3 DEF States
    <3>3. g[m + 1] = to /\ \A k \in 1 .. m : g[k] = f[k]
      BY <1>5, <1>7, <2>2, <3>1, <3>2
    <3>4. \A k \in 1 .. m + 1 : k \in 1 .. m \/ k = m + 1
      BY <2>2
    <3> QED BY <2>4, <3>1, <3>2, <3>3, <3>4
  <2>6. g = Append(f, to) /\ Len(f) = m
    BY <2>2, <2>5, AppendFunction
  <2>7. PICK p, q : p = ResultsOf(i) /\ q = ResultsOf(i)'
    OBVIOUS
  <2>8. PICK R : R = {p[k] : k \in 1 .. m} \cup {NoResult}
    OBVIOUS
  <2>9. /\ p \in [1 .. m -> R] /\ q \in [1 .. m + 1 -> R] /\ NoResult \in R
        /\ q[m + 1] = NoResult /\ \A k \in 1 .. m : q[k] = p[k]
    <3>1. p = [k \in 1 .. m |-> localTasks[i][k].result]
      BY <2>2, <2>7 DEF ResultsOf
    <3>2. q = [k \in 1 .. m + 1 |-> localTasks'[i][k].result]
      BY <2>2, <2>7 DEF ResultsOf
    <3>3. NewTask(s).result = NoResult
      BY DEF NewTask
    <3>4. q[m + 1] = NoResult /\ \A k \in 1 .. m : q[k] = p[k]
      BY <1>4, <2>2, <3>1, <3>2, <3>3
    <3>5. \A k \in 1 .. m + 1 : k \in 1 .. m \/ k = m + 1
      BY <2>2
    <3>6. NoResult \in R /\ \A k \in 1 .. m : p[k] \in R
      BY <2>8
    <3>7. \A k \in 1 .. m + 1 : q[k] \in R
      BY <3>4, <3>5, <3>6
    <3>8. p \in [1 .. m -> R]
      BY <3>1, <3>6
    <3>9. q \in [1 .. m + 1 -> R]
      BY <3>2, <3>7
    <3> QED BY <3>4, <3>6, <3>8, <3>9
  <2>10. q = Append(p, NoResult)
    BY <2>2, <2>9, AppendFunction
  <2> QED BY <2>1, <2>3, <2>6, <2>7, <2>10
<1>9. ASSUME NEW j \in Interpreters, j # i
      PROVE  States(j)' = States(j) /\ ResultsOf(j)' = ResultsOf(j)
  <2>1. Ids(j)' = Ids(j) /\ localTasks'[j] = localTasks[j]
    BY <1>4, <1>9 DEF Ids
  <2> QED BY <1>5, <2>1 DEF States, ResultsOf
<1>10. /\ AbsStates' = [AbsStates EXCEPT ![i] = Append(@, to)]
       /\ AbsResults' = [AbsResults EXCEPT ![i] = Append(@, NoResult)]
       /\ Len(AbsStates[i]) < MaxTasks(i)
  BY <1>3, <1>8, <1>9 DEF AbsStates, AbsResults
<1>11. Abs!Add(i, to)
  BY <1>10 DEF Abs!Add, AbsStates, AbsResults, States, ResultsOf, Abs!NoResult, NoResult
<1> QED BY <1>6, <1>11

\* One task gets on, everything else stays.
LEMMA MoveMaps ==
  ASSUME NEW i \in Interpreters, NEW n \in Ids(i), NEW to,
         \A j \in Interpreters : DOMAIN localTasks'[j] = Ids(j),
         StateOf(i, n)' = to,
         \A j \in Interpreters : \A id \in Ids(j) :
           ~(j = i /\ id = n) => StateOf(j, id)' = StateOf(j, id)
  PROVE  /\ n \in DOMAIN AbsStates[i] /\ AbsStates[i][n] = StateOf(i, n)
         /\ AbsStates' = [AbsStates EXCEPT ![i][n] = to]
<1>1. \A j \in Interpreters : Ids(j)' = Ids(j)
  BY DEF Ids
<1>2. \A j \in Interpreters : j # i => States(j)' = States(j)
  BY <1>1 DEF States
<1>3. States(i)' = [States(i) EXCEPT ![n] = to]
  BY <1>1 DEF States
<1>4. n \in DOMAIN States(i) /\ States(i)[n] = StateOf(i, n)
  BY DEF States
<1>5. AbsStates[i] = States(i)
  BY DEF AbsStates
<1>6. AbsStates' = [AbsStates EXCEPT ![i] = [States(i) EXCEPT ![n] = to]]
  BY <1>2, <1>3 DEF AbsStates
<1> QED BY <1>4, <1>5, <1>6, Zenon

LEMMA SameResults ==
  ASSUME UNCHANGED localTasks
  PROVE  UNCHANGED AbsResults
BY DEF AbsResults, ResultsOf, Ids

LEMMA FinishMaps ==
  ASSUME TaskInv, TaskInv', NEW w \in Workers, FinishTask(w)
  PROVE  Abs!AbsNext
<1>1. PICK x \in Pairs : doing[w] = x
  BY DEF FinishTask, TaskInv, TypeOK, Pairs
<1>2. PICK i, n, m : i = x[1] /\ n = x[2] /\ m = <<n, ResultOf(i, n)>>
  OBVIOUS
<1>3. /\ i \in Interpreters /\ n \in Ids(i) /\ x = <<i, n>>
      /\ m \in Replies /\ m[1] = n
  BY <1>1, <1>2 DEF FinishTask, TaskInv, Known, ResultOf, Replies, Pairs
<1>4. /\ toWorker \in [Interpreters -> Seq(Replies)]
      /\ UNCHANGED <<taskQueue, localTasks, failed>>
      /\ toWorker' = [toWorker EXCEPT ![i] = Append(@, m)]
  BY <1>1, <1>2 DEF FinishTask, Source, TaskInv, TypeOK, Replies, Pairs
<1>5. /\ localTasks[i][n].started /\ ~localTasks[i][n].done /\ x \notin failed
      /\ ~Answered(i, n)
  BY <1>1, <1>3, DoingOnly DEF TaskInv, Answered
<1>6. /\ \A k \in DOMAIN toWorker[i] :
           k \in DOMAIN toWorker'[i] /\ toWorker'[i][k] = toWorker[i][k]
      /\ \A k \in DOMAIN toWorker'[i] :
           toWorker'[i][k] = m \/ (k \in DOMAIN toWorker[i] /\ toWorker'[i][k] = toWorker[i][k])
      /\ \E k \in DOMAIN toWorker'[i] : toWorker'[i][k] = m
  <2>1. PICK s : s = toWorker[i]
    OBVIOUS
  <2>2. s \in Seq(Replies) /\ toWorker'[i] = Append(s, m)
    BY <1>3, <1>4, <2>1
  <2>3. /\ DOMAIN s = 1 .. Len(s) /\ DOMAIN Append(s, m) = 1 .. Len(s) + 1 /\ Len(s) \in Nat
        /\ Append(s, m)[Len(s) + 1] = m
        /\ \A k \in 1 .. Len(s) : Append(s, m)[k] = s[k]
    BY <1>3, <2>2, AppendProperties
  <2> QED BY <2>1, <2>2, <2>3
<1>7. Answered(i, n)' /\ \A j \in Interpreters : \A id \in Ids(j) :
        ~(j = i /\ id = n) => (Answered(j, id)' <=> Answered(j, id))
  <2>1. Answered(i, n)'
    BY <1>3, <1>6 DEF Answered
  <2>2. ASSUME NEW j \in Interpreters, NEW id \in Ids(j), ~(j = i /\ id = n)
        PROVE  Answered(j, id)' <=> Answered(j, id)
    <3>1. CASE j = i
      BY <1>3, <1>6, <2>2, <3>1 DEF Answered
    <3>2. CASE j # i
      <4>1. toWorker'[j] = toWorker[j]
        BY <1>4, <3>2
      <4> QED BY <4>1 DEF Answered
    <3> QED BY <3>1, <3>2
  <2> QED BY <2>1, <2>2
<1>8. \A j \in Interpreters : DOMAIN localTasks'[j] = Ids(j)
  BY <1>4 DEF Ids
<1>9. StateOf(i, n) = "started"
  BY <1>3, <1>5, PlainStates DEF AllPlain, Plain
<1>10. StateOf(i, n)' = "executed"
  <2>1. StateOf(i, n)' = Plain(i, n)'
    BY <1>3, <1>8, PlainNext DEF AllPlain, Ids
  <2>2. localTasks' = localTasks /\ <<i, n>> \notin failed'
    BY <1>3, <1>4, <1>5
  <2> QED BY <1>5, <1>7, <2>1, <2>2 DEF Plain
<1>11. ASSUME NEW j \in Interpreters, NEW id \in Ids(j), ~(j = i /\ id = n)
       PROVE  StateOf(j, id)' = StateOf(j, id)
  BY <1>4, <1>7, <1>8, <1>11, SameState
<1>12. /\ n \in DOMAIN AbsStates[i] /\ AbsStates[i][n] = "started"
       /\ AbsStates' = [AbsStates EXCEPT ![i][n] = "executed"]
       /\ UNCHANGED AbsResults
  BY <1>3, <1>4, <1>8, <1>9, <1>10, <1>11, MoveMaps, SameResults
<1>13. Abs!Execute(i, n) /\ n \in DOMAIN AbsStates[i]
  BY <1>12 DEF Abs!Execute, Abs!Move, AbsStates, AbsResults, States, ResultsOf
<1> QED BY <1>3, <1>13 DEF Abs!AbsNext, AbsStates, States

LEMMA ErrorMaps ==
  ASSUME TaskInv, TaskInv', NEW w \in Workers, w # Main, Error(w), doing[w] # NoTask
  PROVE  Abs!AbsNext
<1>1. PICK x \in Pairs : doing[w] = x
  BY DEF TaskInv, TypeOK, Pairs
<1>2. PICK i, n : i = x[1] /\ n = x[2]
  OBVIOUS
<1>3. i \in Interpreters /\ n \in Ids(i) /\ x = <<i, n>>
  BY <1>1, <1>2 DEF TaskInv, Known, Pairs
<1>4. UNCHANGED <<toWorker, localTasks>> /\ failed' = failed \cup {x}
  BY <1>1 DEF Error
<1>5. /\ localTasks[i][n].started /\ ~localTasks[i][n].done /\ x \notin failed
      /\ ~Answered(i, n)
  BY <1>1, <1>3, DoingOnly DEF TaskInv, Answered
<1>6. \A j, id : Answered(j, id)' <=> Answered(j, id)
  BY <1>4 DEF Answered
<1>7. \A j \in Interpreters : DOMAIN localTasks'[j] = Ids(j)
  BY <1>4 DEF Ids
<1>8. StateOf(i, n) = "started"
  BY <1>3, <1>5, PlainStates DEF AllPlain, Plain
<1>9. StateOf(i, n)' = "failed"
  <2>1. StateOf(i, n)' = Plain(i, n)'
    BY <1>3, <1>7, PlainNext DEF AllPlain, Ids
  <2> QED BY <1>3, <1>4, <1>5, <2>1 DEF Plain
<1>10. ASSUME NEW j \in Interpreters, NEW id \in Ids(j), ~(j = i /\ id = n)
       PROVE  StateOf(j, id)' = StateOf(j, id)
  <2>1. <<j, id>> \in failed' <=> <<j, id>> \in failed
    BY <1>3, <1>4, <1>10
  <2> QED BY <1>4, <1>6, <1>7, <2>1, SameState
<1>11. /\ n \in DOMAIN AbsStates[i] /\ AbsStates[i][n] = "started"
       /\ AbsStates' = [AbsStates EXCEPT ![i][n] = "failed"]
       /\ UNCHANGED AbsResults
  BY <1>3, <1>4, <1>7, <1>8, <1>9, <1>10, MoveMaps, SameResults
<1>12. Abs!Fail(i, n) /\ n \in DOMAIN AbsStates[i]
  BY <1>11 DEF Abs!Fail, Abs!Move, AbsStates, AbsResults, States, ResultsOf
<1> QED BY <1>3, <1>12 DEF Abs!AbsNext, AbsStates, States

LEMMA PollMaps ==
  ASSUME TaskInv, TaskInv', NEW i \in Interpreters, PollIncoming(i)
  PROVE  Abs!AbsNext
<1>1. PICK r : r = RemoteId(i)
  OBVIOUS
<1>2. /\ toWorker \in [Interpreters -> Seq(Replies)] /\ toWorker[i] # <<>>
      /\ UNCHANGED <<taskQueue, doing, failed>>
      /\ toWorker' = [toWorker EXCEPT ![i] = Tail(@)]
  BY DEF PollIncoming, TaskInv, TypeOK, Replies, Pairs
<1>3. /\ r \in Ids(i) /\ Head(toWorker[i]) = <<r, ResultOf(i, r)>>
      /\ \A j \in Interpreters : DOMAIN localTasks'[j] = Ids(j)
      /\ \A j \in Interpreters : \A id \in Ids(j) :
           /\ localTasks'[j][id].started = localTasks[j][id].started
           /\ IF j = i /\ id = r
                THEN /\ localTasks'[j][id].done = TRUE
                     /\ localTasks'[j][id].result = ResultOf(i, r)
                ELSE localTasks'[j][id] = localTasks[j][id]
  BY <1>1, PollFacts DEF TaskInv, Ids
<1>4. /\ toWorker[i][1][1] = r /\ 1 \in DOMAIN toWorker[i]
      /\ \A k \in DOMAIN toWorker'[i] :
           k + 1 \in DOMAIN toWorker[i] /\ toWorker'[i][k] = toWorker[i][k + 1]
      /\ \A k \in DOMAIN toWorker[i] :
           k = 1 \/ (k - 1 \in DOMAIN toWorker'[i] /\ toWorker'[i][k - 1] = toWorker[i][k])
  <2>1. PICK s : s = toWorker[i]
    OBVIOUS
  <2>2. s \in Seq(Replies) /\ s # <<>> /\ toWorker'[i] = Tail(s)
    BY <1>2, <2>1
  <2>3. /\ DOMAIN s = 1 .. Len(s) /\ DOMAIN Tail(s) = 1 .. Len(s) - 1 /\ Len(s) \in Nat \ {0}
        /\ \A k \in 1 .. Len(s) - 1 : Tail(s)[k] = s[k + 1]
        /\ Head(s) = s[1]
    BY <2>2, HeadTailProperties, EmptySeq
  <2>4. s[1][1] = r /\ 1 \in DOMAIN s
    BY <1>3, <2>1, <2>3
  <2>5. \A k \in DOMAIN Tail(s) : k + 1 \in DOMAIN s /\ Tail(s)[k] = s[k + 1]
    BY <2>3
  <2>6. \A k \in DOMAIN s : k = 1 \/ (k - 1 \in DOMAIN Tail(s) /\ Tail(s)[k - 1] = s[k])
    BY <2>3
  <2> QED BY <2>1, <2>2, <2>4, <2>5, <2>6
<1>5. /\ localTasks[i][r].started /\ ~localTasks[i][r].done
      /\ <<i, r>> \notin failed /\ Answered(i, r)
  <2>1. PICK k \in DOMAIN toWorker[i] : toWorker[i][k][1] = r
    BY <1>4
  <2> QED BY <1>3, <2>1, ReceivedOnly DEF TaskInv, Answered
<1>6. ASSUME NEW j \in Interpreters, NEW id \in Ids(j), ~(j = i /\ id = r)
      PROVE  Answered(j, id)' <=> Answered(j, id)
  <2>1. CASE j = i
    <3>1. Answered(j, id)' => Answered(j, id)
      BY <1>4, <2>1 DEF Answered
    <3>2. Answered(j, id) => Answered(j, id)'
      BY <1>4, <1>6, <2>1 DEF Answered
    <3> QED BY <3>1, <3>2
  <2>2. CASE j # i
    <3>1. toWorker'[j] = toWorker[j]
      BY <1>2, <2>2
    <3> QED BY <3>1 DEF Answered
  <2> QED BY <2>1, <2>2
<1>7. StateOf(i, r) = "executed"
  BY <1>3, <1>5, PlainStates DEF AllPlain, Plain
<1>8. StateOf(i, r)' = "done"
  <2>1. StateOf(i, r)' = Plain(i, r)'
    BY <1>3, PlainNext DEF AllPlain, Ids
  <2> QED BY <1>3, <2>1 DEF Plain
<1>9. ASSUME NEW j \in Interpreters, NEW id \in Ids(j), ~(j = i /\ id = r)
      PROVE  StateOf(j, id)' = StateOf(j, id)
  <2>1. localTasks'[j][id] = localTasks[j][id]
    BY <1>3, <1>9
  <2> QED BY <1>2, <1>3, <1>6, <1>9, <2>1, SameState
<1>10. /\ r \in DOMAIN AbsStates[i] /\ AbsStates[i][r] = "executed"
       /\ AbsStates' = [AbsStates EXCEPT ![i][r] = "done"]
  BY <1>3, <1>7, <1>8, <1>9, MoveMaps
<1>11. AbsResults' = [AbsResults EXCEPT ![i][r] = ResultOf(i, r)]
  <2>1. \A j \in Interpreters : Ids(j)' = Ids(j)
    BY <1>3 DEF Ids
  <2>2. \A j \in Interpreters : j # i => ResultsOf(j)' = ResultsOf(j)
    BY <1>3, <2>1 DEF ResultsOf
  <2>3. ResultsOf(i)' = [ResultsOf(i) EXCEPT ![r] = ResultOf(i, r)]
    BY <1>3, <2>1 DEF ResultsOf
  <2> QED BY <2>2, <2>3 DEF AbsResults
<1>12. Abs!Deliver(i, r) /\ r \in DOMAIN AbsStates[i]
  BY <1>10, <1>11 DEF Abs!Deliver, Abs!Move, Abs!ResultOf, ResultOf,
                      AbsStates, AbsResults, States, ResultsOf
<1> QED BY <1>3, <1>12 DEF Abs!AbsNext, AbsStates, States

LEMMA SameMaps ==
  ASSUME UNCHANGED <<toWorker, localTasks, failed>>
  PROVE  UNCHANGED Abs!absvars
<1>1. \A j \in Interpreters : Ids(j)' = Ids(j)
  BY DEF Ids
<1>2. \A j \in Interpreters : \A id \in Ids(j) : StateOf(j, id)' = StateOf(j, id)
  BY DEF StateOf
<1>3. UNCHANGED AbsStates
  BY <1>1, <1>2 DEF AbsStates, States
<1> QED BY <1>3, SameResults DEF Abs!absvars, AbsStates, AbsResults, States, ResultsOf

\* The task system does what AbstractTasks promises, for any number of workers
\* and tasks and whatever fails: nobody executes a task a second time, and the
\* result that waitTasks() of src/threadtasks.lib enters under an id is that of
\* this task.
THEOREM Implementation == Spec => ImplementsTasks
<1>1. Init => Abs!AbsInit
  <2> SUFFICES ASSUME Init PROVE Abs!AbsInit
    OBVIOUS
  <2>1. \A i \in Interpreters : Ids(i) = {}
    BY EmptySeq DEF Init, Ids
  <2>2. \A i \in Interpreters : States(i) = <<>> /\ ResultsOf(i) = <<>>
    BY <2>1 DEF States, ResultsOf
  <2> QED BY <2>2 DEF Abs!AbsInit, States, ResultsOf
<1>2. ASSUME TaskInv, TaskInv', [Next]_vars PROVE [Abs!AbsNext]_(Abs!absvars)
  <2>1. ASSUME NEW i \in Interpreters, RunTask(i) \/ CreateTask(i) PROVE Abs!AbsNext
    BY <1>2, <2>1, AddMaps DEF Abs!AbsNext
  <2>2. ASSUME NEW w \in Workers, FinishTask(w) PROVE Abs!AbsNext
    BY <1>2, <2>2, FinishMaps
  <2>3. ASSUME NEW i \in Interpreters, Error(i), i # Main => doing[i] # NoTask
        PROVE  [Abs!AbsNext]_(Abs!absvars)
    <3>1. CASE i = Main
      BY <2>3, <3>1, SameMaps DEF Error
    <3>2. CASE i # Main
      BY <1>2, <2>3, <3>2, ErrorMaps DEF Interpreters
    <3> QED BY <3>1, <3>2
  <2>4. ASSUME NEW w \in Workers, FailTask(w) PROVE [Abs!AbsNext]_(Abs!absvars)
    BY <2>3, <2>4 DEF FailTask, Interpreters
  <2>5. ASSUME NEW i \in Interpreters, NEW id \in Ids(i), StartTask(i, id)
        PROVE  [Abs!AbsNext]_(Abs!absvars)
    BY <2>3, <2>5 DEF StartTask, Busy
  <2>6. ASSUME NEW i \in Interpreters, PollIncoming(i) PROVE Abs!AbsNext
    BY <1>2, <2>6, PollMaps
  <2>7. ASSUME UNCHANGED <<toWorker, localTasks, failed>> PROVE UNCHANGED Abs!absvars
    BY <2>7, SameMaps
  <2> QED BY <1>2, <2>1, <2>2, <2>4, <2>5, <2>6, <2>7
          DEF Next, TakeTask, WaitReturns, WaitTasks, vars
<1> QED BY <1>1, <1>2, Invariant, PTL DEF Spec, ImplementsTasks, Abs!AbsSpec
==============================================================================
