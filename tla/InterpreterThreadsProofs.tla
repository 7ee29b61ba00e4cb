----------------------- MODULE InterpreterThreadsProofs -----------------------
(***************************************************************************)
(* InterpreterThreads for any number of clients, slots, threads and tasks: *)
(* its types, that the slots in use are those of the threads not joined,   *)
(* that a thread that has been joined has done what it was given, and that *)
(* results are those of the thread asked, in order.                        *)
(***************************************************************************)
EXTENDS InterpreterThreads, SequenceTheorems, TLAPS

USE MaxThreadsAssumption, ClientsAssumption, BoundsAssumption

\* A thread that a client waits for has a slot, of which the client is the
\* parent: nobody else may use the thread meanwhile.
CallsOwn ==
  \A c \in Clients, o \in Threads :
    pc[c] \in {<<"result", o>>, <<"join", o>>} =>
      slotOf[o] # 0 /\ parent[slotOf[o]] = c

\* Threads still to be created have no slot and no tasks.
Unborn ==
  \A o \in Threads :
    o > created => slotOf[o] = 0 /\ given[o] = <<>> /\ done[o] = <<>>

\* What a thread was given is what it has done and what is in its queue, there
\* followed by the quit request from when it is being joined.
Pending ==
  \A o \in Threads :
    slotOf[o] # 0 =>
      done[o] \o toThread[slotOf[o]] =
        IF In("join", o) THEN Append(given[o], Quit) ELSE given[o]

\* A thread exits with nothing but the quit request left.
ExitedLast ==
  \A o \in Threads :
    slotOf[o] # 0 /\ place[slotOf[o]] = "exited" =>
      In("join", o) /\ toThread[slotOf[o]] = <<Quit>>

IInv == /\ TypeOK /\ SlotsMatch /\ JoinedDone
        /\ CallsOwn /\ Unborn /\ Pending /\ ExitedLast

Items == Tasks \cup {Quit}

\* Moving an item between two sequences, and adding one behind them.
LEMMA ShiftOne ==
  ASSUME NEW a \in Seq(Items), NEW b \in Seq(Items), b # <<>>
  PROVE  Append(a, Head(b)) \o Tail(b) = a \o b
<1>1. Head(b) \in Items /\ Tail(b) \in Seq(Items)
  BY HeadTailProperties
<1>2. Append(a, Head(b)) = a \o <<Head(b)>> /\ <<Head(b)>> \in Seq(Items)
  BY <1>1, AppendIsConcat
<1>3. <<Head(b)>> \o Tail(b) = b
  BY HeadTailProperties, ConcatProperties, SeqEqual, <1>1, <1>2
<1> QED BY <1>1, <1>2, <1>3, ConcatAssociative

LEMMA PushOne ==
  ASSUME NEW a \in Seq(Items), NEW b \in Seq(Items), NEW x \in Items
  PROVE  a \o Append(b, x) = Append(a \o b, x)
<1>1. Append(b, x) = b \o <<x>> /\ <<x>> \in Seq(Items)
  BY AppendIsConcat
<1>2. a \o b \in Seq(Items)
  BY ConcatProperties
<1>3. Append(a \o b, x) = (a \o b) \o <<x>>
  BY <1>2, AppendIsConcat
<1> QED BY <1>1, <1>3, ConcatAssociative

\* The quit request is not a task.
LEMMA QuitNoTask == Quit \notin Tasks
BY DEF Quit, Tasks, Threads

LEMMA QuitInItems == Quit \in Items /\ Tasks \subseteq Items
BY DEF Items

\* A thread that finds the quit request has nothing behind it and has done all.
LEMMA QuitLast ==
  ASSUME NEW a \in Seq(Tasks), NEW g \in Seq(Tasks), NEW b \in Seq(Items),
         b # <<>>, Head(b) = Quit, a \o b \in {g, Append(g, Quit)}
  PROVE  a \o b = Append(g, Quit) /\ b = <<Quit>> /\ a = g
<1>1. a \in Seq(Items) /\ g \in Seq(Items) /\ Quit \in Items
  BY SeqMonotonic DEF Items
<1> DEFINE n == Len(a) + 1
<1>2. Len(a) \in Nat /\ Len(b) \in Nat \ {0} /\ Len(g) \in Nat /\ b[1] = Quit
  BY <1>1, LenProperties, EmptySeq, HeadTailProperties
<1>3. /\ Len(a \o b) = Len(a) + Len(b) /\ (a \o b)[n] = Quit
      /\ \A i \in 1 .. Len(a) : (a \o b)[i] = a[i]
  BY <1>1, <1>2, ConcatProperties
<1>4. /\ Len(Append(g, Quit)) = Len(g) + 1
      /\ \A i \in 1 .. Len(g) : Append(g, Quit)[i] = g[i] /\ g[i] \in Tasks
  BY <1>1, AppendProperties, ElementOfSeq
<1>5. a \o b = Append(g, Quit)
  <2>1. ASSUME a \o b = g PROVE FALSE
    <3>1. n \in 1 .. Len(g)
      BY <1>2, <1>3, <2>1
    <3>2. g[n] = Quit /\ g[n] \in Tasks
      BY <1>3, <1>4, <2>1, <3>1
    <3> QED BY <3>2, QuitNoTask
  <2> QED BY <2>1
<1>6. n = Len(g) + 1 /\ Len(b) = 1
  <2>1. Len(a) + Len(b) = Len(g) + 1
    BY <1>3, <1>4, <1>5
  <2>2. ~(n <= Len(g))
    BY <1>2, <1>3, <1>4, <1>5, QuitNoTask
  <2>3. \A x, y, z \in Nat :
          y # 0 /\ x + y = z + 1 /\ ~(x + 1 <= z) => x + 1 = z + 1 /\ y = 1
    OBVIOUS
  <2> QED BY <1>2, <2>1, <2>2, <2>3
<1>7. b = <<Quit>>
  BY <1>2, <1>6
<1>8. a = g
  BY <1>2, <1>3, <1>4, <1>5, <1>6, SeqEqual
<1> QED BY <1>5, <1>7, <1>8

\* Every step keeps the types.
LEMMA TypeNext == TypeOK /\ CallsOwn /\ [Next]_vars => TypeOK'
<1> SUFFICES ASSUME TypeOK, CallsOwn, [Next]_vars PROVE TypeOK'
  OBVIOUS
<1>1. ASSUME NEW i \in Slots, Lock(i) \/ Sleep(i) \/ Exit(i) \/ SpuriousWake(i)
      PROVE  TypeOK'
  <2>1. PICK there \in {"busy", "asleep", "exited", "awake"} :
          place' = [place EXCEPT ![i] = there]
    BY <1>1 DEF Lock, Sleep, Exit, SpuriousWake
  <2>2. place[i] # "none"
    BY <1>1 DEF Lock, Sleep, Exit, SpuriousWake
  <2>3. UNCHANGED <<active, parent, toThread, fromThread, created, slotOf, pc,
                    asleep, aborted, given, done, got>>
    BY <1>1 DEF Lock, Sleep, Exit, SpuriousWake, history
  <2> QED BY <2>1, <2>2, <2>3 DEF TypeOK
<1>2. ASSUME NEW i \in Slots, Evaluate(i) PROVE TypeOK'
  <2> DEFINE task == Head(toThread[i])
  <2>1. /\ toThread[i] \in Seq(Items) /\ toThread[i] # <<>> /\ task # Quit
        /\ toThread' = [toThread EXCEPT ![i] = Tail(@)]
    BY <1>2 DEF Evaluate, TypeOK, Items
  <2>2. task \in Tasks /\ Tail(toThread[i]) \in Seq(Items)
    BY <2>1, HeadTailProperties DEF Items
  <2>3. fromThread' \in [Slots -> Seq(Tasks)] /\ done' \in [Threads -> Seq(Tasks)]
    BY <1>2, <2>2 DEF Evaluate, TypeOK
  <2>4. asleep' \subseteq asleep
    BY <1>2 DEF Evaluate, SignalFrom
  <2>5. toThread' \in [Slots -> Seq(Items)]
    BY <2>1, <2>2 DEF TypeOK, Items
  <2> QED BY <1>2, <2>3, <2>4, <2>5 DEF Evaluate, TypeOK, Items
<1>3. ASSUME NEW c \in Clients, CreateThread(c) PROVE TypeOK'
  <2>1. created + 1 \in Threads /\ created' \in 0 .. MaxCreated
    BY <1>3 DEF CreateThread, TypeOK, Threads
  <2>2. PICK i \in Slots :
          /\ active' = [active EXCEPT ![i] = TRUE]
          /\ parent' = [parent EXCEPT ![i] = c]
          /\ toThread' = [toThread EXCEPT ![i] = <<>>]
          /\ fromThread' = [fromThread EXCEPT ![i] = <<>>]
          /\ place' = [place EXCEPT ![i] = "awake"]
          /\ slotOf' = [slotOf EXCEPT ![created + 1] = i]
    BY <1>3 DEF CreateThread, EmptyQueues
  <2>3. slotOf' \in [Threads -> 0 .. MaxThreads]
    BY <2>1, <2>2 DEF TypeOK, Slots
  <2>4. UNCHANGED <<pc, asleep, aborted, given, done, got>>
    BY <1>3 DEF CreateThread, history
  <2>5. /\ toThread' \in [Slots -> Seq(Tasks \cup {Quit})]
        /\ fromThread' \in [Slots -> Seq(Tasks)]
    BY <2>2 DEF TypeOK
  <2> QED BY <2>1, <2>2, <2>3, <2>4, <2>5 DEF TypeOK
<1>4. ASSUME NEW c \in Clients, NEW o \in Threads, NEW kind \in {"e", "x"},
             Submit(c, o, kind)
      PROVE  TypeOK'
  <2> DEFINE task == <<o, Len(given[o]) + 1, kind>>
  <2>1. given[o] \in Seq(Tasks) /\ Len(given[o]) < MaxTasks
        /\ slotOf[o] \in Slots
    BY <1>4 DEF Submit, Usable, TypeOK, Slots
  <2>2. task \in Tasks
    BY <2>1, LenProperties DEF Tasks
  <2>3. given' \in [Threads -> Seq(Tasks)]
        /\ toThread' \in [Slots -> Seq(Tasks \cup {Quit})]
    BY <1>4, <2>1, <2>2 DEF Submit, PushLast, TypeOK
  <2> QED BY <1>4, <2>1, <2>3 DEF Submit, SignalTo, TypeOK
<1>5. ASSUME NEW c \in Clients, NEW o \in Threads, ResultBegin(c, o)
      PROVE  TypeOK'
  BY <1>5 DEF ResultBegin, Usable, Idle, slotVars, history, TypeOK
<1>6. ASSUME NEW c \in Clients, NEW o \in Threads, ResultTake(c, o)
      PROVE  TypeOK'
  <2>1. slotOf[o] \in Slots
    <3>1. slotOf[o] # 0
      BY <1>6 DEF ResultTake, InResult, CallsOwn
    <3> QED BY <3>1 DEF TypeOK, Slots
  <2>2. /\ Head(fromThread[slotOf[o]]) \in Tasks
        /\ Tail(fromThread[slotOf[o]]) \in Seq(Tasks)
    BY <1>6, <2>1, HeadTailProperties DEF ResultTake, TypeOK
  <2> QED BY <1>6, <2>1, <2>2 DEF ResultTake, InResult, Idle, history, TypeOK
<1>7. ASSUME NEW c \in Clients, NEW o \in Threads, ResultWait(c, o)
      PROVE  TypeOK'
  BY <1>7 DEF ResultWait, InResult, Idle, slotVars, history, TypeOK
<1>8. ASSUME NEW c \in Clients, SpuriousReturn(c) PROVE TypeOK'
  BY <1>8 DEF SpuriousReturn, slotVars, history, TypeOK
<1>9. ASSUME NEW c \in Clients, NEW o \in Threads, JoinBegin(c, o) PROVE TypeOK'
  <2> DEFINE i == slotOf[o]
  <2>1. i \in Slots
    BY <1>9 DEF JoinBegin, Usable, TypeOK, Slots
  <2>2. toThread' \in [Slots -> Seq(Tasks \cup {Quit})]
    BY <1>9, <2>1 DEF JoinBegin, PushLast, TypeOK
  <2>3. /\ place' = [place EXCEPT ![i] = IF @ = "asleep" THEN "awake" ELSE @]
        /\ pc' = [pc EXCEPT ![c] = <<"join", o>>] /\ pc[c] = Idle
    BY <1>9 DEF JoinBegin, SignalTo, Usable
  <2>4. UNCHANGED <<active, parent, fromThread, created, slotOf, asleep, aborted,
                    given, done, got>>
    BY <1>9 DEF JoinBegin, history
  <2>5. pc' \in [Clients -> {Idle} \cup {"result", "join"} \X Threads]
    BY <2>3 DEF TypeOK
  <2>6. \A d \in asleep : pc'[d] = pc[d]
    BY <2>3 DEF TypeOK
  <2> QED BY <2>1, <2>2, <2>3, <2>4, <2>5, <2>6 DEF TypeOK
<1>10. ASSUME NEW c \in Clients, NEW o \in Threads, JoinEnd(c, o) PROVE TypeOK'
  <2> DEFINE i == slotOf[o]
  <2>1. /\ pc[c] = <<"join", o>> /\ pc' = [pc EXCEPT ![c] = Idle]
        /\ active' = [active EXCEPT ![i] = FALSE]
        /\ place' = [place EXCEPT ![i] = "none"]
        /\ slotOf' = [slotOf EXCEPT ![o] = 0]
    BY <1>10 DEF JoinEnd, Deactivate
  <2>2. UNCHANGED <<parent, toThread, fromThread, created, asleep, aborted,
                    given, done, got>>
    BY <1>10 DEF JoinEnd, history
  <2>3. \A d \in asleep : pc'[d] = pc[d]
    BY <2>1 DEF TypeOK
  <2>4. slotOf' \in [Threads -> 0 .. MaxThreads]
    BY <2>1 DEF TypeOK
  <2> QED BY <2>1, <2>2, <2>3, <2>4 DEF TypeOK
<1>11. ASSUME NEW c \in Clients, NEW o \in Threads, JoinAgain(c, o)
       PROVE  TypeOK'
  BY <1>11 DEF JoinAgain, slotVars, history, TypeOK
<1>12. CASE UNCHANGED vars
  BY <1>12 DEF vars, slotVars, history, TypeOK
<1> QED BY <1>1, <1>2, <1>3, <1>4, <1>5, <1>6, <1>7, <1>8, <1>9, <1>10, <1>11,
           <1>12 DEF Next, Work, Return

\* Where the slot of a thread is.
LEMMA SlotRange ==
  ASSUME TypeOK, NEW o \in Threads
  PROVE  slotOf[o] \in Nat /\ (slotOf[o] # 0 => slotOf[o] \in Slots)
<1>1. slotOf[o] \in 0 .. MaxThreads
  BY DEF TypeOK
<1> QED BY <1>1 DEF Slots

\* The other conjuncts depend on some of the variables, per thread.  A step of
\* an interpreter thread that moves it to another place changes nothing else.
LEMMA MoveNext ==
  ASSUME IInv, TypeOK', NEW i \in Slots,
         Lock(i) \/ Sleep(i) \/ Exit(i) \/ SpuriousWake(i)
  PROVE  IInv'
<1>1. UNCHANGED <<active, parent, toThread, fromThread, created, slotOf, pc,
                  asleep, aborted, given, done, got>>
  BY DEF Lock, Sleep, Exit, SpuriousWake, history
<1>2. \A k \in Slots : place'[k] = "exited" =>
        place[k] = "exited" \/ (k = i /\ toThread[i] # <<>> /\ Head(toThread[i]) = Quit)
  BY DEF Lock, Sleep, Exit, SpuriousWake, IInv, TypeOK
<1>3. SlotsMatch' /\ JoinedDone' /\ CallsOwn' /\ Unborn' /\ Pending'
  BY <1>1 DEF IInv, SlotsMatch, JoinedDone, CallsOwn, Unborn, Pending, In
<1>4. ASSUME NEW o \in Threads, slotOf[o] # 0, place'[slotOf[o]] = "exited"
      PROVE  In("join", o) /\ toThread[slotOf[o]] = <<Quit>>
  <2>1. slotOf[o] \in Slots
    BY <1>4 DEF IInv, TypeOK, Slots
  <2>2. CASE place[slotOf[o]] = "exited"
    BY <1>4, <2>2 DEF IInv, ExitedLast
  <2>3. CASE toThread[slotOf[o]] # <<>> /\ Head(toThread[slotOf[o]]) = Quit
    <3>1. /\ done[o] \in Seq(Tasks) /\ given[o] \in Seq(Tasks)
          /\ toThread[slotOf[o]] \in Seq(Items)
      BY <2>1 DEF IInv, TypeOK, Items
    <3>2. done[o] \o toThread[slotOf[o]] =
            IF In("join", o) THEN Append(given[o], Quit) ELSE given[o]
      BY <1>4 DEF IInv, Pending
    <3>3. /\ done[o] \o toThread[slotOf[o]] = Append(given[o], Quit)
          /\ toThread[slotOf[o]] = <<Quit>>
      BY <2>3, <3>1, <3>2, QuitLast
    <3>4. given[o] # Append(given[o], Quit)
      BY <3>1, AppendProperties, LenProperties, QuitInItems
    <3> QED BY <3>2, <3>3, <3>4
  <2> QED BY <1>2, <1>4, <2>1, <2>2, <2>3
<1>5. ExitedLast'
  BY <1>1, <1>4 DEF ExitedLast, In
<1> QED BY <1>3, <1>5 DEF IInv

\* An evaluation moves one task from the queue to what its thread has done.
LEMMA EvaluateNext ==
  ASSUME IInv, TypeOK', NEW i \in Slots, Evaluate(i) PROVE IInv'
<1> DEFINE task == Head(toThread[i])
<1>1. /\ UNCHANGED <<active, parent, place, created, slotOf, pc, aborted, given, got>>
      /\ toThread' = [toThread EXCEPT ![i] = Tail(@)]
      /\ toThread[i] # <<>> /\ task # Quit /\ place[i] = "busy"
      /\ done' = [o \in Threads |-> IF slotOf[o] = i THEN Append(done[o], task)
                                                     ELSE done[o]]
  BY DEF Evaluate
<1>2. /\ toThread[i] \in Seq(Items) /\ toThread \in [Slots -> Seq(Items)]
      /\ done \in [Threads -> Seq(Tasks)]
  BY DEF IInv, TypeOK, Items
<1> HIDE DEF task
<1>3. SlotsMatch' /\ CallsOwn'
  BY <1>1 DEF IInv, SlotsMatch, CallsOwn
<1>4. JoinedDone' /\ Unborn'
  BY <1>1 DEF IInv, JoinedDone, Unborn, Slots
<1>5. ASSUME NEW o \in Threads, slotOf[o] # 0
      PROVE  done'[o] \o toThread'[slotOf[o]] = done[o] \o toThread[slotOf[o]]
  <2>1. CASE slotOf[o] = i
    <3>1. done[o] \in Seq(Items)
      BY <1>2, SeqMonotonic, QuitInItems
    <3>2. Append(done[o], task) \o Tail(toThread[i]) = done[o] \o toThread[i]
      BY <1>1, <1>2, <3>1, ShiftOne DEF task
    <3> QED BY <1>1, <1>2, <2>1, <3>2
  <2>2. CASE slotOf[o] # i
    <3>1. slotOf[o] \in Slots
      BY <1>5, SlotRange DEF IInv
    <3> QED BY <1>1, <1>2, <2>2, <3>1
  <2> QED BY <2>1, <2>2
<1>6. Pending'
  BY <1>1, <1>5 DEF IInv, Pending, In
<1>7. ExitedLast'
  <2> SUFFICES ASSUME NEW o \in Threads, slotOf[o] # 0, place[slotOf[o]] = "exited"
               PROVE  In("join", o) /\ toThread'[slotOf[o]] = <<Quit>>
    BY <1>1 DEF ExitedLast, In
  <2>1. slotOf[o] \in Slots /\ slotOf[o] # i
    BY <1>1, SlotRange DEF IInv
  <2> QED BY <1>1, <1>2, <2>1 DEF IInv, ExitedLast
<1> QED BY <1>3, <1>4, <1>6, <1>7 DEF IInv

\* A new thread takes a slot that no other one has, with an empty queue.
LEMMA CreateNext ==
  ASSUME IInv, TypeOK', NEW c \in Clients, CreateThread(c) PROVE IInv'
<1> DEFINE o == created + 1
<1>1. PICK i \in Slots :
        /\ ~active[i]
        /\ active' = [active EXCEPT ![i] = TRUE]
        /\ parent' = [parent EXCEPT ![i] = c]
        /\ toThread' = [toThread EXCEPT ![i] = <<>>]
        /\ place' = [place EXCEPT ![i] = "awake"]
        /\ slotOf' = [slotOf EXCEPT ![o] = i]
  BY DEF CreateThread, FirstFree, EmptyQueues
<1>2. /\ created' = created + 1 /\ created \in Nat
      /\ o \in Threads /\ o > created
      /\ UNCHANGED <<pc, asleep, aborted, given, done, got>>
  BY DEF CreateThread, history, IInv, TypeOK, Threads
<1>3. slotOf[o] = 0 /\ given[o] = <<>> /\ done[o] = <<>> /\ i # 0
  BY <1>2 DEF IInv, Unborn, Slots
<1>4. \A p \in Threads : slotOf[p] # i
  BY <1>1 DEF IInv, SlotsMatch
<1>5. \A p \in Threads : slotOf'[p] = IF p = o THEN i ELSE slotOf[p]
  BY <1>1, <1>2 DEF IInv, TypeOK
<1> HIDE DEF o
<1>6. SlotsMatch'
  <2>1. \A k \in Slots : active'[k] <=> k = i \/ active[k]
    BY <1>1 DEF IInv, TypeOK
  <2>2. \A k \in Slots : (\E p \in Threads : slotOf'[p] = k) <=>
                          k = i \/ \E p \in Threads : slotOf[p] = k
    BY <1>2, <1>3, <1>5 DEF Slots
  <2>3. \A p, r \in Threads : slotOf'[p] = slotOf'[r] /\ slotOf'[p] # 0 => p = r
    BY <1>4, <1>5 DEF IInv, SlotsMatch
  <2> QED BY <2>1, <2>2, <2>3 DEF IInv, SlotsMatch
<1>7. JoinedDone'
  BY <1>2, <1>3, <1>5 DEF IInv, JoinedDone, o, Threads
<1>8. CallsOwn'
  <2> SUFFICES ASSUME NEW d \in Clients, NEW p \in Threads,
                      pc[d] \in {<<"result", p>>, <<"join", p>>}
               PROVE  slotOf'[p] # 0 /\ parent'[slotOf'[p]] = d
    BY <1>2 DEF CallsOwn
  <2>1. slotOf[p] # 0 /\ parent[slotOf[p]] = d
    BY DEF IInv, CallsOwn
  <2>2. p # o /\ slotOf'[p] = slotOf[p] /\ slotOf[p] \in Slots /\ slotOf[p] # i
    BY <1>3, <1>4, <1>5, <2>1, SlotRange DEF IInv
  <2>3. parent'[slotOf[p]] = parent[slotOf[p]]
    BY <1>1, <2>2 DEF IInv, TypeOK
  <2> QED BY <2>1, <2>2, <2>3
<1>9. Unborn'
  BY <1>2, <1>5 DEF IInv, Unborn, o, Threads
<1>10. ASSUME NEW p \in Threads, slotOf'[p] # 0
       PROVE  done'[p] \o toThread'[slotOf'[p]] =
                IF In("join", p) THEN Append(given[p], Quit) ELSE given[p]
  <2>1. CASE p = o
    <3>1. ~In("join", p)
      BY <1>3, <2>1 DEF IInv, CallsOwn, In
    <3>2. toThread'[i] = <<>>
      BY <1>1 DEF IInv, TypeOK
    <3>3. done'[o] \o toThread'[slotOf'[o]] = <<>>
      BY <1>2, <1>3, <1>5, <3>2
    <3> QED BY <1>3, <2>1, <3>1, <3>3
  <2>2. CASE p # o
    <3>1. slotOf[p] \in Slots /\ slotOf[p] # i /\ slotOf'[p] = slotOf[p]
      BY <1>4, <1>5, <1>10, <2>2, SlotRange DEF IInv
    <3>2. toThread'[slotOf[p]] = toThread[slotOf[p]] /\ slotOf[p] # 0
      BY <1>1, <1>10, <3>1 DEF IInv, TypeOK
    <3> QED BY <1>2, <3>1, <3>2 DEF IInv, Pending
  <2> QED BY <2>1, <2>2
<1>11. Pending'
  BY <1>2, <1>10 DEF Pending, In
<1>12. ExitedLast'
  <2> SUFFICES ASSUME NEW p \in Threads, slotOf'[p] # 0, place'[slotOf'[p]] = "exited"
               PROVE  In("join", p) /\ toThread'[slotOf'[p]] = <<Quit>>
    BY <1>2 DEF ExitedLast, In
  <2>1. p # o
    BY <1>1, <1>5 DEF IInv, TypeOK
  <2>2. slotOf[p] \in Slots /\ slotOf[p] # i /\ slotOf'[p] = slotOf[p]
    BY <1>4, <1>5, <2>1, SlotRange DEF IInv
  <2>3. /\ toThread'[slotOf[p]] = toThread[slotOf[p]] /\ slotOf[p] # 0
        /\ place'[slotOf[p]] = place[slotOf[p]]
    BY <1>1, <2>2 DEF IInv, TypeOK
  <2> QED BY <2>2, <2>3 DEF IInv, ExitedLast
<1> QED BY <1>6, <1>7, <1>8, <1>9, <1>11, <1>12 DEF IInv

\* Nobody joins a thread that its parent is free to use, and it has not exited.
LEMMA UsableFree ==
  ASSUME IInv, NEW c \in Clients, NEW o \in Threads, Usable(c, o)
  PROVE  /\ ~In("join", o) /\ slotOf[o] \in Slots /\ slotOf[o] # 0
         /\ place[slotOf[o]] # "exited" /\ pc[c] = Idle
         /\ parent[slotOf[o]] = c
<1>1. slotOf[o] # 0 /\ parent[slotOf[o]] = c /\ pc[c] = Idle
  BY DEF Usable
<1>2. ~In("join", o)
  BY <1>1 DEF IInv, CallsOwn, In, Idle
<1> QED BY <1>1, <1>2, SlotRange DEF IInv, ExitedLast

\* A client gives its thread a task.
LEMMA SubmitNext ==
  ASSUME IInv, TypeOK', NEW c \in Clients, NEW o \in Threads,
         NEW kind \in {"e", "x"}, Submit(c, o, kind)
  PROVE  IInv'
<1> DEFINE i == slotOf[o]
           task == <<o, Len(given[o]) + 1, kind>>
<1>1. /\ UNCHANGED <<active, parent, created, slotOf, pc, asleep, done>>
      /\ toThread' = [toThread EXCEPT ![i] = Append(@, task)]
      /\ given' = [given EXCEPT ![o] = Append(@, task)]
      /\ place' = [place EXCEPT ![i] = IF @ = "asleep" THEN "awake" ELSE @]
  BY DEF Submit, PushLast, SignalTo
<1>2. ~In("join", o) /\ i \in Slots /\ i # 0 /\ place[i] # "exited"
  BY UsableFree DEF Submit
<1>3. task \in Tasks
  <2>1. given[o] \in Seq(Tasks) /\ Len(given[o]) < MaxTasks
    BY DEF Submit, IInv, TypeOK
  <2> QED BY <2>1, LenProperties DEF Tasks
<1> HIDE DEF task
<1>4. /\ \A p \in Threads : given'[p] = IF p = o THEN Append(given[o], task) ELSE given[p]
      /\ \A k \in Slots : toThread'[k] = IF k = i THEN Append(toThread[i], task)
                                                  ELSE toThread[k]
  BY <1>1 DEF IInv, TypeOK
<1>5. \A p \in Threads : p # o /\ slotOf[p] # 0 => slotOf[p] \in Slots /\ slotOf[p] # i
  BY <1>2, SlotRange DEF IInv, SlotsMatch
<1>6. SlotsMatch' /\ CallsOwn'
  BY <1>1 DEF IInv, SlotsMatch, CallsOwn
<1>7. JoinedDone' /\ Unborn'
  BY <1>1, <1>2, <1>4 DEF IInv, JoinedDone, Unborn
<1>8. ASSUME NEW p \in Threads, slotOf[p] # 0
      PROVE  done[p] \o toThread'[slotOf[p]] =
               IF In("join", p) THEN Append(given'[p], Quit) ELSE given'[p]
  <2>1. CASE p = o
    <3>1. /\ done[o] \in Seq(Items) /\ toThread[i] \in Seq(Items) /\ task \in Items
      BY <1>2, <1>3, SeqMonotonic, QuitInItems DEF IInv, TypeOK, Items
    <3>2. done[o] \o Append(toThread[i], task) = Append(done[o] \o toThread[i], task)
      BY <3>1, PushOne
    <3>3. done[o] \o toThread[i] = given[o]
      BY <1>2 DEF IInv, Pending
    <3> QED BY <1>2, <1>4, <2>1, <3>2, <3>3
  <2>2. CASE p # o
    BY <1>4, <1>5, <1>8, <2>2 DEF IInv, Pending
  <2> QED BY <2>1, <2>2
<1>9. Pending'
  <2>1. UNCHANGED <<slotOf, pc, done>>
    BY <1>1
  <2> QED BY <1>8, <2>1 DEF Pending, In
<1>10. ASSUME NEW p \in Threads, slotOf[p] # 0, place'[slotOf[p]] = "exited"
       PROVE  In("join", p) /\ toThread'[slotOf[p]] = <<Quit>>
  <2>1. slotOf[p] \in Slots /\ slotOf[p] # i
    BY <1>1, <1>2, <1>10, SlotRange DEF IInv, TypeOK
  <2> QED BY <1>1, <1>4, <1>10, <2>1 DEF IInv, TypeOK, ExitedLast
<1>11. ExitedLast'
  BY <1>1, <1>10 DEF ExitedLast, In
<1> QED BY <1>6, <1>7, <1>9, <1>11 DEF IInv

\* The parent asks the thread to quit.
LEMMA JoinBeginNext ==
  ASSUME IInv, TypeOK', NEW c \in Clients, NEW o \in Threads, JoinBegin(c, o)
  PROVE  IInv'
<1> DEFINE i == slotOf[o]
<1>1. /\ UNCHANGED <<active, parent, created, slotOf, asleep, given, done>>
      /\ toThread' = [toThread EXCEPT ![i] = Append(@, Quit)]
      /\ pc' = [pc EXCEPT ![c] = <<"join", o>>]
      /\ place' = [place EXCEPT ![i] = IF @ = "asleep" THEN "awake" ELSE @]
  BY DEF JoinBegin, PushLast, SignalTo, history
<1>2. /\ ~In("join", o) /\ i \in Slots /\ i # 0 /\ place[i] # "exited"
      /\ pc[c] = Idle /\ parent[i] = c
  BY UsableFree DEF JoinBegin
<1>3. \A d \in Clients : pc'[d] = IF d = c THEN <<"join", o>> ELSE pc[d]
  BY <1>1 DEF IInv, TypeOK
<1>4. \A k \in Slots : toThread'[k] = IF k = i THEN Append(toThread[i], Quit)
                                               ELSE toThread[k]
  BY <1>1 DEF IInv, TypeOK
<1>5. \A p \in Threads : In("join", p)' <=> p = o \/ In("join", p)
  BY <1>2, <1>3 DEF In, Idle
<1>6. \A p \in Threads : p # o /\ slotOf[p] # 0 => slotOf[p] \in Slots /\ slotOf[p] # i
  BY <1>2, SlotRange DEF IInv, SlotsMatch
<1>7. SlotsMatch' /\ JoinedDone' /\ Unborn'
  BY <1>1 DEF IInv, SlotsMatch, JoinedDone, Unborn
<1>8. CallsOwn'
  BY <1>1, <1>2, <1>3 DEF IInv, CallsOwn
<1>9. ASSUME NEW p \in Threads, slotOf[p] # 0
      PROVE  done[p] \o toThread'[slotOf[p]] =
               IF p = o \/ In("join", p) THEN Append(given[p], Quit) ELSE given[p]
  <2>1. CASE p = o
    <3>1. /\ done[o] \in Seq(Items) /\ toThread[i] \in Seq(Items) /\ Quit \in Items
      BY <1>2, SeqMonotonic, QuitInItems DEF IInv, TypeOK, Items
    <3>2. done[o] \o Append(toThread[i], Quit) = Append(done[o] \o toThread[i], Quit)
      BY <3>1, PushOne
    <3>3. done[o] \o toThread[i] = given[o]
      BY <1>2 DEF IInv, Pending
    <3> QED BY <1>2, <1>4, <2>1, <3>2, <3>3
  <2>2. CASE p # o
    BY <1>4, <1>6, <1>9, <2>2 DEF IInv, Pending
  <2> QED BY <2>1, <2>2
<1>10. Pending'
  BY <1>1, <1>5, <1>9 DEF Pending
<1>11. ASSUME NEW p \in Threads, slotOf[p] # 0, place'[slotOf[p]] = "exited"
       PROVE  In("join", p) /\ toThread'[slotOf[p]] = <<Quit>>
  <2>1. slotOf[p] \in Slots /\ slotOf[p] # i
    BY <1>1, <1>2, <1>11, SlotRange DEF IInv, TypeOK
  <2> QED BY <1>1, <1>4, <1>11, <2>1 DEF IInv, TypeOK, ExitedLast
<1>12. ExitedLast'
  BY <1>1, <1>5, <1>11 DEF ExitedLast
<1> QED BY <1>7, <1>8, <1>10, <1>12 DEF IInv

\* The thread has exited, and gives up its slot.
LEMMA JoinEndNext ==
  ASSUME IInv, TypeOK', NEW c \in Clients, NEW o \in Threads, JoinEnd(c, o)
  PROVE  IInv'
<1> DEFINE i == slotOf[o]
<1>1. /\ UNCHANGED <<parent, toThread, created, asleep, given, done>>
      /\ active' = [active EXCEPT ![i] = FALSE]
      /\ place' = [place EXCEPT ![i] = "none"]
      /\ slotOf' = [slotOf EXCEPT ![o] = 0]
      /\ pc' = [pc EXCEPT ![c] = Idle]
      /\ pc[c] = <<"join", o>> /\ place[i] = "exited"
  BY DEF JoinEnd, Deactivate, Exited, history
<1>2. i # 0 /\ parent[i] = c /\ i \in Slots
  BY <1>1, SlotRange DEF IInv, CallsOwn
<1>3. /\ \A d \in Clients : pc'[d] = IF d = c THEN Idle ELSE pc[d]
      /\ \A p \in Threads : slotOf'[p] = IF p = o THEN 0 ELSE slotOf[p]
      /\ \A k \in Slots : active'[k] <=> k # i /\ active[k]
      /\ \A k \in Slots : place'[k] = IF k = i THEN "none" ELSE place[k]
  BY <1>1 DEF IInv, TypeOK
<1>4. \A p \in Threads : p # o /\ slotOf[p] # 0 => slotOf[p] \in Slots /\ slotOf[p] # i
  BY <1>2, SlotRange DEF IInv, SlotsMatch
<1>5. \A p \in Threads : p # o => (In("join", p)' <=> In("join", p))
  BY <1>1, <1>3 DEF In, Idle
<1>6. SlotsMatch'
  <2>1. \A k \in Slots : (\E p \in Threads : slotOf'[p] = k) <=>
                           k # i /\ \E p \in Threads : slotOf[p] = k
    BY <1>3, <1>4 DEF Slots
  <2>2. \A p, r \in Threads : slotOf'[p] = slotOf'[r] /\ slotOf'[p] # 0 => p = r
    BY <1>3 DEF IInv, SlotsMatch
  <2> QED BY <1>3, <2>1, <2>2 DEF IInv, SlotsMatch
<1>7. done[o] = given[o]
  <2>1. /\ done[o] \in Seq(Tasks) /\ given[o] \in Seq(Tasks)
        /\ toThread[i] \in Seq(Items)
    BY <1>2 DEF IInv, TypeOK, Items
  <2>2. In("join", o) /\ toThread[i] = <<Quit>>
    BY <1>1, <1>2 DEF IInv, ExitedLast
  <2>3. done[o] \o toThread[i] = Append(given[o], Quit)
    BY <1>2, <2>2 DEF IInv, Pending
  <2>4. toThread[i] # <<>> /\ Head(toThread[i]) = Quit
    BY <2>2
  <2> QED BY <2>1, <2>3, <2>4, QuitLast
<1>8. JoinedDone'
  BY <1>1, <1>3, <1>7 DEF IInv, JoinedDone
<1>9. CallsOwn'
  BY <1>1, <1>2, <1>3 DEF IInv, CallsOwn, Idle
<1>10. Unborn'
  BY <1>1, <1>2, <1>3 DEF IInv, Unborn
<1>11. Pending'
  <2> SUFFICES ASSUME NEW p \in Threads, slotOf'[p] # 0
               PROVE  done'[p] \o toThread'[slotOf'[p]] =
                        IF In("join", p)' THEN Append(given'[p], Quit) ELSE given'[p]
    BY DEF Pending
  <2>1. p # o /\ slotOf'[p] = slotOf[p] /\ (In("join", p)' <=> In("join", p))
    BY <1>3, <1>5
  <2>2. done[p] \o toThread[slotOf[p]] =
          IF In("join", p) THEN Append(given[p], Quit) ELSE given[p]
    BY <2>1 DEF IInv, Pending
  <2> QED BY <1>1, <2>1, <2>2
<1>12. ExitedLast'
  BY <1>1, <1>3, <1>4, <1>5 DEF IInv, ExitedLast
<1> QED BY <1>6, <1>8, <1>9, <1>10, <1>11, <1>12 DEF IInv

\* The steps that leave the slots alone: of a client in threadResult(), and the
\* join of a thread that has been joined, which ends the program.
LEMMA ResultNext ==
  ASSUME IInv, TypeOK', NEW c \in Clients, NEW o \in Threads,
         \/ ResultBegin(c, o) \/ ResultWait(c, o) \/ ResultTake(c, o)
         \/ JoinAgain(c, o)
  PROVE  IInv'
<1>1. UNCHANGED <<active, parent, place, toThread, created, slotOf, given, done>>
  BY DEF ResultBegin, ResultWait, ResultTake, JoinAgain, slotVars, history
<1>2. \/ pc' = pc
      \/ pc[c] = Idle /\ pc' = [pc EXCEPT ![c] = <<"result", o>>] /\ Usable(c, o)
      \/ pc[c] = <<"result", o>> /\ pc' = [pc EXCEPT ![c] = Idle]
  BY DEF ResultBegin, ResultWait, ResultTake, InResult, JoinAgain, Usable
<1>3. \A p \in Threads : In("join", p)' <=> In("join", p)
  <2>1. \A d \in Clients : d # c => pc'[d] = pc[d]
    BY <1>2 DEF IInv, TypeOK
  <2>2. pc'[c] = pc[c] \/ {pc'[c], pc[c]} \subseteq {Idle, <<"result", o>>}
    BY <1>2 DEF IInv, TypeOK
  <2>3. \A d \in Clients, p \in Threads :
          pc'[d] = <<"join", p>> <=> pc[d] = <<"join", p>>
    BY <2>1, <2>2 DEF Idle
  <2> QED BY <2>3 DEF In
<1>4. CallsOwn'
  <2> SUFFICES ASSUME NEW d \in Clients, NEW p \in Threads,
                      pc'[d] \in {<<"result", p>>, <<"join", p>>}
               PROVE  slotOf[p] # 0 /\ parent[slotOf[p]] = d
    BY <1>1 DEF CallsOwn
  <2>1. CASE pc'[d] = pc[d]
    BY <2>1 DEF IInv, CallsOwn
  <2>2. CASE pc'[d] # pc[d]
    <3>1. d = c
      BY <1>2, <2>2 DEF IInv, TypeOK
    <3>2. Usable(c, o) /\ pc'[d] = <<"result", o>>
      BY <1>2, <2>2, <3>1 DEF Idle, IInv, TypeOK
    <3>3. p = o
      BY <3>2
    <3> QED BY <3>1, <3>2, <3>3 DEF Usable
  <2> QED BY <2>1, <2>2
<1>5. SlotsMatch' /\ JoinedDone' /\ Unborn'
  BY <1>1 DEF IInv, SlotsMatch, JoinedDone, Unborn
<1>6. Pending' /\ ExitedLast'
  BY <1>1, <1>3 DEF IInv, Pending, ExitedLast
<1> QED BY <1>4, <1>5, <1>6 DEF IInv

\* The inductive invariant.
THEOREM Invariance == Spec => []IInv
<1>1. Init => IInv
  <2>1. Init => TypeOK
    <3> SUFFICES ASSUME Init PROVE TypeOK
      OBVIOUS
    <3>1. parent \in [Slots -> Clients]
      BY DEF Init
    <3>2. /\ toThread \in [Slots -> Seq(Tasks \cup {Quit})]
          /\ fromThread \in [Slots -> Seq(Tasks)]
          /\ given \in [Threads -> Seq(Tasks)] /\ done \in [Threads -> Seq(Tasks)]
          /\ got \in [Threads -> Seq(Tasks)]
      BY DEF Init
    <3>3. slotOf \in [Threads -> 0 .. MaxThreads] /\ created \in 0 .. MaxCreated
      BY DEF Init
    <3> QED BY <3>1, <3>2, <3>3 DEF Init, TypeOK
  <2>2. Init => SlotsMatch /\ JoinedDone /\ CallsOwn /\ Unborn /\ Pending /\ ExitedLast
    BY DEF Init, SlotsMatch, JoinedDone, CallsOwn, Unborn, Pending, ExitedLast, Idle,
           Slots, Threads
  <2> QED BY <2>1, <2>2 DEF IInv
<1>2. IInv /\ [Next]_vars => IInv'
  <2> SUFFICES ASSUME IInv, [Next]_vars PROVE IInv'
    OBVIOUS
  <2>1. TypeOK'
    BY TypeNext DEF IInv
  <2>2. CASE \E i \in Slots : Work(i) \/ SpuriousWake(i)
    BY <2>1, <2>2, MoveNext, EvaluateNext DEF Work
  <2>3. ASSUME NEW c \in Clients, CreateThread(c) PROVE IInv'
    BY <2>1, <2>3, CreateNext
  <2>4. ASSUME NEW c \in Clients, NEW o \in Threads,
               \/ \E kind \in {"e", "x"} : Submit(c, o, kind)
               \/ JoinBegin(c, o) \/ JoinEnd(c, o)
        PROVE  IInv'
    BY <2>1, <2>4, SubmitNext, JoinBeginNext, JoinEndNext
  <2>5. ASSUME NEW c \in Clients, NEW o \in Threads,
               \/ ResultBegin(c, o) \/ ResultWait(c, o) \/ ResultTake(c, o)
               \/ JoinAgain(c, o)
        PROVE  IInv'
    BY <2>1, <2>5, ResultNext
  <2>6. ASSUME \/ \E c \in Clients : SpuriousReturn(c)
               \/ UNCHANGED vars
        PROVE  IInv'
    <3>1. UNCHANGED <<active, parent, place, toThread, created, slotOf, pc, given, done>>
      BY <2>6 DEF SpuriousReturn, vars, slotVars, history
    <3> QED BY <2>1, <3>1 DEF IInv, SlotsMatch, JoinedDone, CallsOwn, Unborn, Pending,
               ExitedLast, In
  <2> QED BY <2>2, <2>3, <2>4, <2>5, <2>6 DEF Next, Return
<1> QED BY <1>1, <1>2, PTL DEF Spec

\* Type correctness alone.
THEOREM TypeCorrect == Spec => []TypeOK
BY Invariance, PTL DEF IInv

\* No slot of thread_state is lost or used by two threads.
THEOREM SlotsOneToOne == Spec => []SlotsMatch
BY Invariance, PTL DEF IInv

\* A thread that joinThread() has returned for did all it was given, in order.
THEOREM JoinLosesNoTask == Spec => []JoinedDone
BY Invariance, PTL DEF IInv

-----------------------------------------------------------------------------
\* The results of evaluations.

Numbered(s) == \A k \in 1 .. Len(s) : s[k][2] = k

\* The n-th task given to a thread has the number n, and the thread does them
\* in this order.
AllNumbered == \A o \in Threads : Numbered(given[o]) /\ Numbered(done[o])

\* The results of the evaluations up to some task have been received; those of
\* the later ones are in the slot of the thread.
Fetched(o, n) ==
  /\ InOrder(got[o]) /\ ToSet(got[o]) = Evaluated(done[o], 1, n)
  /\ slotOf[o] # 0 =>
       /\ InOrder(fromThread[slotOf[o]])
       /\ ToSet(fromThread[slotOf[o]]) =
            Evaluated(done[o], n + 1, Len(done[o]))

AllFetched == \A o \in Threads : \E n \in 0 .. Len(done[o]) : Fetched(o, n)

ResultInv == IInv /\ AllNumbered /\ AllFetched

\* Tasks have numbers.
LEMMA TaskNumber == \A task \in Tasks : task[2] \in Nat
BY DEF Tasks

LEMMA OrderAppend ==
  ASSUME NEW s \in Seq(Tasks), NEW x \in Tasks, InOrder(s),
         \A y \in ToSet(s) : y[2] < x[2]
  PROVE  InOrder(Append(s, x)) /\ ToSet(Append(s, x)) = ToSet(s) \cup {x}
<1> DEFINE t == Append(s, x)
           n == Len(s)
<1>1. /\ n \in Nat /\ DOMAIN s = 1 .. n /\ DOMAIN t = 1 .. n + 1
      /\ \A k \in 1 .. n : t[k] = s[k]
      /\ t[n + 1] = x
  BY AppendProperties, LenProperties
<1> HIDE DEF t, n
<1>2. InOrder(t)
  BY <1>1 DEF InOrder, ToSet
<1>3. ToSet(t) = ToSet(s) \cup {x}
  <2>1. \A k \in 1 .. n + 1 : k \in 1 .. n \/ k = n + 1
    BY <1>1
  <2>2. ToSet(t) \subseteq ToSet(s) \cup {x}
    BY <1>1, <2>1 DEF ToSet
  <2>3. ToSet(s) \cup {x} \subseteq ToSet(t)
    BY <1>1 DEF ToSet
  <2> QED BY <2>2, <2>3
<1> QED BY <1>2, <1>3 DEF t

LEMMA OrderTail ==
  ASSUME NEW s \in Seq(Tasks), s # <<>>, InOrder(s)
  PROVE  /\ Head(s) \in Tasks /\ Head(s) \in ToSet(s) /\ InOrder(Tail(s))
         /\ ToSet(Tail(s)) = ToSet(s) \ {Head(s)}
         /\ \A y \in ToSet(Tail(s)) : Head(s)[2] < y[2]
<1> DEFINE t == Tail(s)
           n == Len(s)
<1>1. /\ n \in Nat \ {0} /\ DOMAIN s = 1 .. n
      /\ Head(s) = s[1] /\ Head(s) \in Tasks
      /\ Len(t) = n - 1 /\ t \in Seq(Tasks)
      /\ \A k \in 1 .. n - 1 : t[k] = s[k + 1]
  BY HeadTailProperties, LenProperties, EmptySeq
<1>2. DOMAIN t = 1 .. n - 1
  BY <1>1, LenProperties
<1> HIDE DEF t, n
<1>3. \A k \in 1 .. n : s[k] \in Tasks /\ s[k][2] \in Nat
  BY <1>1, TaskNumber
<1>4. ASSUME NEW k \in 1 .. n - 1
      PROVE  t[k] = s[k + 1] /\ k + 1 \in 1 .. n /\ s[1][2] < s[k + 1][2]
  <2>1. 1 \in 1 .. n /\ k + 1 \in 1 .. n /\ 1 < k + 1
    BY <1>1
  <2>2. s[1][2] < s[k + 1][2]
    BY <1>1, <2>1 DEF InOrder
  <2> QED BY <1>1, <2>1, <2>2
<1>5. InOrder(t)
  <2> SUFFICES ASSUME NEW i \in 1 .. n - 1, NEW k \in 1 .. n - 1, i < k
               PROVE  t[i][2] < t[k][2]
    BY <1>2 DEF InOrder
  <2>1. i + 1 < k + 1
    BY <1>1
  <2> QED BY <1>1, <1>4, <2>1 DEF InOrder
<1>6. \A y \in ToSet(t) : Head(s)[2] < y[2]
  BY <1>1, <1>2, <1>4 DEF ToSet
<1>7. ToSet(t) = ToSet(s) \ {Head(s)}
  <2>1. ToSet(t) \subseteq ToSet(s)
    <3>1. \A k \in 1 .. n - 1 : t[k] \in ToSet(s)
      BY <1>1, <1>4 DEF ToSet
    <3> QED BY <1>2, <3>1 DEF ToSet
  <2>2. Head(s) \notin ToSet(t)
    BY <1>1, <1>3, <1>6
  <2>3. ASSUME NEW k \in 1 .. n, s[k] # Head(s) PROVE s[k] \in ToSet(t)
    <3>1. k - 1 \in 1 .. n - 1 /\ k = (k - 1) + 1
      BY <1>1, <2>3
    <3>2. s[k] = t[k - 1]
      BY <1>4, <3>1
    <3> QED BY <1>2, <3>1, <3>2 DEF ToSet
  <2> QED BY <1>1, <2>1, <2>2, <2>3 DEF ToSet
<1>8. Head(s) \in ToSet(s)
  <2>1. 1 \in DOMAIN s
    BY <1>1
  <2> QED BY <1>1, <2>1 DEF ToSet
<1> QED BY <1>1, <1>5, <1>6, <1>7, <1>8 DEF t

LEMMA EvaluatedAppend ==
  ASSUME NEW s \in Seq(Tasks), NEW x \in Tasks, NEW n \in 0 .. Len(s)
  PROVE  /\ Evaluated(Append(s, x), 1, n) = Evaluated(s, 1, n)
         /\ Evaluated(Append(s, x), n + 1, Len(s) + 1)
              = Evaluated(s, n + 1, Len(s)) \cup (IF x[3] = "e" THEN {x} ELSE {})
<1> DEFINE t == Append(s, x)
           l == Len(s)
<1>1. l \in Nat /\ (\A k \in 1 .. l : t[k] = s[k]) /\ t[l + 1] = x /\ n \in Nat
  BY AppendProperties, LenProperties
<1> HIDE DEF t, l
<1>2. Evaluated(t, 1, n) = Evaluated(s, 1, n)
  BY <1>1 DEF Evaluated, l
<1>3. \A k \in n + 1 .. l + 1 : k \in n + 1 .. l \/ k = l + 1
  BY <1>1
<1>4. n + 1 .. l \subseteq 1 .. l /\ n + 1 .. l \subseteq n + 1 .. l + 1
        /\ l + 1 \in n + 1 .. l + 1
  BY <1>1 DEF l
<1>5. Evaluated(t, n + 1, l + 1)
        \subseteq Evaluated(s, n + 1, l) \cup (IF x[3] = "e" THEN {x} ELSE {})
  BY <1>1, <1>3, <1>4 DEF Evaluated
<1>6. Evaluated(s, n + 1, l) \cup (IF x[3] = "e" THEN {x} ELSE {})
        \subseteq Evaluated(t, n + 1, l + 1)
  BY <1>1, <1>4 DEF Evaluated
<1> QED BY <1>2, <1>5, <1>6 DEF t, l

\* The first of the later evaluations splits them off at its number.
LEMMA EvaluatedNext ==
  ASSUME NEW s \in Seq(Tasks), Numbered(s), NEW n \in 0 .. Len(s),
         NEW h \in Evaluated(s, n + 1, Len(s)),
         \A y \in Evaluated(s, n + 1, Len(s)) \ {h} : h[2] < y[2]
  PROVE  /\ h[2] \in n + 1 .. Len(s)
         /\ Evaluated(s, 1, h[2]) = Evaluated(s, 1, n) \cup {h}
         /\ Evaluated(s, h[2] + 1, Len(s)) = Evaluated(s, n + 1, Len(s)) \ {h}
<1> DEFINE l == Len(s)
           m == h[2]
<1>1. l \in Nat /\ n \in Nat
  BY LenProperties
<1>2. PICK k \in n + 1 .. l : s[k] = h /\ h[3] = "e"
  BY DEF Evaluated
<1>3. \A i \in 1 .. l : s[i][2] = i
  BY DEF Numbered
<1>4. m = k /\ m \in n + 1 .. l /\ s[m] = h
  BY <1>1, <1>2, <1>3
<1> HIDE DEF l, m
<1>5. ASSUME NEW i \in n + 1 .. l, s[i][3] = "e", i # m PROVE m < i
  <2>1. s[i] # h /\ s[i][2] = i
    BY <1>1, <1>3, <1>4, <1>5 DEF m
  <2>2. s[i] \in Evaluated(s, n + 1, l)
    BY <1>5 DEF Evaluated
  <2> QED BY <2>1, <2>2 DEF l, m
<1>6. Evaluated(s, 1, m) = Evaluated(s, 1, n) \cup {h}
  <2>1. ASSUME NEW i \in 1 .. m, s[i][3] = "e" PROVE i \in 1 .. n \/ i = m
    BY <1>1, <1>4, <1>5, <2>1
  <2>2. 1 .. n \subseteq 1 .. m /\ m \in 1 .. m
    BY <1>1, <1>4
  <2>3. Evaluated(s, 1, m) \subseteq Evaluated(s, 1, n) \cup {h}
    BY <1>4, <2>1 DEF Evaluated
  <2>4. Evaluated(s, 1, n) \cup {h} \subseteq Evaluated(s, 1, m)
    BY <1>2, <1>4, <2>2 DEF Evaluated
  <2> QED BY <2>3, <2>4
<1>7. Evaluated(s, m + 1, l) = Evaluated(s, n + 1, l) \ {h}
  <2>1. ASSUME NEW i \in m + 1 .. l PROVE i \in n + 1 .. l /\ s[i] # h
    <3>1. i \in n + 1 .. l /\ i # m /\ i \in 1 .. l
      BY <1>1, <1>4, <2>1
    <3> QED BY <1>3, <3>1 DEF m
  <2>2. ASSUME NEW i \in n + 1 .. l, s[i][3] = "e", s[i] # h PROVE i \in m + 1 .. l
    <3>1. m < i
      BY <1>4, <1>5, <2>2
    <3> QED BY <1>1, <1>4, <3>1
  <2>3. Evaluated(s, m + 1, l) \subseteq Evaluated(s, n + 1, l) \ {h}
    BY <2>1 DEF Evaluated
  <2>4. Evaluated(s, n + 1, l) \ {h} \subseteq Evaluated(s, m + 1, l)
    BY <2>2 DEF Evaluated
  <2> QED BY <2>3, <2>4
<1> QED BY <1>4, <1>6, <1>7 DEF l, m

\* The task a thread takes from its queue is the next that it was given.
LEMMA NextTask ==
  ASSUME IInv, AllNumbered, NEW i \in Slots, Evaluate(i), NEW o \in Threads,
         slotOf[o] = i
  PROVE  Head(toThread[i]) \in Tasks /\ Head(toThread[i])[2] = Len(done[o]) + 1
<1> DEFINE task == Head(toThread[i])
           n == Len(done[o]) + 1
           g == given[o]
<1>1. /\ toThread[i] \in Seq(Items) /\ toThread[i] # <<>> /\ task # Quit
      /\ done[o] \in Seq(Items) /\ g \in Seq(Tasks) /\ i # 0
  <2>1. toThread[i] # <<>> /\ task # Quit
    BY DEF Evaluate
  <2>2. toThread[i] \in Seq(Items) /\ done[o] \in Seq(Tasks) /\ g \in Seq(Tasks)
    BY DEF IInv, TypeOK, Items
  <2>3. done[o] \in Seq(Items)
    BY <2>2, SeqMonotonic, QuitInItems
  <2> QED BY <2>1, <2>2, <2>3 DEF Slots
<1>2. task \in Tasks /\ Len(toThread[i]) \in Nat \ {0} /\ task = toThread[i][1]
  BY <1>1, HeadTailProperties, LenProperties, EmptySeq DEF Items
<1>3. (done[o] \o toThread[i])[n] = task /\ n \in 1 .. Len(done[o] \o toThread[i])
  <2>1. Len(done[o]) \in Nat
    BY <1>1, LenProperties
  <2>2. /\ Len(done[o] \o toThread[i]) = Len(done[o]) + Len(toThread[i])
        /\ \A k \in 1 .. Len(done[o]) + Len(toThread[i]) :
             (done[o] \o toThread[i])[k] =
               IF k <= Len(done[o]) THEN done[o][k] ELSE toThread[i][k - Len(done[o])]
    BY <1>1, ConcatProperties
  <2>3. \A x \in Nat, y \in Nat \ {0} :
          x + 1 \in 1 .. x + y /\ ~(x + 1 <= x) /\ (x + 1) - x = 1
    OBVIOUS
  <2>4. /\ n \in 1 .. Len(done[o]) + Len(toThread[i])
        /\ ~(n <= Len(done[o])) /\ n - Len(done[o]) = 1
    BY <1>2, <2>1, <2>3
  <2> HIDE DEF n, task
  <2> QED BY <1>2, <2>2, <2>4
<1>4. done[o] \o toThread[i] \in {g, Append(g, Quit)}
  BY <1>1 DEF IInv, Pending
<1>5. n \in 1 .. Len(g) /\ g[n] = task
  <2>1. /\ Len(g) \in Nat /\ Len(Append(g, Quit)) = Len(g) + 1
        /\ \A k \in 1 .. Len(g) : Append(g, Quit)[k] = g[k]
        /\ Append(g, Quit)[Len(g) + 1] = Quit
    <3>1. g \in Seq(Items) /\ Quit \in Items
      BY <1>1, SeqMonotonic, QuitInItems
    <3> QED BY <1>1, <3>1, AppendProperties, LenProperties
  <2>2. n \in Nat /\ n # 0
    BY <1>1, LenProperties
  <2> DEFINE c == done[o] \o toThread[i]
  <2>3. c[n] = task /\ n \in 1 .. Len(c) /\ (c = g \/ c = Append(g, Quit))
    BY <1>3, <1>4
  <2> HIDE DEF c, n, g, task
  <2>4. CASE c = g
    BY <2>3, <2>4
  <2>5. CASE c = Append(g, Quit)
    <3>1. n # Len(g) + 1
      BY <1>1, <2>1, <2>3, <2>5
    <3>2. n \in 1 .. Len(g)
      BY <2>1, <2>2, <2>3, <2>5, <3>1
    <3> QED BY <2>1, <2>3, <2>5, <3>2
  <2> QED BY <2>3, <2>4, <2>5
<1>6. g[n][2] = n
  BY <1>5 DEF AllNumbered, Numbered
<1> QED BY <1>2, <1>5, <1>6

\* Steps that neither do a task nor change the results or the slots in use.
LEMMA ResultsKept ==
  ASSUME ResultInv, UNCHANGED <<done, got, slotOf>>, AllNumbered',
         \A o \in Threads : slotOf[o] # 0 =>
           fromThread'[slotOf[o]] = fromThread[slotOf[o]]
  PROVE  AllFetched'
<1> SUFFICES ASSUME NEW o \in Threads
             PROVE  \E n \in 0 .. Len(done[o]) : Fetched(o, n)'
  BY DEF AllFetched
<1>1. PICK n \in 0 .. Len(done[o]) : Fetched(o, n)
  BY DEF ResultInv, AllFetched
<1>2. Fetched(o, n)'
  BY <1>1 DEF Fetched
<1> QED BY <1>2

LEMMA ResultsEvaluate ==
  ASSUME ResultInv, NEW i \in Slots, Evaluate(i)
  PROVE  AllNumbered' /\ AllFetched'
<1> DEFINE task == Head(toThread[i])
<1> USE DEF ResultInv
<1>1. /\ UNCHANGED <<slotOf, given, got>>
      /\ fromThread' = IF task[3] = "e"
                         THEN [fromThread EXCEPT ![i] = Append(@, task)]
                         ELSE fromThread
      /\ done' = [o \in Threads |-> IF slotOf[o] = i THEN Append(done[o], task)
                                                     ELSE done[o]]
  BY DEF Evaluate
<1>2. \A k \in Slots :
        fromThread'[k] = IF k = i /\ task[3] = "e" THEN Append(fromThread[k], task)
                                                   ELSE fromThread[k]
  BY <1>1 DEF IInv, TypeOK
<1>3. \A o \in Threads : slotOf[o] = i => task \in Tasks /\ task[2] = Len(done[o]) + 1
  BY NextTask
<1> HIDE DEF task
<1>4. ASSUME NEW o \in Threads
      PROVE  Numbered(given'[o]) /\ Numbered(done'[o])
  <2>1. CASE slotOf[o] = i
    <3> DEFINE n == Len(done[o])
               t == Append(done[o], task)
    <3>1. done[o] \in Seq(Tasks) /\ task \in Tasks /\ task[2] = n + 1
      BY <1>3, <2>1 DEF IInv, TypeOK
    <3>2. /\ n \in Nat /\ Len(t) = n + 1 /\ t[n + 1] = task
          /\ \A k \in 1 .. n : t[k] = done[o][k]
      BY <3>1, AppendProperties, LenProperties
    <3>3. \A k \in 1 .. n : done[o][k][2] = k
      BY DEF AllNumbered, Numbered
    <3> HIDE DEF n, t
    <3>4. Numbered(t)
      BY <3>1, <3>2, <3>3 DEF Numbered
    <3> QED BY <1>1, <2>1, <3>4 DEF AllNumbered, t
  <2>2. CASE slotOf[o] # i
    BY <1>1, <2>2 DEF AllNumbered
  <2> QED BY <2>1, <2>2
<1>5. ASSUME NEW o \in Threads
      PROVE  \E n \in 0 .. Len(done'[o]) : Fetched(o, n)'
  <2>1. PICK n \in 0 .. Len(done[o]) : Fetched(o, n)
    BY DEF AllFetched
  <2>2. CASE slotOf[o] = i
    <3> DEFINE l == Len(done[o])
               q == fromThread[i]
    <3>1. /\ done[o] \in Seq(Tasks) /\ q \in Seq(Tasks) /\ l \in Nat
          /\ task \in Tasks /\ task[2] = l + 1 /\ i # 0
      BY <1>3, <2>2, LenProperties DEF IInv, TypeOK, Slots
    <3>2. /\ Evaluated(done'[o], 1, n) = Evaluated(done[o], 1, n)
          /\ Evaluated(done'[o], n + 1, l + 1)
               = Evaluated(done[o], n + 1, l) \cup (IF task[3] = "e" THEN {task} ELSE {})
      BY <1>1, <2>2, <3>1, EvaluatedAppend
    <3>3. Len(done'[o]) = l + 1
      BY <1>1, <2>2, <3>1, AppendProperties
    <3>4. InOrder(q) /\ ToSet(q) = Evaluated(done[o], n + 1, l)
      BY <2>1, <2>2, <3>1 DEF Fetched
    <3>5. ASSUME NEW y \in ToSet(q) PROVE y[2] < task[2]
      <4>1. PICK k \in n + 1 .. l : y = done[o][k]
        BY <3>4 DEF Evaluated
      <4>2. k \in 1 .. l
        BY <3>1, <4>1
      <4>3. y[2] = k
        BY <4>1, <4>2 DEF AllNumbered, Numbered
      <4> QED BY <3>1, <4>2, <4>3
    <3>6. /\ InOrder(fromThread'[i])
          /\ ToSet(fromThread'[i]) = Evaluated(done'[o], n + 1, l + 1)
      <4>1. CASE task[3] = "e"
        BY <1>2, <3>1, <3>2, <3>4, <3>5, <4>1, OrderAppend
      <4>2. CASE task[3] # "e"
        BY <1>2, <3>2, <3>4, <4>2
      <4> QED BY <4>1, <4>2
    <3>7. Fetched(o, n)'
      BY <1>1, <2>1, <2>2, <3>2, <3>3, <3>6 DEF Fetched
    <3>8. n \in 0 .. Len(done'[o])
      BY <3>1, <3>3
    <3> QED BY <3>7, <3>8
  <2>3. CASE slotOf[o] # i
    <3>1. done'[o] = done[o]
      BY <1>1, <2>3
    <3>2. slotOf[o] # 0 => fromThread'[slotOf[o]] = fromThread[slotOf[o]]
      BY <1>2, <2>3, SlotRange DEF IInv
    <3>3. Fetched(o, n)'
      BY <1>1, <2>1, <3>1, <3>2 DEF Fetched
    <3> QED BY <3>1, <3>3
  <2> QED BY <2>2, <2>3
<1> QED BY <1>4, <1>5 DEF AllNumbered, AllFetched

LEMMA ResultsCreate ==
  ASSUME ResultInv, NEW c \in Clients, CreateThread(c)
  PROVE  AllNumbered' /\ AllFetched'
<1> USE DEF ResultInv
<1> DEFINE o == created + 1
<1>1. PICK i \in Slots : /\ ~active[i]
                         /\ fromThread' = [fromThread EXCEPT ![i] = <<>>]
                         /\ slotOf' = [slotOf EXCEPT ![o] = i]
  BY DEF CreateThread, FirstFree, EmptyQueues
<1>2. /\ o \in Threads /\ o > created /\ UNCHANGED <<given, done, got>>
  BY DEF CreateThread, history, IInv, TypeOK, Threads
<1>3. done[o] = <<>>
  BY <1>2 DEF IInv, Unborn
<1>4. \A p \in Threads : slotOf[p] # i
  BY <1>1 DEF IInv, SlotsMatch
<1>5. /\ \A p \in Threads : slotOf'[p] = IF p = o THEN i ELSE slotOf[p]
      /\ \A k \in Slots : fromThread'[k] = IF k = i THEN <<>> ELSE fromThread[k]
  BY <1>1, <1>2 DEF IInv, TypeOK
<1> HIDE DEF o
<1>6. ASSUME NEW p \in Threads
      PROVE  \E n \in 0 .. Len(done[p]) : Fetched(p, n)'
  <2>1. PICK n \in 0 .. Len(done[p]) : Fetched(p, n)
    BY DEF AllFetched
  <2>2. CASE p = o
    <3>1. n = 0 /\ Len(done[p]) = 0
      BY <1>3, <2>1, <2>2
    <3>2. ToSet(<<>>) = {} /\ InOrder(<<>>) /\ Evaluated(done[p], 1, 0) = {}
      BY DEF ToSet, InOrder, Evaluated
    <3>3. fromThread'[i] = <<>> /\ slotOf'[p] = i
      BY <1>5, <2>2
    <3>4. Evaluated(done[p], n + 1, Len(done[p])) = {}
      BY <3>1 DEF Evaluated
    <3>5. Fetched(p, n)'
      BY <1>2, <2>1, <3>2, <3>3, <3>4 DEF Fetched
    <3> QED BY <2>1, <3>5
  <2>3. CASE p # o
    <3>1. slotOf'[p] = slotOf[p]
            /\ (slotOf[p] # 0 => fromThread'[slotOf[p]] = fromThread[slotOf[p]])
      BY <1>4, <1>5, <2>3, SlotRange DEF IInv
    <3> QED BY <1>2, <2>1, <3>1 DEF Fetched
  <2> QED BY <2>2, <2>3
<1> QED BY <1>2, <1>6 DEF AllNumbered, AllFetched

LEMMA ResultsSubmit ==
  ASSUME ResultInv, NEW c \in Clients, NEW o \in Threads, NEW kind \in {"e", "x"},
         Submit(c, o, kind)
  PROVE  AllNumbered' /\ AllFetched'
<1> USE DEF ResultInv
<1> DEFINE l == Len(given[o])
           task == <<o, l + 1, kind>>
           t == Append(given[o], task)
<1>1. /\ UNCHANGED <<done, got, slotOf, fromThread>>
      /\ given' = [given EXCEPT ![o] = t]
  BY DEF Submit
<1>2. given[o] \in Seq(Tasks) /\ l < MaxTasks
  BY DEF Submit, IInv, TypeOK
<1>3. task \in Tasks /\ task[2] = l + 1
  BY <1>2, LenProperties DEF Tasks
<1>4. /\ l \in Nat /\ Len(t) = l + 1 /\ t[l + 1] = task
      /\ \A k \in 1 .. l : t[k] = given[o][k]
  BY <1>2, <1>3, AppendProperties, LenProperties
<1>5. \A k \in 1 .. l : given[o][k][2] = k
  BY DEF AllNumbered, Numbered
<1> HIDE DEF t, task, l
<1>6. Numbered(t)
  BY <1>3, <1>4, <1>5 DEF Numbered
<1>7. AllNumbered'
  BY <1>1, <1>6 DEF AllNumbered, IInv, TypeOK
<1> QED BY <1>1, <1>7, ResultsKept

\* A client takes the first of the results that are left.
LEMMA ResultsTake ==
  ASSUME ResultInv, NEW c \in Clients, NEW o \in Threads, ResultTake(c, o)
  PROVE  AllNumbered' /\ AllFetched'
<1> USE DEF ResultInv
<1> DEFINE i == slotOf[o]
           q == fromThread[i]
           h == Head(q)
           s == done[o]
<1>1. /\ UNCHANGED <<slotOf, given, done>> /\ q # <<>> /\ pc[c] = <<"result", o>>
      /\ got' = [got EXCEPT ![o] = Append(@, h)]
      /\ fromThread' = [fromThread EXCEPT ![i] = Tail(@)]
  BY DEF ResultTake, InResult
<1>2. i # 0 /\ i \in Slots
  BY <1>1, SlotRange DEF IInv, CallsOwn
<1>3. /\ q \in Seq(Tasks) /\ s \in Seq(Tasks) /\ got[o] \in Seq(Tasks)
      /\ Len(s) \in Nat
  BY <1>2, LenProperties DEF IInv, TypeOK
<1>4. /\ \A p \in Threads : got'[p] = IF p = o THEN Append(got[o], h) ELSE got[p]
      /\ \A k \in Slots : fromThread'[k] = IF k = i THEN Tail(q) ELSE fromThread[k]
  BY <1>1 DEF IInv, TypeOK
<1> HIDE DEF h, q
<1>5. AllNumbered'
  BY <1>1 DEF AllNumbered
<1>6. ASSUME NEW p \in Threads
      PROVE  \E n \in 0 .. Len(done[p]) : Fetched(p, n)'
  <2>1. PICK n \in 0 .. Len(done[p]) : Fetched(p, n)
    BY DEF AllFetched
  <2>2. CASE p = o
    <3>1. /\ InOrder(q) /\ ToSet(q) = Evaluated(s, n + 1, Len(s))
          /\ InOrder(got[o]) /\ ToSet(got[o]) = Evaluated(s, 1, n)
      BY <1>2, <2>1, <2>2 DEF Fetched, q
    <3>2. /\ h \in Tasks /\ h \in ToSet(q) /\ InOrder(Tail(q))
          /\ ToSet(Tail(q)) = ToSet(q) \ {h}
          /\ \A y \in ToSet(Tail(q)) : h[2] < y[2]
      BY <1>1, <1>3, <3>1, OrderTail DEF h, q
    <3>3. Numbered(s)
      BY DEF AllNumbered
    <3>4. PICK m \in n + 1 .. Len(s) :
            /\ m = h[2]
            /\ Evaluated(s, 1, m) = Evaluated(s, 1, n) \cup {h}
            /\ Evaluated(s, m + 1, Len(s)) = Evaluated(s, n + 1, Len(s)) \ {h}
      <4>1. n \in 0 .. Len(s) /\ h \in Evaluated(s, n + 1, Len(s))
              /\ \A y \in Evaluated(s, n + 1, Len(s)) \ {h} : h[2] < y[2]
        BY <2>1, <2>2, <3>1, <3>2
      <4> HIDE DEF s
      <4> QED BY <1>3, <3>3, <4>1, EvaluatedNext
    <3>5. ASSUME NEW y \in ToSet(got[o]) PROVE y[2] < m
      <4>1. PICK k \in 1 .. n : y = s[k]
        BY <3>1 DEF Evaluated
      <4>2. k \in 1 .. Len(s)
        BY <1>3, <2>1, <2>2, <4>1
      <4>3. y[2] = k
        BY <3>3, <4>1, <4>2 DEF Numbered
      <4> QED BY <1>3, <2>1, <2>2, <3>4, <4>2, <4>3
    <3>6. InOrder(Append(got[o], h)) /\ ToSet(Append(got[o], h)) = ToSet(got[o]) \cup {h}
      BY <1>3, <3>1, <3>2, <3>4, <3>5, OrderAppend
    <3>7. Fetched(o, m)'
      BY <1>1, <1>2, <1>4, <3>1, <3>2, <3>4, <3>6 DEF Fetched
    <3>8. m \in 0 .. Len(done[o])
      BY <1>3, <2>1, <2>2, <3>4
    <3> QED BY <2>2, <3>7, <3>8
  <2>3. CASE p # o
    <3>1. slotOf[p] # 0 => fromThread'[slotOf[p]] = fromThread[slotOf[p]]
      BY <1>2, <1>4, <2>3, SlotRange DEF IInv, SlotsMatch
    <3> QED BY <1>1, <1>4, <2>1, <2>3, <3>1 DEF Fetched
  <2> QED BY <2>2, <2>3
<1>7. AllFetched'
  BY <1>1, <1>6 DEF AllFetched
<1> QED BY <1>5, <1>7

LEMMA ResultsJoinEnd ==
  ASSUME ResultInv, NEW c \in Clients, NEW o \in Threads, JoinEnd(c, o)
  PROVE  AllNumbered' /\ AllFetched'
<1> USE DEF ResultInv
<1>1. /\ UNCHANGED <<fromThread, given, done, got>>
      /\ slotOf' = [slotOf EXCEPT ![o] = 0]
  BY DEF JoinEnd, history
<1>2. \A p \in Threads : slotOf'[p] \in {slotOf[p], 0}
  BY <1>1 DEF IInv, TypeOK
<1>3. ASSUME NEW p \in Threads
      PROVE  \E n \in 0 .. Len(done[p]) : Fetched(p, n)'
  <2>1. PICK n \in 0 .. Len(done[p]) : Fetched(p, n)
    BY DEF AllFetched
  <2> QED BY <1>1, <1>2, <2>1 DEF Fetched
<1> QED BY <1>1, <1>3 DEF AllNumbered, AllFetched

LEMMA ResultsStep ==
  ASSUME ResultInv, [Next]_vars
  PROVE  AllNumbered' /\ AllFetched'
<1>1. ASSUME UNCHANGED <<slotOf, fromThread, given, done, got>>
      PROVE  AllNumbered' /\ AllFetched'
  <2>1. AllNumbered'
    BY <1>1 DEF ResultInv, AllNumbered
  <2> QED BY <1>1, <2>1, ResultsKept
<1>2. ASSUME NEW i \in Slots, Work(i) \/ SpuriousWake(i)
      PROVE  AllNumbered' /\ AllFetched'
  BY <1>1, <1>2, ResultsEvaluate DEF Work, Lock, Sleep, Exit, SpuriousWake, history
<1>3. ASSUME NEW c \in Clients, NEW o \in Threads,
             \/ ResultBegin(c, o) \/ ResultWait(c, o) \/ JoinBegin(c, o)
             \/ JoinAgain(c, o) \/ SpuriousReturn(c)
      PROVE  AllNumbered' /\ AllFetched'
  BY <1>1, <1>3 DEF ResultBegin, ResultWait, JoinBegin, JoinAgain, SpuriousReturn,
                    slotVars, history
<1>4. ASSUME NEW c \in Clients, SpuriousReturn(c) PROVE AllNumbered' /\ AllFetched'
  BY <1>1, <1>4 DEF SpuriousReturn, slotVars, history
<1>5. CASE UNCHANGED vars
  BY <1>1, <1>5 DEF vars, slotVars, history
<1> QED BY <1>2, <1>3, <1>4, <1>5, ResultsCreate, ResultsSubmit, ResultsTake,
           ResultsJoinEnd DEF Next, Return

\* threadResult() returns the results of a thread's own evaluations, all of
\* them and in the order in which they were given.
THEOREM ResultsOrdered == Spec => []ResultsInOrder
<1>1. Init => AllNumbered /\ AllFetched
  <2> SUFFICES ASSUME Init PROVE AllNumbered /\ AllFetched
    OBVIOUS
  <2>1. ToSet(<<>>) = {} /\ InOrder(<<>>) /\ Evaluated(<<>>, 1, 0) = {}
    BY DEF ToSet, InOrder, Evaluated
  <2>2. \A o \in Threads : Fetched(o, 0) /\ done[o] = <<>>
    BY <2>1 DEF Init, Fetched
  <2>3. \A o \in Threads : 0 \in 0 .. Len(done[o])
    BY <2>2
  <2>4. AllNumbered
    BY DEF Init, AllNumbered, Numbered
  <2> QED BY <2>2, <2>3, <2>4 DEF AllFetched
<1>2. IInv /\ IInv' /\ (AllNumbered /\ AllFetched) /\ [Next]_vars
        => (AllNumbered /\ AllFetched)'
  BY ResultsStep DEF ResultInv
<1>3. AllNumbered /\ AllFetched => ResultsInOrder
  BY DEF AllFetched, Fetched, ResultsInOrder
<1> QED BY <1>1, <1>2, <1>3, Invariance, PTL DEF Spec
==============================================================================
