------------------------- MODULE InterpreterThreads --------------------------
(***************************************************************************)
(* Interpreter threads: the slots of thread_state in src/shared.cc, the    *)
(* loop interpreter_thread(), and the commands createThread, threadEval,   *)
(* threadExec, threadResult and joinThread.  An interpreter thread keeps   *)
(* the lock of its slot from when it wakes until it sleeps or exits, also  *)
(* during evaluations; the critical sections of clients are single steps.  *)
(***************************************************************************)
EXTENDS Naturals, Sequences, SequencesExt

CONSTANTS Clients,
          MaxThreads,   \* MAX_THREADS
          MaxCreated,   \* bound on the threads created, for model checking
          MaxTasks      \* bound on the tasks given to one thread

ASSUME MaxThreadsAssumption == MaxThreads \in Nat \ {0}
ASSUME ClientsAssumption == Clients # {}
ASSUME BoundsAssumption == MaxCreated \in Nat /\ MaxTasks \in Nat

Slots == 1 .. MaxThreads
Threads == 1 .. MaxCreated    \* InterpreterThread objects, as created

VARIABLES active,       \* ThreadState::active, and running, which agrees
          parent,
          toThread, fromThread,
          place,        \* each slot's thread: none, awake, asleep, busy (it has
                        \* the lock) or exited
          created,      \* how many threads have been created
          slotOf,       \* InterpreterThread::ts; 0 is NULL
          pc,           \* the call each client is in, and for which thread
          asleep,       \* the clients blocked on from_cond
          aborted,      \* a NULL pointer has ended the program
          given,        \* history: the tasks given to each thread
          done,         \* history: those it has evaluated
          got           \* history: the results received from it

slotVars == <<active, parent, toThread, fromThread, place>>
history == <<given, done, got>>
vars == <<slotVars, created, slotOf, pc, asleep, aborted, history>>

\* What is pushed to a thread: its n-th task, evaluated for its result ("e") or
\* not ("x"), or the request to quit.
Tasks == Threads \X (1 .. MaxTasks) \X {"e", "x"}
Quit == <<0, 0, "q">>
Evals(tasks) == SelectSeq(tasks, LAMBDA task : task[3] = "e")

Idle == <<"idle">>

Init ==
  /\ active = [i \in Slots |-> FALSE]
  /\ parent = [i \in Slots |-> CHOOSE c \in Clients : TRUE]
  /\ toThread = [i \in Slots |-> <<>>] /\ fromThread = [i \in Slots |-> <<>>]
  /\ place = [i \in Slots |-> "none"]
  /\ created = 0
  /\ slotOf = [o \in Threads |-> 0]
  /\ pc = [c \in Clients |-> Idle]
  /\ asleep = {}
  /\ aborted = FALSE
  /\ given = [o \in Threads |-> <<>>]
  /\ done = [o \in Threads |-> <<>>]
  /\ got = [o \in Threads |-> <<>>]

LockFree(i) == place[i] # "busy"

-----------------------------------------------------------------------------
\* newThread() takes the first free slot and empties its queues, in which the
\* last thread there has left its quit request and results nobody fetched.
\* StaleTasks, like the other variants that no action uses, is a bug for the
\* properties to find.
FirstSlot(i) == i = 1
FirstFree(i) == ~active[i] /\ \A k \in 1 .. i - 1 : active[k]

StaleTasks(i) == fromThread' = [fromThread EXCEPT ![i] = <<>>]
                   /\ UNCHANGED toThread
StaleResults(i) == toThread' = [toThread EXCEPT ![i] = <<>>]
                     /\ UNCHANGED fromThread
EmptyQueues(i) == toThread' = [toThread EXCEPT ![i] = <<>>]
                    /\ fromThread' = [fromThread EXCEPT ![i] = <<>>]

CreateThread(c) ==
  /\ pc[c] = Idle /\ created < MaxCreated
  /\ \E i \in Slots :
       /\ FirstFree(i)
       /\ active' = [active EXCEPT ![i] = TRUE]
       /\ parent' = [parent EXCEPT ![i] = c]
       /\ EmptyQueues(i)
       /\ place' = [place EXCEPT ![i] = "awake"]
       /\ slotOf' = [slotOf EXCEPT ![created + 1] = i]
  /\ created' = created + 1
  /\ UNCHANGED <<pc, asleep, aborted, history>>

-----------------------------------------------------------------------------
\* interpreter_thread().
Lock(i) ==
  /\ place[i] = "awake"
  /\ place' = [place EXCEPT ![i] = "busy"]
  /\ UNCHANGED <<active, parent, toThread, fromThread, created, slotOf, pc,
                 asleep, aborted, history>>

Sleep(i) ==
  /\ place[i] = "busy" /\ toThread[i] = <<>>
  /\ place' = [place EXCEPT ![i] = "asleep"]
  /\ UNCHANGED <<active, parent, toThread, fromThread, created, slotOf, pc,
                 asleep, aborted, history>>

\* from_cond.signal(): only the slot's parent may be waiting there.
WakeNobody(i) == UNCHANGED asleep
Waiting(i) == {c \in asleep : slotOf[pc[c][2]] = i}
SignalFrom(i) ==
  IF Waiting(i) = {} THEN UNCHANGED asleep
                     ELSE \E c \in Waiting(i) : asleep' = asleep \ {c}

\* A task is evaluated, and only threadEval() has a result.
Evaluate(i) ==
  LET task == Head(toThread[i]) IN
  /\ place[i] = "busy" /\ toThread[i] # <<>> /\ task # Quit
  /\ toThread' = [toThread EXCEPT ![i] = Tail(@)]
  /\ fromThread' = IF task[3] = "e"
                     THEN [fromThread EXCEPT ![i] = Append(@, task)]
                     ELSE fromThread
  /\ SignalFrom(i)
  /\ done' = [o \in Threads |-> IF slotOf[o] = i THEN Append(done[o], task)
                                                 ELSE done[o]]
  /\ UNCHANGED <<active, parent, place, created, slotOf, pc, aborted, given,
                 got>>

\* The quit request is left in the queue.
Exit(i) ==
  /\ place[i] = "busy" /\ toThread[i] # <<>> /\ Head(toThread[i]) = Quit
  /\ place' = [place EXCEPT ![i] = "exited"]
  /\ UNCHANGED <<active, parent, toThread, fromThread, created, slotOf, pc,
                 asleep, aborted, history>>

SpuriousWake(i) ==
  /\ place[i] = "asleep"
  /\ place' = [place EXCEPT ![i] = "awake"]
  /\ UNCHANGED <<active, parent, toThread, fromThread, created, slotOf, pc,
                 asleep, aborted, history>>

-----------------------------------------------------------------------------
\* c may use o: only its parent may, while it is running.
Usable(c, o) ==
  /\ pc[c] = Idle
  /\ slotOf[o] # 0 /\ parent[slotOf[o]] = c /\ active[slotOf[o]]
  /\ LockFree(slotOf[o])

\* to_thread.push() and to_cond.signal().
PushFirst(i, item) == toThread' = [toThread EXCEPT ![i] = <<item>> \o @]
PushLast(i, item) == toThread' = [toThread EXCEPT ![i] = Append(@, item)]
NoSignal(i) == UNCHANGED place
SignalTo(i) ==
  place' = [place EXCEPT ![i] = IF @ = "asleep" THEN "awake" ELSE @]

\* threadEval() and threadExec().
Submit(c, o, kind) ==
  /\ Usable(c, o) /\ Len(given[o]) < MaxTasks
  /\ LET task == <<o, Len(given[o]) + 1, kind>> IN
     /\ PushLast(slotOf[o], task)
     /\ given' = [given EXCEPT ![o] = Append(@, task)]
  /\ SignalTo(slotOf[o])
  /\ UNCHANGED <<active, parent, fromThread, created, slotOf, pc, asleep,
                 aborted, done, got>>

\* threadResult() waits until there is a result, even if none is to come.
ResultBegin(c, o) ==
  /\ Usable(c, o)
  /\ pc' = [pc EXCEPT ![c] = <<"result", o>>]
  /\ UNCHANGED <<slotVars, created, slotOf, asleep, aborted, history>>

InResult(c, o) ==
  pc[c] = <<"result", o>> /\ c \notin asleep /\ LockFree(slotOf[o])

ResultWait(c, o) ==
  /\ InResult(c, o)
  /\ fromThread[slotOf[o]] = <<>>
  /\ asleep' = asleep \cup {c}
  /\ UNCHANGED <<slotVars, created, slotOf, pc, aborted, history>>

ResultTake(c, o) ==
  LET i == slotOf[o] IN
  /\ InResult(c, o)
  /\ fromThread[i] # <<>>
  /\ got' = [got EXCEPT ![o] = Append(@, Head(fromThread[i]))]
  /\ fromThread' = [fromThread EXCEPT ![i] = Tail(@)]
  /\ pc' = [pc EXCEPT ![c] = Idle]
  /\ UNCHANGED <<active, parent, toThread, place, created, slotOf, asleep,
                 aborted, given, done>>

SpuriousReturn(c) ==
  /\ c \in asleep
  /\ asleep' = asleep \ {c}
  /\ UNCHANGED <<slotVars, created, slotOf, pc, aborted, history>>

\* joinThread() asks the thread to quit and waits until it has; the slot is
\* free after that and the InterpreterThread without one.
JoinBegin(c, o) ==
  /\ Usable(c, o)
  /\ PushLast(slotOf[o], Quit)
  /\ SignalTo(slotOf[o])
  /\ pc' = [pc EXCEPT ![c] = <<"join", o>>]
  /\ UNCHANGED <<active, parent, fromThread, created, slotOf, asleep, aborted,
                 history>>

NoJoin(i) == TRUE
Exited(i) == place[i] = "exited"

KeepActive(i) == UNCHANGED active
Deactivate(i) == active' = [active EXCEPT ![i] = FALSE]

JoinEnd(c, o) ==
  LET i == slotOf[o] IN
  /\ pc[c] = <<"join", o>> /\ Exited(i)
  /\ Deactivate(i)
  /\ place' = [place EXCEPT ![i] = "none"]
  /\ slotOf' = [slotOf EXCEPT ![o] = 0]
  /\ pc' = [pc EXCEPT ![c] = Idle]
  /\ UNCHANGED <<parent, toThread, fromThread, created, asleep, aborted,
                 history>>

\* The lock of a thread that has been joined before is looked for behind NULL.
JoinAgain(c, o) ==
  /\ pc[c] = Idle /\ o <= created /\ slotOf[o] = 0
  /\ aborted' = TRUE
  /\ UNCHANGED <<slotVars, created, slotOf, pc, asleep, history>>

Work(i) == Lock(i) \/ Sleep(i) \/ Evaluate(i) \/ Exit(i)
Return(c) ==
  \E o \in Threads : ResultTake(c, o) \/ ResultWait(c, o) \/ JoinEnd(c, o)

Next ==
  /\ ~aborted
  /\ \/ \E i \in Slots : Work(i) \/ SpuriousWake(i)
     \/ \E c \in Clients :
          \/ CreateThread(c) \/ Return(c) \/ SpuriousReturn(c)
          \/ \E o \in Threads :
               \/ \E kind \in {"e", "x"} : Submit(c, o, kind)
               \/ ResultBegin(c, o) \/ JoinBegin(c, o) \/ JoinAgain(c, o)

Spec == Init /\ [][Next]_vars

\* Evaluations end, and no client is kept from a lock for ever.
FairSpec ==
  /\ Spec
  /\ \A i \in Slots : WF_vars(~aborted /\ Work(i))
  /\ \A c \in Clients : SF_vars(~aborted /\ Return(c))

-----------------------------------------------------------------------------
\* The fields keep their types; a slot without a thread is not active.
TypeOK ==
  /\ active \in [Slots -> BOOLEAN]
  /\ parent \in [Slots -> Clients]
  /\ toThread \in [Slots -> Seq(Tasks \cup {Quit})]
  /\ fromThread \in [Slots -> Seq(Tasks)]
  /\ place \in [Slots -> {"none", "awake", "asleep", "busy", "exited"}]
  /\ \A i \in Slots : active[i] <=> place[i] # "none"
  /\ created \in 0 .. MaxCreated
  /\ slotOf \in [Threads -> 0 .. MaxThreads]
  /\ pc \in [Clients -> {Idle} \cup {"result", "join"} \X Threads]
  /\ asleep \subseteq {c \in Clients : pc[c] # Idle /\ pc[c][1] = "result"}
  /\ aborted \in BOOLEAN
  /\ given \in [Threads -> Seq(Tasks)]
  /\ done \in [Threads -> Seq(Tasks)]
  /\ got \in [Threads -> Seq(Tasks)]

\* The slots in use are those of the threads that have not been joined, each of
\* one thread: no slot is lost and none shared, over any number of them.
SlotsMatch ==
  /\ \A i \in Slots : active[i] <=> \E o \in Threads : slotOf[o] = i
  /\ \A o, p \in Threads : slotOf[o] = slotOf[p] /\ slotOf[o] # 0 => o = p

\* Tasks in the order of their numbers, and the evaluations among tasks s from
\* the a-th to the b-th.
InOrder(s) == \A i, k \in DOMAIN s : i < k => s[i][2] < s[k][2]
Evaluated(s, a, b) == {s[k] : k \in {m \in a .. b : s[m][3] = "e"}}

\* The results received from a thread are those of its own evaluations, in their
\* order, none missing; a later thread in its slot shows nothing of it.
ResultsInOrder ==
  \A o \in Threads :
    /\ InOrder(got[o])
    /\ \E n \in 0 .. Len(done[o]) : ToSet(got[o]) = Evaluated(done[o], 1, n)

\* When joinThread() returns, the thread has done all it was given, in order.
JoinedDone ==
  \A o \in Threads : o <= created /\ slotOf[o] = 0 => done[o] = given[o]

\* threadResult() returns if there is an evaluation whose result is not fetched.
Due(o) == Len(got[o]) < Len(Evals(given[o]))

In(call, o) == \E c \in Clients : pc[c] = <<call, o>>

ResultComes ==
  \A o \in Threads : In("result", o) /\ Due(o) ~> ~In("result", o) \/ aborted

\* joinThread() returns.
JoinReturns == \A o \in Threads : In("join", o) ~> ~In("join", o) \/ aborted
==============================================================================
