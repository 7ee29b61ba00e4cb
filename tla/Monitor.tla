------------------------------- MODULE Monitor -------------------------------
(***************************************************************************)
(* The classes Lock and ConditionVariable of src/thread.h, at the grain of *)
(* the pthread calls they make.  Lock keeps its own owner and nesting      *)
(* count beside a plain pthread mutex and reads them WITHOUT holding the   *)
(* mutex; ConditionVariable keeps a count of its waiters and skips the     *)
(* pthread signal when the count is zero.  Both shortcuts are correct only *)
(* because of the order of the assignments around the pthread calls, which *)
(* is what this module spells out.                                         *)
(***************************************************************************)
EXTENDS Naturals, FiniteSets

CONSTANTS Threads, Conds, NoThread, Recursive, MaxDepth

ASSUME ThreadsAssumption == IsFiniteSet(Threads) /\ NoThread \notin Threads
ASSUME RecursiveAssumption == Recursive \in BOOLEAN
ASSUME MaxDepthAssumption == MaxDepth \in Nat \ {0}

VARIABLES mutex,     \* holder of the pthread mutex, or NoThread
          owner,     \* Lock::owner
          locked,    \* Lock::locked
          waiting,   \* ConditionVariable::waiting, per condition
          pc,        \* where each thread is inside these classes
          cond,      \* the condition a thread waits on
          saved,     \* local variable l of ConditionVariable::wait
          failed     \* ThreadError() has called abort()

vars == <<mutex, owner, locked, waiting, pc, cond, saved, failed>>

\* "run": in client code.  "locking": blocked in pthread_mutex_lock;
\* "locked": past it.  "unlocking": before pthread_mutex_unlock.
\* "parking", "parked", "signalled", "resuming": before, inside, woken in and
\* past pthread_cond_wait.
PCs == {"run", "locking", "locked", "unlocking",
        "parking", "parked", "signalled", "resuming"}

Waiters(c) ==
  {t \in Threads : /\ pc[t] \in {"parking", "parked", "signalled", "resuming"}
                   /\ cond[t] = c}

Parked(c) == {t \in Threads : pc[t] = "parked" /\ cond[t] = c}

IsLocked(t) == locked # 0 /\ owner = t

Init ==
  /\ mutex = NoThread
  /\ owner = NoThread
  /\ locked = 0
  /\ waiting = [c \in Conds |-> 0]
  /\ pc = [t \in Threads |-> "run"]
  /\ cond \in [Threads -> Conds]
  /\ saved = [t \in Threads |-> 0]
  /\ failed = FALSE

Goto(t, place) == pc' = [pc EXCEPT ![t] = place]

\* The test of Lock::owner, made without the mutex.  Anyone, like the other
\* variants below that no action uses, is a bug for the properties to find.
Anyone(t) == TRUE
Owns(t) == owner = t

\* break_lock() and resume_lock(l).
BreakLock == owner' = NoThread /\ locked' = 0

ResumeUnowned(t, l) == UNCHANGED owner /\ locked' = l
ResumeOnce(t, l) == owner' = t /\ locked' = 1
ResumeLock(t, l) == owner' = t /\ locked' = l

\* ++waiting and --waiting around pthread_cond_wait.
ArriveOnce(c) == waiting' = [waiting EXCEPT ![c] = 1]
Arrive(c) == waiting' = [waiting EXCEPT ![c] = @ + 1]
Depart(c) == waiting' = [waiting EXCEPT ![c] = @ - 1]

\* lock() by the thread that already owns the lock.
LockAgain(t) ==
  /\ pc[t] = "run"
  /\ Owns(t)
  /\ locked = 0 \/ Recursive
  /\ locked < MaxDepth
  /\ locked' = locked + 1
  /\ UNCHANGED <<mutex, owner, waiting, pc, cond, saved, failed>>

\* lock() by any other thread: the test of owner is made without the mutex.
LockContend(t) ==
  /\ pc[t] = "run"
  /\ ~Owns(t)
  /\ Goto(t, "locking")
  /\ UNCHANGED <<mutex, owner, locked, waiting, cond, saved, failed>>

\* pthread_mutex_lock returns.
MutexLock(t) ==
  /\ pc[t] = "locking"
  /\ mutex = NoThread
  /\ mutex' = t
  /\ Goto(t, "locked")
  /\ UNCHANGED <<owner, locked, waiting, cond, saved, failed>>

LockDone(t) ==
  /\ pc[t] = "locked"
  /\ owner' = t
  /\ locked' = locked + 1
  /\ Goto(t, "run")
  /\ UNCHANGED <<mutex, waiting, cond, saved, failed>>

Unlock(t) ==
  /\ pc[t] = "run"
  /\ Owns(t)
  /\ locked' = locked - 1
  /\ IF locked = 1
       THEN owner' = NoThread /\ Goto(t, "unlocking")
       ELSE UNCHANGED <<owner, pc>>
  /\ UNCHANGED <<mutex, waiting, cond, saved, failed>>

MutexUnlock(t) ==
  /\ pc[t] = "unlocking"
  /\ mutex' = NoThread
  /\ Goto(t, "run")
  /\ UNCHANGED <<owner, locked, waiting, cond, saved, failed>>

\* wait() up to pthread_cond_wait, with break_lock().
Wait(t, c) ==
  /\ pc[t] = "run"
  /\ IsLocked(t)
  /\ Arrive(c)
  /\ saved' = [saved EXCEPT ![t] = locked]
  /\ BreakLock
  /\ cond' = [cond EXCEPT ![t] = c]
  /\ Goto(t, "parking")
  /\ UNCHANGED <<mutex, failed>>

\* pthread_cond_wait releases the mutex and blocks in one step.
Park(t) ==
  /\ pc[t] = "parking"
  /\ mutex' = NoThread
  /\ Goto(t, "parked")
  /\ UNCHANGED <<owner, locked, waiting, cond, saved, failed>>

WakeAll(S) ==
  /\ pc' = [t \in Threads |-> IF t \in S THEN "signalled" ELSE pc[t]]
  /\ UNCHANGED <<mutex, owner, locked, waiting, cond, saved, failed>>

\* signal(): pthread_cond_signal wakes one of the blocked threads, if any.
Signal(t, c) ==
  /\ pc[t] = "run"
  /\ IsLocked(t)
  /\ IF waiting[c] # 0 /\ Parked(c) # {}
       THEN \E u \in Parked(c) : WakeAll({u})
       ELSE UNCHANGED vars

Broadcast(t, c) ==
  /\ pc[t] = "run"
  /\ IsLocked(t)
  /\ WakeAll(IF waiting[c] # 0 THEN Parked(c) ELSE {})

SpuriousWake(t) ==
  /\ pc[t] = "parked"
  /\ WakeAll({t})

\* pthread_cond_wait takes the mutex again before it returns.
Reacquire(t) ==
  /\ pc[t] = "signalled"
  /\ mutex = NoThread
  /\ mutex' = t
  /\ Goto(t, "resuming")
  /\ UNCHANGED <<owner, locked, waiting, cond, saved, failed>>

\* wait() after pthread_cond_wait, with resume_lock(l).
Resume(t) ==
  /\ pc[t] = "resuming"
  /\ Depart(cond[t])
  /\ ResumeLock(t, saved[t])
  /\ Goto(t, "run")
  /\ UNCHANGED <<mutex, cond, saved, failed>>

\* lock() of a non-recursive lock its caller owns, unlock() of a lock its
\* caller does not own, wait(), signal() or broadcast() without the lock.
Misuse(t) ==
  /\ pc[t] = "run"
  /\ \/ Owns(t) /\ locked # 0 /\ ~Recursive
     \/ ~Owns(t)
     \/ ~IsLocked(t)
  /\ failed' = TRUE
  /\ UNCHANGED <<mutex, owner, locked, waiting, pc, cond, saved>>

Next ==
  /\ ~failed
  /\ \/ \E t \in Threads :
          \/ LockAgain(t) \/ LockContend(t) \/ MutexLock(t) \/ LockDone(t)
          \/ Unlock(t) \/ MutexUnlock(t)
          \/ Park(t) \/ SpuriousWake(t) \/ Reacquire(t) \/ Resume(t)
          \/ Misuse(t)
     \/ \E t \in Threads, c \in Conds :
          Wait(t, c) \/ Signal(t, c) \/ Broadcast(t, c)

Spec == Init /\ [][Next]_vars

-----------------------------------------------------------------------------
\* The variables of src/thread.h keep their types; in particular the nesting
\* count and the waiter counts, which are decremented unconditionally by
\* unlock() and wait(), never drop below zero.
TypeOK ==
  /\ mutex \in Threads \cup {NoThread}
  /\ owner \in Threads \cup {NoThread}
  /\ locked \in Nat
  /\ waiting \in [Conds -> Nat]
  /\ pc \in [Threads -> PCs]
  /\ cond \in [Threads -> Conds]
  /\ saved \in [Threads -> Nat]
  /\ failed \in BOOLEAN

\* Lock::owner, which lock() reads without the mutex, names only a thread that
\* holds the pthread mutex and is back in client code, and it names one
\* exactly while the nesting count is positive.
OwnerHoldsMutex ==
  /\ owner # NoThread => mutex = owner /\ pc[owner] = "run"
  /\ owner = NoThread <=> locked = 0

\* The pthread mutex is held exactly by the owner or by the one thread that is
\* between its pthread call and the assignment to owner, on either side.
InsidePCs == {"locked", "unlocking", "parking", "resuming"}

MutexHeld ==
  \A t \in Threads :
    mutex = t <=> owner = t \/ pc[t] \in InsidePCs

\* ConditionVariable::waiting is exactly the number of threads inside wait(),
\* so the shortcut "if (waiting)" of signal() and broadcast() never drops the
\* wake-up of a blocked thread.
WaitingCountsWaiters ==
  \A c \in Conds : waiting[c] = Cardinality(Waiters(c))

\* A thread inside wait() remembers a positive depth to restore.
SavedDepth ==
  \A t \in Threads :
    pc[t] \in {"parking", "parked", "signalled", "resuming"} => saved[t] > 0

-----------------------------------------------------------------------------
\* Lock and ConditionVariable implement the abstract monitor: the thread in
\* Lock::owner is the one inside.
Sleeping(c) == {t \in Threads : pc[t] \in {"parking", "parked"} /\ cond[t] = c}

Notified(c) ==
  {t \in Threads : pc[t] \in {"signalled", "resuming"} /\ cond[t] = c}

AM == INSTANCE AbstractMonitor WITH
        holder <- owner,
        depth <- locked,
        asleep <- [c \in Conds |-> Sleeping(c)],
        notified <- [c \in Conds |-> Notified(c)],
        kept <- saved

\* Every step of the two classes is a step of the abstract monitor or invisible
\* to it: no entry while a thread is inside, a signal wakes one sleeper and
\* only by the thread inside, a waiter comes back to the depth it left.
ImplementsMonitor == AM!Spec
==============================================================================
