---------------------------- MODULE MonitorProofs ----------------------------
(***************************************************************************)
(* Proofs about Monitor: the two classes of src/thread.h keep their        *)
(* invariants for every set of threads and conditions.                     *)
(***************************************************************************)
EXTENDS Monitor, FiniteSetTheorems, TLAPS

\* The inductive invariant.  The decrement of waiting keeps its type only
\* because the count is exact, so the parts are proved together.
IInv ==
  /\ TypeOK
  /\ OwnerHoldsMutex
  /\ MutexHeld
  /\ SavedDepth
  /\ WaitingCountsWaiters

InPCs == {"parking", "parked", "signalled", "resuming"}

USE ThreadsAssumption, RecursiveAssumption, MaxDepthAssumption

-----------------------------------------------------------------------------
\* A step after which the same threads wait on the same conditions keeps the
\* counts exact.
LEMMA SameWaiters ==
  ASSUME WaitingCountsWaiters, UNCHANGED waiting,
         \A t \in Threads : pc[t] \in InPCs <=> pc'[t] \in InPCs,
         \A t \in Threads : pc[t] \in InPCs => cond[t] = cond'[t]
  PROVE  WaitingCountsWaiters'
<1>1. \A c \in Conds : Waiters(c)' = Waiters(c)
  BY DEF Waiters, InPCs
<1> QED BY <1>1 DEF WaitingCountsWaiters

\* A thread enters wait(): one more waiter, one more counted.
LEMMA OneMoreWaiter ==
  ASSUME TypeOK, WaitingCountsWaiters, NEW t \in Threads, NEW c \in Conds,
         Wait(t, c)
  PROVE  WaitingCountsWaiters'
<1>1. pc[t] = "run" /\ pc' = [pc EXCEPT ![t] = "parking"]
        /\ cond' = [cond EXCEPT ![t] = c]
        /\ waiting' = [waiting EXCEPT ![c] = @ + 1]
  BY DEF Wait, Goto, Arrive
<1>2. Waiters(c)' = Waiters(c) \cup {t} /\ t \notin Waiters(c)
  BY <1>1 DEF TypeOK, Waiters
<1>3. \A d \in Conds \ {c} : Waiters(d)' = Waiters(d)
  BY <1>1 DEF TypeOK, Waiters
<1>4. IsFiniteSet(Waiters(c))
  BY FS_Subset DEF Waiters
<1>5. Cardinality(Waiters(c)') = Cardinality(Waiters(c)) + 1
  BY <1>2, <1>4, FS_AddElement
<1> QED BY <1>1, <1>3, <1>5 DEF WaitingCountsWaiters, TypeOK

\* A thread comes back from wait(): it was counted, so the count was positive.
LEMMA OneLessWaiter ==
  ASSUME TypeOK, WaitingCountsWaiters, NEW t \in Threads, Resume(t)
  PROVE  WaitingCountsWaiters' /\ waiting[cond[t]] > 0
<1> DEFINE c == cond[t]
<1>1. pc[t] = "resuming" /\ pc' = [pc EXCEPT ![t] = "run"] /\ cond' = cond
        /\ waiting' = [waiting EXCEPT ![c] = @ - 1] /\ c \in Conds
  BY DEF Resume, Goto, Depart, TypeOK
<1>2. Waiters(c)' = Waiters(c) \ {t} /\ t \in Waiters(c)
  BY <1>1 DEF TypeOK, Waiters
<1>3. \A d \in Conds \ {c} : Waiters(d)' = Waiters(d)
  BY <1>1 DEF TypeOK, Waiters
<1>4. IsFiniteSet(Waiters(c))
  BY FS_Subset DEF Waiters
<1>5. Cardinality(Waiters(c)') = Cardinality(Waiters(c)) - 1
  BY <1>2, <1>4, FS_RemoveElement
<1>6. Cardinality(Waiters(c)) \in Nat /\ Cardinality(Waiters(c)) # 0
  BY <1>2, <1>4, FS_EmptySet, FS_CardinalityType
<1> QED BY <1>1, <1>3, <1>5, <1>6 DEF WaitingCountsWaiters, TypeOK

-----------------------------------------------------------------------------
LEMMA InvInit == Init => IInv
<1> SUFFICES ASSUME Init PROVE IInv
  OBVIOUS
<1>1. \A c \in Conds : Waiters(c) = {}
  BY DEF Init, Waiters
<1>2. WaitingCountsWaiters
  BY <1>1, FS_EmptySet DEF Init, WaitingCountsWaiters
<1>3. TypeOK
  BY DEF Init, TypeOK, PCs
<1>4. OwnerHoldsMutex /\ MutexHeld /\ SavedDepth
  BY DEF Init, OwnerHoldsMutex, MutexHeld, SavedDepth, InsidePCs
<1> QED BY <1>2, <1>3, <1>4 DEF IInv

\* The parts of the invariant that only a step of lock() and unlock() touches.
LEMMA LockSteps ==
  ASSUME IInv, NEW t \in Threads,
         \/ LockAgain(t) \/ LockContend(t) \/ MutexLock(t) \/ LockDone(t)
         \/ Unlock(t) \/ MutexUnlock(t)
  PROVE  IInv'
<1> USE DEF IInv, Goto, Owns
<1>1. CASE LockAgain(t)
  <2>1. TypeOK' /\ OwnerHoldsMutex' /\ MutexHeld' /\ SavedDepth'
    BY <1>1 DEF LockAgain, TypeOK, OwnerHoldsMutex, MutexHeld, SavedDepth
  <2>2. WaitingCountsWaiters'
    BY <1>1, SameWaiters DEF LockAgain
  <2> QED BY <2>1, <2>2
<1>2. CASE LockContend(t)
  <2>1. TypeOK' /\ OwnerHoldsMutex' /\ MutexHeld' /\ SavedDepth'
    BY <1>2 DEF LockContend, TypeOK, PCs, OwnerHoldsMutex, MutexHeld,
                SavedDepth, InsidePCs
  <2>2. WaitingCountsWaiters'
    BY <1>2, SameWaiters DEF LockContend, TypeOK, InPCs
  <2> QED BY <2>1, <2>2
<1>3. CASE MutexLock(t)
  <2>1. TypeOK' /\ OwnerHoldsMutex' /\ MutexHeld' /\ SavedDepth'
    BY <1>3 DEF MutexLock, TypeOK, PCs, OwnerHoldsMutex, MutexHeld,
                SavedDepth, InsidePCs
  <2>2. WaitingCountsWaiters'
    BY <1>3, SameWaiters DEF MutexLock, TypeOK, InPCs
  <2> QED BY <2>1, <2>2
<1>4. CASE LockDone(t)
  <2>1. mutex = t /\ owner = NoThread /\ locked = 0
    BY <1>4 DEF LockDone, TypeOK, OwnerHoldsMutex, MutexHeld, InsidePCs
  <2>2. TypeOK' /\ OwnerHoldsMutex' /\ MutexHeld' /\ SavedDepth'
    BY <1>4, <2>1 DEF LockDone, TypeOK, PCs, OwnerHoldsMutex, MutexHeld,
                      SavedDepth, InsidePCs
  <2>3. WaitingCountsWaiters'
    BY <1>4, SameWaiters DEF LockDone, TypeOK, InPCs
  <2> QED BY <2>2, <2>3
<1>5. CASE Unlock(t)
  <2>1. owner = t /\ mutex = t /\ locked \in Nat \ {0} /\ pc[t] = "run"
    BY <1>5 DEF Unlock, TypeOK, OwnerHoldsMutex
  <2>2. TypeOK' /\ OwnerHoldsMutex' /\ MutexHeld' /\ SavedDepth'
    <3>1. CASE locked = 1
      BY <1>5, <2>1, <3>1 DEF Unlock, TypeOK, PCs, OwnerHoldsMutex, MutexHeld,
                              SavedDepth, InsidePCs
    <3>2. CASE locked # 1
      BY <1>5, <2>1, <3>2 DEF Unlock, TypeOK, PCs, OwnerHoldsMutex, MutexHeld,
                              SavedDepth, InsidePCs
    <3> QED BY <3>1, <3>2
  <2>3. WaitingCountsWaiters'
    BY <1>5, SameWaiters DEF Unlock, TypeOK, InPCs
  <2> QED BY <2>2, <2>3
<1>6. CASE MutexUnlock(t)
  <2>1. mutex = t /\ owner = NoThread
    BY <1>6 DEF MutexUnlock, TypeOK, OwnerHoldsMutex, MutexHeld, InsidePCs
  <2>2. TypeOK' /\ OwnerHoldsMutex' /\ MutexHeld' /\ SavedDepth'
    BY <1>6, <2>1 DEF MutexUnlock, TypeOK, PCs, OwnerHoldsMutex, MutexHeld,
                      SavedDepth, InsidePCs
  <2>3. WaitingCountsWaiters'
    BY <1>6, SameWaiters DEF MutexUnlock, TypeOK, InPCs
  <2> QED BY <2>2, <2>3
<1> QED BY <1>1, <1>2, <1>3, <1>4, <1>5, <1>6

\* Waking blocked threads moves them to "signalled" and changes nothing else.
LEMMA WakeSteps ==
  ASSUME IInv, NEW S \in SUBSET Threads, \A t \in S : pc[t] = "parked",
         WakeAll(S)
  PROVE  IInv'
<1> USE DEF IInv, WakeAll
<1>1. TypeOK'
  BY DEF TypeOK, PCs
<1>2. OwnerHoldsMutex' /\ MutexHeld' /\ SavedDepth'
  BY DEF TypeOK, OwnerHoldsMutex, MutexHeld, SavedDepth, InsidePCs
<1>3. WaitingCountsWaiters'
  BY SameWaiters DEF TypeOK, InPCs
<1> QED BY <1>1, <1>2, <1>3

LEMMA WaitSteps ==
  ASSUME IInv, NEW t \in Threads,
         \/ Park(t) \/ Reacquire(t) \/ Resume(t)
         \/ \E c \in Conds : Wait(t, c)
  PROVE  IInv'
<1> USE DEF IInv, Goto
<1>1. CASE Park(t)
  <2>1. mutex = t /\ owner = NoThread
    BY <1>1 DEF Park, TypeOK, OwnerHoldsMutex, MutexHeld, InsidePCs
  <2>2. TypeOK' /\ OwnerHoldsMutex' /\ MutexHeld' /\ SavedDepth'
    BY <1>1, <2>1 DEF Park, TypeOK, PCs, OwnerHoldsMutex, MutexHeld,
                      SavedDepth, InsidePCs
  <2>3. WaitingCountsWaiters'
    BY <1>1, SameWaiters DEF Park, TypeOK, InPCs
  <2> QED BY <2>2, <2>3
<1>2. CASE Reacquire(t)
  <2>1. TypeOK' /\ OwnerHoldsMutex' /\ MutexHeld' /\ SavedDepth'
    BY <1>2 DEF Reacquire, TypeOK, PCs, OwnerHoldsMutex, MutexHeld,
                SavedDepth, InsidePCs
  <2>2. WaitingCountsWaiters'
    BY <1>2, SameWaiters DEF Reacquire, TypeOK, InPCs
  <2> QED BY <2>1, <2>2
<1>3. CASE Resume(t)
  <2>1. mutex = t /\ owner = NoThread /\ saved[t] \in Nat \ {0}
    BY <1>3 DEF Resume, TypeOK, OwnerHoldsMutex, MutexHeld, SavedDepth,
                InsidePCs
  <2>2. WaitingCountsWaiters' /\ waiting[cond[t]] > 0
    BY <1>3, OneLessWaiter
  <2>3. TypeOK' /\ OwnerHoldsMutex' /\ MutexHeld' /\ SavedDepth'
    BY <1>3, <2>1, <2>2 DEF Resume, ResumeLock, Depart, TypeOK, PCs,
         OwnerHoldsMutex, MutexHeld, SavedDepth, InsidePCs
  <2> QED BY <2>2, <2>3
<1>4. ASSUME NEW c \in Conds, Wait(t, c) PROVE IInv'
  <2>1. owner = t /\ mutex = t /\ locked \in Nat \ {0}
    BY <1>4 DEF Wait, IsLocked, TypeOK, OwnerHoldsMutex
  <2>2. TypeOK' /\ OwnerHoldsMutex' /\ MutexHeld' /\ SavedDepth'
    BY <1>4, <2>1 DEF Wait, BreakLock, Arrive, TypeOK, PCs, OwnerHoldsMutex,
         MutexHeld, SavedDepth, InsidePCs
  <2>3. WaitingCountsWaiters'
    BY <1>4, OneMoreWaiter
  <2> QED BY <2>2, <2>3
<1> QED BY <1>1, <1>2, <1>3, <1>4

LEMMA InvNext == IInv /\ [Next]_vars => IInv'
<1> SUFFICES ASSUME IInv, [Next]_vars PROVE IInv'
  OBVIOUS
<1>1. CASE UNCHANGED vars
  BY <1>1 DEF vars, IInv, TypeOK, OwnerHoldsMutex, MutexHeld, SavedDepth,
              WaitingCountsWaiters, Waiters
<1>2. ASSUME NEW t \in Threads,
             \/ LockAgain(t) \/ LockContend(t) \/ MutexLock(t) \/ LockDone(t)
             \/ Unlock(t) \/ MutexUnlock(t)
      PROVE  IInv'
  BY <1>2, LockSteps
<1>3. ASSUME NEW t \in Threads,
             \/ Park(t) \/ Reacquire(t) \/ Resume(t)
             \/ \E c \in Conds : Wait(t, c)
      PROVE  IInv'
  BY <1>3, WaitSteps
<1>4. ASSUME NEW t \in Threads, SpuriousWake(t) PROVE IInv'
  BY <1>4, WakeSteps DEF SpuriousWake
<1>5. ASSUME NEW t \in Threads, NEW c \in Conds, Signal(t, c) PROVE IInv'
  <2>1. CASE UNCHANGED vars
    BY <1>1, <2>1
  <2>2. ASSUME NEW u \in Parked(c), WakeAll({u}) PROVE IInv'
    BY <2>2, WakeSteps DEF Parked
  <2> QED BY <1>5, <2>1, <2>2 DEF Signal
<1>6. ASSUME NEW t \in Threads, NEW c \in Conds, Broadcast(t, c) PROVE IInv'
  <2>1. ASSUME NEW S \in SUBSET Parked(c), WakeAll(S) PROVE IInv'
    BY <2>1, WakeSteps DEF Parked
  <2> QED BY <1>6, <2>1 DEF Broadcast
<1>7. ASSUME NEW t \in Threads, Misuse(t) PROVE IInv'
  BY <1>7 DEF Misuse, IInv, TypeOK, OwnerHoldsMutex, MutexHeld, SavedDepth,
              WaitingCountsWaiters, Waiters
<1> QED BY <1>1, <1>2, <1>3, <1>4, <1>5, <1>6, <1>7 DEF Next

\* The inductive invariant holds in every reachable state.
THEOREM Invariance == Spec => []IInv
<1> QED BY InvInit, InvNext, PTL DEF Spec

\* Type correctness of Lock and ConditionVariable.
THEOREM TypeCorrect == Spec => []TypeOK
<1> QED BY Invariance, PTL DEF IInv

\* Mutual exclusion: the unlocked test of Lock::owner in lock() never lets a
\* second thread in, and the owner holds the pthread mutex.
THEOREM MutualExclusion == Spec => [](OwnerHoldsMutex /\ MutexHeld)
<1> QED BY Invariance, PTL DEF IInv

\* The count that lets signal() and broadcast() skip the pthread call is exact.
THEOREM ExactWaiterCount == Spec => []WaitingCountsWaiters
<1> QED BY Invariance, PTL DEF IInv

-----------------------------------------------------------------------------
\* Refinement: the initial states, then one lemma per group of steps.

LEMMA RefineInit == Init => AM!Init
BY DEF Init, AM!Init, Sleeping, Notified

\* Steps that the abstract monitor does not see.
LEMMA Unseen ==
  ASSUME UNCHANGED <<owner, locked, saved, failed, cond>>,
         \A t \in Threads :
           /\ pc[t] \in {"parking", "parked"} <=> pc'[t] \in {"parking", "parked"}
           /\ pc[t] \in {"signalled", "resuming"} <=>
                pc'[t] \in {"signalled", "resuming"}
  PROVE  UNCHANGED AM!vars
<1>1. \A c \in Conds : Sleeping(c)' = Sleeping(c) /\ Notified(c)' = Notified(c)
  BY DEF Sleeping, Notified
<1> QED BY <1>1 DEF AM!vars

LEMMA RefineLock ==
  ASSUME IInv, ~failed, NEW t \in Threads,
         \/ LockAgain(t) \/ LockContend(t) \/ MutexLock(t) \/ LockDone(t)
         \/ Unlock(t) \/ MutexUnlock(t) \/ Park(t) \/ Reacquire(t)
  PROVE  [AM!Next]_(AM!vars)
<1> USE DEF IInv, Goto, Owns
<1>1. CASE LockContend(t) \/ MutexLock(t) \/ MutexUnlock(t) \/ Park(t)
             \/ Reacquire(t)
  <2>1. UNCHANGED <<owner, locked, saved, failed, cond>>
    BY <1>1 DEF LockContend, MutexLock, MutexUnlock, Park, Reacquire
  <2>2. \A u \in Threads :
           /\ pc[u] \in {"parking", "parked"} <=> pc'[u] \in {"parking", "parked"}
           /\ pc[u] \in {"signalled", "resuming"} <=>
                pc'[u] \in {"signalled", "resuming"}
    BY <1>1 DEF LockContend, MutexLock, MutexUnlock, Park, Reacquire, TypeOK
  <2> QED BY <2>1, <2>2, Unseen
<1>2. ASSUME UNCHANGED <<cond, saved, failed>>, pc[t] \in {"run", "locked"},
             \/ pc' = [pc EXCEPT ![t] = "run"]
             \/ pc' = [pc EXCEPT ![t] = "unlocking"]
             \/ UNCHANGED pc
      PROVE  UNCHANGED <<[c \in Conds |-> Sleeping(c)],
                         [c \in Conds |-> Notified(c)], saved, failed>>
  <2>1. \A c \in Conds :
           Sleeping(c)' = Sleeping(c) /\ Notified(c)' = Notified(c)
    BY <1>2 DEF Sleeping, Notified, TypeOK
  <2> QED BY <1>2, <2>1
<1>3. CASE LockAgain(t)
  <2>1. owner = t /\ locked # 0 /\ Recursive
    BY <1>3 DEF LockAgain, TypeOK, OwnerHoldsMutex
  <2>2. AM!Reenter(t)
    BY <1>2, <1>3, <2>1 DEF LockAgain, AM!Reenter
  <2> QED BY <2>2 DEF AM!Next
<1>4. CASE LockDone(t)
  <2>1. mutex = t /\ owner = NoThread /\ locked = 0
    BY <1>4 DEF LockDone, TypeOK, OwnerHoldsMutex, MutexHeld, InsidePCs
  <2>2. AM!Outside(t)
    BY <1>4 DEF LockDone, AM!Outside, Sleeping, Notified
  <2>3. AM!Enter(t)
    BY <1>2, <1>4, <2>1, <2>2 DEF LockDone, AM!Enter
  <2> QED BY <2>3 DEF AM!Next
<1>5. CASE Unlock(t)
  <2>1. AM!Leave(t)
    BY <1>2, <1>5 DEF Unlock, AM!Leave
  <2> QED BY <2>1 DEF AM!Next
<1> QED BY <1>1, <1>3, <1>4, <1>5

\* Waking the threads in S, all of them parked on c, is the abstract Wake.
LEMMA RefineWake ==
  ASSUME IInv, NEW c \in Conds, NEW S \in SUBSET Parked(c), WakeAll(S)
  PROVE  AM!Wake(c, S)
<1> USE DEF IInv, WakeAll
<1>1. \A d \in Conds : Sleeping(d)' = IF d = c THEN Sleeping(d) \ S
                                                ELSE Sleeping(d)
  BY DEF TypeOK, Sleeping, Parked
<1>2. \A d \in Conds : Notified(d)' = IF d = c THEN Notified(d) \cup S
                                                ELSE Notified(d)
  BY DEF TypeOK, Notified, Parked
<1> QED BY <1>1, <1>2 DEF AM!Wake

LEMMA RefineSignals ==
  ASSUME IInv, NEW t \in Threads, NEW c \in Conds,
         Signal(t, c) \/ Broadcast(t, c)
  PROVE  AM!Signal(t, c) \/ AM!Broadcast(t, c) \/ UNCHANGED AM!vars
<1> USE DEF IInv
<1>1. owner = t /\ locked # 0 /\ pc[t] = "run" /\ mutex = t
  BY DEF Signal, Broadcast, IsLocked, OwnerHoldsMutex, TypeOK
<1>2. CASE UNCHANGED vars
  BY <1>2, Unseen DEF vars
<1>3. CASE WakeAll({})
  <2>1. UNCHANGED pc
    BY <1>3 DEF WakeAll, TypeOK
  <2> QED BY <1>3, <2>1, Unseen DEF WakeAll
<1>4. ASSUME NEW u \in Parked(c), WakeAll({u}) PROVE AM!Signal(t, c)
  <2>1. AM!Wake(c, {u})
    BY <1>4, RefineWake
  <2>2. u \in Sleeping(c)
    BY DEF Parked, Sleeping
  <2> QED BY <1>1, <2>1, <2>2 DEF AM!Signal
<1>5. ASSUME WakeAll(Parked(c)) PROVE AM!Broadcast(t, c)
  <2>1. Parked(c) = Sleeping(c)
    BY <1>1 DEF Parked, Sleeping, TypeOK, MutexHeld, InsidePCs
  <2>2. AM!Wake(c, Sleeping(c))
    BY <1>5, <2>1, RefineWake
  <2> QED BY <1>1, <2>2 DEF AM!Broadcast
<1> QED BY <1>2, <1>3, <1>4, <1>5 DEF Signal, Broadcast

LEMMA RefineWait ==
  ASSUME IInv, NEW t \in Threads, NEW c \in Conds, Wait(t, c)
  PROVE  AM!Sleep(t, c)
<1> USE DEF IInv
<1>1. pc[t] = "run" /\ owner = t /\ owner' = NoThread /\ locked' = 0
        /\ pc' = [pc EXCEPT ![t] = "parking"] /\ cond' = [cond EXCEPT ![t] = c]
        /\ saved' = [saved EXCEPT ![t] = locked] /\ UNCHANGED failed
  BY DEF Wait, Goto, BreakLock, IsLocked
<1>2. \A d \in Conds : Sleeping(d)' = IF d = c THEN Sleeping(d) \cup {t}
                                                ELSE Sleeping(d)
  BY <1>1 DEF TypeOK, Sleeping
<1>3. \A d \in Conds : Notified(d)' = Notified(d)
  BY <1>1 DEF TypeOK, Notified
<1> QED BY <1>1, <1>2, <1>3 DEF AM!Sleep

LEMMA RefineResume ==
  ASSUME IInv, NEW t \in Threads, Resume(t)
  PROVE  AM!Return(t, cond[t])
<1> USE DEF IInv
<1>1. pc[t] = "resuming" /\ owner' = t /\ locked' = saved[t]
        /\ pc' = [pc EXCEPT ![t] = "run"] /\ UNCHANGED <<cond, saved, failed>>
  BY DEF Resume, Goto, ResumeLock
<1>2. owner = NoThread /\ cond[t] \in Conds
  BY <1>1 DEF TypeOK, OwnerHoldsMutex, MutexHeld, InsidePCs
<1>3. \A d \in Conds : Sleeping(d)' = Sleeping(d)
  BY <1>1 DEF TypeOK, Sleeping
<1>4. \A d \in Conds : Notified(d)' = IF d = cond[t] THEN Notified(d) \ {t}
                                                      ELSE Notified(d)
  BY <1>1 DEF TypeOK, Notified
<1>5. t \in Notified(cond[t])
  BY <1>1 DEF Notified
<1> QED BY <1>1, <1>2, <1>3, <1>4, <1>5 DEF AM!Return

LEMMA RefineNext == IInv /\ [Next]_vars => [AM!Next]_(AM!vars)
<1> SUFFICES ASSUME IInv, [Next]_vars PROVE [AM!Next]_(AM!vars)
  OBVIOUS
<1>1. CASE UNCHANGED vars
  BY <1>1, Unseen DEF vars
<1> SUFFICES ASSUME Next PROVE [AM!Next]_(AM!vars)
  BY <1>1
<1>2. ~failed
  BY DEF Next
<1>3. ASSUME NEW t \in Threads,
             \/ LockAgain(t) \/ LockContend(t) \/ MutexLock(t) \/ LockDone(t)
             \/ Unlock(t) \/ MutexUnlock(t) \/ Park(t) \/ Reacquire(t)
      PROVE  [AM!Next]_(AM!vars)
  BY <1>2, <1>3, RefineLock
<1>4. ASSUME NEW t \in Threads, SpuriousWake(t) PROVE AM!Next
  <2>1. t \in Parked(cond[t]) /\ WakeAll({t}) /\ cond[t] \in Conds
    BY <1>4 DEF SpuriousWake, Parked, IInv, TypeOK
  <2>2. AM!Wake(cond[t], {t})
    BY <2>1, RefineWake
  <2>3. t \in Sleeping(cond[t])
    BY <2>1 DEF Parked, Sleeping
  <2>4. AM!SpuriousWake(cond[t])
    BY <2>1, <2>2, <2>3 DEF AM!SpuriousWake
  <2> QED BY <1>2, <2>1, <2>4 DEF AM!Next
<1>5. ASSUME NEW t \in Threads, Resume(t) PROVE AM!Next
  <2>1. cond[t] \in Conds
    BY DEF IInv, TypeOK
  <2> QED BY <1>2, <1>5, <2>1, RefineResume DEF AM!Next
<1>6. ASSUME NEW t \in Threads, Misuse(t) PROVE [AM!Next]_(AM!vars)
  <2>1. \A c \in Conds :
           Sleeping(c)' = Sleeping(c) /\ Notified(c)' = Notified(c)
    BY <1>6 DEF Misuse, Sleeping, Notified
  <2>2. AM!Fail
    BY <1>6, <2>1 DEF Misuse, AM!Fail
  <2> QED BY <1>2, <2>2 DEF AM!Next
<1>7. ASSUME NEW t \in Threads, NEW c \in Conds,
             Wait(t, c) \/ Signal(t, c) \/ Broadcast(t, c)
      PROVE  [AM!Next]_(AM!vars)
  BY <1>2, <1>7, RefineWait, RefineSignals DEF AM!Next
<1> QED BY <1>3, <1>4, <1>5, <1>6, <1>7 DEF Next

\* The classes Lock and ConditionVariable implement the abstract monitor.
THEOREM Refinement == Spec => ImplementsMonitor
<1> QED BY RefineInit, RefineNext, Invariance, PTL
        DEF Spec, ImplementsMonitor, AM!Spec
==============================================================================
