---------------------------- MODULE SyncVarProofs ----------------------------
(***************************************************************************)
(* SyncVar is correct for any threads and any number of updates.           *)
(***************************************************************************)
EXTENDS SyncVar, SequenceTheorems, TLAPS

\* While a procedure runs, its thread alone is past the lock, and the value is
\* still the one the procedure was given.  With WrittenOnce and UpdatesKept
\* alone the step that stores the result could not be shown to lose nothing.
HolderUnique ==
  \A t, u \in Users : call[t] = "run" /\ call[u] = "run" => t = u

ArgCurrent == \A t \in Users : call[t] = "run" => init /\ arg[t] = value

IInv ==
  /\ VarTypeOK
  /\ WrittenOnce
  /\ UpdatesKept
  /\ NoneAsleep
  /\ HolderUnique
  /\ ArgCurrent
  /\ ~init => \A t \in Users : updated[t] = 0
  /\ \A t \in Users : result[t] \subseteq value

\* The variable starts without a value, writers, readers or updates.
LEMMA InitInvariant == VarInit => IInv
<1> SUFFICES ASSUME VarInit PROVE IInv
  OBVIOUS
<1>1. writes = <<>> /\ Len(writes) = 0
  BY DEF VarInit
<1>2. VarTypeOK
  <2>1. writes \in Seq(Users)
    BY <1>1
  <2>2. value \in Values /\ {} \in Values
    BY DEF VarInit, Construct, Values
  <2> QED
    BY <2>1, <2>2 DEF VarInit, Construct, VarTypeOK
<1>3. WrittenOnce /\ UpdatesKept /\ NoneAsleep /\ HolderUnique /\ ArgCurrent
  BY <1>1 DEF VarInit, Construct, WrittenOnce, UpdatesKept, NoneAsleep,
              HolderUnique, ArgCurrent
<1> QED
  BY <1>2, <1>3 DEF VarInit, Construct, IInv

\* What the i-th update of t adds belongs to the value type.
LEMMA AddedValue ==
  ASSUME NEW t \in Users, NEW n \in Nat
  PROVE  {<<t, n>>} \in Values
  BY DEF Values

\* One more update of t adds one contribution of t and none of another thread.
LEMMA AddedGrows ==
  ASSUME NEW t \in Users, updated \in [Users -> Nat],
         updated' = [updated EXCEPT ![t] = @ + 1]
  PROVE  UNION {Added(u)' : u \in Users}
           = (UNION {Added(u) : u \in Users}) \cup {<<t, updated[t] + 1>>}
<1>1. Added(t)' = Added(t) \cup {<<t, updated[t] + 1>>}
  <2>1. updated'[t] = updated[t] + 1 /\ updated[t] \in Nat
    OBVIOUS
  <2>2. 1 .. updated'[t] = (1 .. updated[t]) \cup {updated[t] + 1}
    BY <2>1
  <2> QED
    BY <2>2 DEF Added
<1>2. \A u \in Users : u # t => Added(u)' = Added(u)
  BY DEF Added
<1> QED
  BY <1>1, <1>2

\* Every action keeps the invariant.
LEMMA NextInvariant == IInv /\ [VarNext]_syncVars => IInv'
<1> SUFFICES ASSUME IInv, [VarNext]_syncVars PROVE IInv'
  OBVIOUS
<1> USE DEF IInv
<1>1. ASSUME NEW t \in Users, Write(t) PROVE IInv'
  <2>1. VarTypeOK'
    <3>1. {<<t, 0>>} \in Values
      BY AddedValue
    <3>2. Append(writes, t) \in Seq(Users)
      BY DEF VarTypeOK
    <3> QED
      BY <1>1, <3>1, <3>2 DEF Write, VarTypeOK, WakeReaders
  <2>8. HolderUnique' /\ ArgCurrent'
    BY <1>1 DEF Write, CanLock, HolderUnique, ArgCurrent
  <2>2. writes \in Seq(Users) /\ Len(writes) = 0 /\ writes = <<>>
    BY <1>1, EmptySeq DEF Write, Unset, WrittenOnce, VarTypeOK
  <2>3. Len(writes') = 1 /\ Head(writes') = t
    BY <1>1, <2>2 DEF Write
  <2>4. WrittenOnce' /\ NoneAsleep'
    BY <1>1, <2>3 DEF Write, WrittenOnce, NoneAsleep, WakeReaders
  <2>5. \A u \in Users : Added(u)' = {}
    BY <1>1 DEF Write, Unset, Added
  <2>6. UpdatesKept'
    BY <1>1, <2>3, <2>5 DEF Write, UpdatesKept
  <2>7. \A u \in Users : result[u] = {}
    BY <1>1 DEF Write, Unset, VarTypeOK
  <2> QED
    BY <1>1, <2>1, <2>4, <2>6, <2>7, <2>8 DEF Write
<1>2. ASSUME NEW t \in Users,
             Begin(t) \/ WaitInit(t) \/ Read(t) \/ UpdateFails(t) \/ Reenter(t)
               \/ SpuriousVarWake(t)
      PROVE  IInv'
  <2>1. value' = value /\ init' = init /\ writes' = writes
          /\ updated' = updated /\ arg' = arg
    BY <1>2 DEF Begin, WaitInit, Read, UpdateFails, Reenter, SpuriousVarWake
  <2>2. \A u \in Users : call'[u] = "run" => call[u] = "run"
    BY <1>2 DEF Begin, WaitInit, Read, UpdateFails, Reenter, SpuriousVarWake, Calls,
                VarTypeOK
  <2>3. VarTypeOK'
    BY <1>2, <2>1 DEF Begin, WaitInit, Read, UpdateFails, Reenter, SpuriousVarWake,
                      Calls, VarTypeOK, CanLock, Values, WakeReaders
  <2>4. WrittenOnce' /\ UpdatesKept'
    BY <2>1 DEF WrittenOnce, UpdatesKept, Added
  <2>5. NoneAsleep'
    BY <1>2, <2>1 DEF Begin, WaitInit, Read, UpdateFails, Reenter, SpuriousVarWake,
                      NoneAsleep
  <2>6. HolderUnique' /\ ArgCurrent'
    BY <2>1, <2>2 DEF HolderUnique, ArgCurrent
  <2>7. \A u \in Users : result'[u] \subseteq value
    BY <1>2 DEF Begin, WaitInit, Read, UpdateFails, Reenter, SpuriousVarWake, VarTypeOK
  <2> QED
    BY <2>1, <2>3, <2>4, <2>5, <2>6, <2>7
<1>3. ASSUME NEW t \in Users, Run(t) PROVE IInv'
  <2>1. VarTypeOK' /\ HolderUnique' /\ ArgCurrent'
    BY <1>3 DEF Run, VarTypeOK, Calls, CanLock, HolderUnique, ArgCurrent
  <2>2. WrittenOnce' /\ UpdatesKept' /\ NoneAsleep'
    BY <1>3 DEF Run, WrittenOnce, UpdatesKept, Added, NoneAsleep
  <2> QED
    BY <1>3, <2>1, <2>2 DEF Run
<1>4. ASSUME NEW t \in Users, Update(t) PROVE IInv'
  <2>1. init /\ arg[t] = value
    BY <1>4 DEF Update, ArgCurrent
  <2>2. value' = value \cup {<<t, updated[t] + 1>>} /\ init'
    BY <1>4, <2>1 DEF Update
  <2>3. updated[t] + 1 \in Nat
    BY DEF VarTypeOK
  <2>4. VarTypeOK'
    BY <1>4, <2>2, <2>3, AddedValue DEF Update, VarTypeOK, Calls, WakeReaders, Values
  <2>5. WrittenOnce' /\ NoneAsleep'
    BY <1>4, <2>1, <2>2 DEF Update, WrittenOnce, NoneAsleep, WakeReaders
  <2>6. UNION {Added(u)' : u \in Users}
          = (UNION {Added(u) : u \in Users}) \cup {<<t, updated[t] + 1>>}
    BY <1>4, AddedGrows DEF Update, VarTypeOK
  <2>7. UpdatesKept'
    BY <1>4, <2>1, <2>2, <2>6 DEF Update, UpdatesKept
  <2>8. \A u \in Users : call'[u] # "run"
    BY <1>4 DEF Update, Calls, HolderUnique, VarTypeOK
  <2>9. HolderUnique' /\ ArgCurrent'
    BY <2>8 DEF HolderUnique, ArgCurrent
  <2> QED
    BY <1>4, <2>2, <2>4, <2>5, <2>7, <2>9 DEF Update
<1>5. CASE UNCHANGED syncVars
  BY <1>5 DEF syncVars, VarTypeOK, WrittenOnce, UpdatesKept, Added, NoneAsleep,
              HolderUnique, ArgCurrent
<1> QED
  BY <1>1, <1>2, <1>3, <1>4, <1>5 DEF VarNext, Finish

\* SingularSyncVar and its commands keep the invariant.
THEOREM Invariance == VarSpec => []IInv
  BY InitInvariant, NextInvariant, PTL DEF VarSpec

\* The fields keep their types, and init tells whether there is a value.
THEOREM TypeCorrect == VarSpec => []VarTypeOK
  BY Invariance, PTL DEF IInv

\* Only one write of one thread ever succeeds.
THEOREM SingleAssignment == VarSpec => []WrittenOnce
  BY Invariance, PTL DEF IInv

\* The value holds what every update that returned has added.
THEOREM NoLostUpdate == VarSpec => []UpdatesKept
  BY Invariance, PTL DEF IInv

\* No reader sleeps once the variable has a value.
THEOREM NoLostWakeup == VarSpec => []NoneAsleep
  BY Invariance, PTL DEF IInv

\* A thread never reads a value older than one it has read before.
THEOREM MonotoneReads == VarSpec => ReadsGrow
<1>1. IInv /\ [VarNext]_syncVars => [\A t \in Users : result[t] \subseteq result'[t]]_syncVars
  <2> SUFFICES ASSUME IInv, VarNext
               PROVE  \A t \in Users : result[t] \subseteq result'[t]
    OBVIOUS
  <2>1. ASSUME NEW t \in Users, Read(t)
        PROVE  \A u \in Users : result[u] \subseteq result'[u]
    BY <2>1 DEF Read, IInv, VarTypeOK
  <2>2. CASE UNCHANGED result
    BY <2>2
  <2> QED
    BY <2>1, <2>2 DEF VarNext, Write, Begin, WaitInit, Run, Finish, Update,
                      UpdateFails, Reenter, SpuriousVarWake
<1> QED
  BY <1>1, Invariance, PTL DEF VarSpec, ReadsGrow
==============================================================================
