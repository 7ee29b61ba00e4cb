------------------------------- MODULE SyncVar -------------------------------
(***************************************************************************)
(* The class SingularSyncVar of src/shared.cc and the commands             *)
(* writeSyncVar, readSyncVar and updateSyncVar.  Each critical section of  *)
(* the variable's lock is one step, except that updateSyncVar keeps the    *)
(* lock while the user's procedure runs.                                   *)
(*                                                                         *)
(* A value is the set of contributions to it: <<t, 0>> stands for what t   *)
(* wrote and <<t, i>> for what the i-th update of t adds.                  *)
(***************************************************************************)
EXTENDS Naturals, Sequences

CONSTANTS Users,
          MaxUpdates   \* bound on the updates of a thread, for model checking

ASSUME MaxUpdatesAssumption == MaxUpdates \in Nat

VARIABLES value, init,  \* SingularSyncVar::value and init
          blocked,      \* threads blocked on the condition
          call,         \* the command each thread is in; "run": inside its
                        \* procedure, with the lock
          arg,          \* the value passed to the procedure
          aborted,      \* ThreadError() has stopped the program
          writes,       \* history: the threads whose write succeeded, in order
          updated,      \* history: how many updates of each thread succeeded
          result        \* history: the value each thread read last

syncVars == <<value, init, blocked, call, arg, aborted, writes, updated, result>>

Values == SUBSET (Users \X Nat)

\* The constructor; ForgetInit leaves init as the memory happens to be.  Like
\* the other variants that no action uses, it is a bug for the properties to
\* find.
ForgetInit == value = {} /\ init \in BOOLEAN
Construct == value = {} /\ init = FALSE

VarInit ==
  /\ Construct
  /\ blocked = {}
  /\ call = [t \in Users |-> "none"]
  /\ arg = [t \in Users |-> {}]
  /\ aborted = FALSE
  /\ writes = <<>>
  /\ updated = [t \in Users |-> 0]
  /\ result = [t \in Users |-> {}]

Calls(t, place) == call' = [call EXCEPT ![t] = place]

\* t may get the lock.
Barge(t) == t \notin blocked
CanLock(t) == t \notin blocked /\ \A u \in Users : call[u] # "run"

\* cond.broadcast().
WakeOne == IF blocked = {} THEN UNCHANGED blocked
                          ELSE \E t \in blocked : blocked' = blocked \ {t}
WakeReaders == blocked' = {}

\* writeSyncVar() of a variable without a value; otherwise it is refused and
\* changes nothing.
Always == TRUE
Unset == ~init

Write(t) ==
  /\ call[t] = "none" /\ CanLock(t)
  /\ Unset
  /\ value' = {<<t, 0>>} /\ init' = TRUE
  /\ WakeReaders
  /\ writes' = Append(writes, t)
  /\ UNCHANGED <<call, arg, aborted, updated, result>>

\* readSyncVar() and updateSyncVar() have been called.
Begin(t) ==
  /\ call[t] = "none"
  /\ \/ Calls(t, "read")
     \/ updated[t] < MaxUpdates /\ Calls(t, "update")
  /\ UNCHANGED <<value, init, blocked, arg, aborted, writes, updated, result>>

\* The loops of read() and wait_init().
WaitInit(t) ==
  /\ call[t] \in {"read", "update"} /\ CanLock(t)
  /\ ~init
  /\ blocked' = blocked \cup {t}
  /\ UNCHANGED <<value, init, call, arg, aborted, writes, updated, result>>

Read(t) ==
  /\ call[t] = "read" /\ CanLock(t)
  /\ init
  /\ result' = [result EXCEPT ![t] = value]
  /\ Calls(t, "none")
  /\ UNCHANGED <<value, init, blocked, arg, aborted, writes, updated>>

\* updateSyncVar() starts the procedure on the current value.
Run(t) ==
  /\ call[t] = "update" /\ CanLock(t)
  /\ init
  /\ arg' = [arg EXCEPT ![t] = value]
  /\ Calls(t, "run")
  /\ UNCHANGED <<value, init, blocked, aborted, writes, updated, result>>

\* The procedure has returned a value; update() stores it.
Update(t) ==
  /\ call[t] = "run"
  /\ value' = arg[t] \cup {<<t, updated[t] + 1>>} /\ init' = TRUE
  /\ WakeReaders
  /\ updated' = [updated EXCEPT ![t] = @ + 1]
  /\ Calls(t, "none")
  /\ UNCHANGED <<arg, aborted, writes, result>>

\* It has failed, and the lock is released.
UpdateFails(t) ==
  /\ call[t] = "run"
  /\ Calls(t, "none")
  /\ UNCHANGED <<value, init, blocked, arg, aborted, writes, updated, result>>

\* The procedure uses the variable itself: the lock is not recursive.
Reenter(t) ==
  /\ call[t] = "run"
  /\ aborted' = TRUE
  /\ UNCHANGED <<value, init, blocked, call, arg, writes, updated, result>>

SpuriousVarWake(t) ==
  /\ t \in blocked
  /\ blocked' = blocked \ {t}
  /\ UNCHANGED <<value, init, call, arg, aborted, writes, updated, result>>

Finish(t) == Update(t) \/ UpdateFails(t)

VarNext ==
  /\ ~aborted
  /\ \E t \in Users :
       \/ Write(t) \/ Begin(t) \/ WaitInit(t) \/ Read(t)
       \/ Run(t) \/ Finish(t) \/ Reenter(t) \/ SpuriousVarWake(t)

VarSpec == VarInit /\ [][VarNext]_syncVars

\* No thread is kept from the lock for ever, and procedures return.
VarFairness ==
  \A t \in Users :
    /\ SF_syncVars(~aborted /\ (Read(t) \/ Run(t)))
    /\ WF_syncVars(~aborted /\ Finish(t))

-----------------------------------------------------------------------------
\* Values are sets of contributions, there is one when init says so, and only
\* threads in a command sleep.
VarTypeOK ==
  /\ value \in Values /\ init = (value # {})
  /\ call \in [Users -> {"none", "read", "update", "run"}]
  /\ blocked \subseteq {t \in Users : call[t] \in {"read", "update"}}
  /\ arg \in [Users -> Values]
  /\ aborted \in BOOLEAN
  /\ writes \in Seq(Users)
  /\ updated \in [Users -> Nat]
  /\ result \in [Users -> Values]

\* The variable is written once: only one write of one thread succeeds, however
\* writes, updates and blocked readers interleave, and it is set from then on.
WrittenOnce == Len(writes) = IF init THEN 1 ELSE 0

\* No update is lost: the value holds what was written and what every update
\* that returned has added, because the lock is kept from reading the value to
\* storing the new one.
Added(t) == {t} \X (1 .. updated[t])

UpdatesKept ==
  init => value = {<<Head(writes), 0>>} \cup UNION {Added(t) : t \in Users}

\* A value is stable or grows, so a thread never reads one older than it has
\* read before (doc/primitives.md: "monotonically increasing values").
ReadsGrow == [][\A t \in Users : result[t] \subseteq result'[t]]_syncVars

\* No reader sleeps once there is a value: one broadcast reaches all of them.
NoneAsleep == init => blocked = {}

\* Every read and every update returns once there is a value.
ReadersReturn ==
  \A t \in Users : init /\ call[t] # "none" ~> call[t] = "none" \/ aborted
==============================================================================
