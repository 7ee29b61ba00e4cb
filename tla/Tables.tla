------------------------------- MODULE Tables --------------------------------
(***************************************************************************)
(* Tables and lists (Transactional, TxTable, TxList of src/shared.cc), the *)
(* objects that makeSharedObject() enters under a name, and one region     *)
(* with its regionlocks.  An access to a shared object is one step, as the *)
(* caller has the region all along; an access to an atomic object is       *)
(* tx_begin(), the access and tx_end().                                    *)
(***************************************************************************)
EXTENDS Naturals, Sequences

CONSTANTS Threads, NoThread,
          Atomic, Shared,  \* the names of atomic objects and of the region's
          Lists,           \* those of them that are lists, not tables
          Values, Unset,   \* what is put; no entry or, in a list, no value
          MaxIndex,        \* bound on the keys, for model checking
          MaxLocks,        \* bound on the locks made for an atomic object
          MaxRlocks        \* bound on the regionlocks of a thread

Objects == Atomic \cup Shared
Keys == 1 .. MaxIndex

ASSUME ThreadsAssumption == NoThread \notin Threads
ASSUME ObjectsAssumption == Atomic \cap Shared = {} /\ Lists \subseteq Objects
ASSUME BoundsAssumption ==
  MaxIndex \in Nat /\ MaxLocks \in Nat \ {0} /\ MaxRlocks \in Nat

VARIABLES holder,    \* the thread that has locked the region
          rlocks,    \* how many regionlock values each thread has
          named,     \* the objects in the name tables
          lockOf,    \* Transactional::lock: 0 is NULL; the locks of an atomic
                     \* object are counted, 1 is the region's lock
          owner,     \* the owner of each lock of an atomic object
          entries,   \* the contents
          known,     \* the objects that a command has returned; threads pass
                     \* them to each other freely
          pc,        \* where each thread is, and in which object
          aborted,   \* a NULL pointer or ThreadError() has ended the program
          inTx,      \* history: the threads that have locked the region and
                     \* neither unlocked it nor destroyed a regionlock
          view       \* history: what that thread expects in the region

vars == <<holder, rlocks, named, lockOf, owner, entries, known, pc,
          aborted, inTx, view>>
regionVars == <<holder, rlocks, inTx>>
objectVars == <<named, lockOf, owner, entries>>
threadVars == <<known, pc>>

Idle == <<"idle">>

Empty(o) == IF o \in Lists THEN <<>> ELSE [k \in Keys |-> Unset]

\* get(): what is under a key.
Lookup(o, k) ==
  IF o \in Lists THEN IF k \in DOMAIN entries[o] THEN entries[o][k] ELSE Unset
                 ELSE entries[o][k]
Contents == [o \in Shared |-> [k \in Keys |-> Lookup(o, k)]]

\* put(): a list grows to one more than the index when that is beyond its end.
\* PutFresh, like the other variants that no action uses, is a bug for the
\* properties to find.
Resize(s, n) == [i \in 1 .. n |-> IF i \in DOMAIN s THEN s[i] ELSE Unset]
PutFresh(s, k, v) == [i \in 1 .. k + 1 |-> IF i = k THEN v ELSE Unset]
ListPut(s, k, v) ==
  IF k \in DOMAIN s THEN [s EXCEPT ![k] = v]
                    ELSE [Resize(s, k + 1) EXCEPT ![k] = v]
Put(o, k, v) ==
  entries' = [entries EXCEPT ![o] = IF o \in Lists THEN ListPut(@, k, v)
                                                   ELSE [@ EXCEPT ![k] = v]]

Init ==
  /\ holder = NoThread
  /\ rlocks = [t \in Threads |-> 0]
  /\ named = {}
  /\ lockOf = [o \in Objects |-> 0]
  /\ owner = [o \in Atomic |-> [n \in 1 .. MaxLocks |-> NoThread]]
  /\ entries = [o \in Objects |-> Empty(o)]
  /\ known = {}
  /\ pc = [t \in Threads |-> Idle]
  /\ aborted = FALSE
  /\ inTx = {}
  /\ view = Contents

-----------------------------------------------------------------------------
\* Regions.  A thread is refused the lock it has; for another one it waits.
Acquire(t) ==
  /\ pc[t] = Idle /\ holder = NoThread
  /\ holder' = t
  /\ inTx' = inTx \cup {t}
  /\ view' = Contents

LockRegion(t) ==
  /\ Acquire(t)
  /\ UNCHANGED <<objectVars, threadVars, rlocks, aborted>>

RegionLock(t) ==
  /\ rlocks[t] < MaxRlocks
  /\ Acquire(t)
  /\ rlocks' = [rlocks EXCEPT ![t] = @ + 1]
  /\ UNCHANGED <<objectVars, threadVars, aborted>>

\* Region::unlock() does nothing in a thread that has not locked the region.
ReleaseAny(t) == holder' = NoThread
Release(t) == holder' = IF holder = t THEN NoThread ELSE holder

UnlockRegion(t) ==
  /\ pc[t] = Idle /\ holder = t
  /\ Release(t)
  /\ inTx' = inTx \ {t}
  /\ UNCHANGED <<objectVars, threadVars, rlocks, aborted, view>>

\* A regionlock is copied, within a thread or to another one.
CopyRlock(t, u) ==
  /\ pc[t] = Idle /\ rlocks[t] > 0 /\ rlocks[u] < MaxRlocks
  /\ rlocks' = [rlocks EXCEPT ![u] = @ + 1]
  /\ UNCHANGED <<objectVars, threadVars, holder, aborted, inTx, view>>

\* rlock_destroy(): the end of the scope of one copy ends the transaction.
DestroyRlock(t) ==
  /\ pc[t] = Idle /\ rlocks[t] > 0
  /\ rlocks' = [rlocks EXCEPT ![t] = @ - 1]
  /\ Release(t)
  /\ inTx' = inTx \ {t}
  /\ UNCHANGED <<objectVars, threadVars, aborted, view>>

\* rlock_assign() to a variable drops its old value without unlocking.
OverwriteRlock(t) ==
  /\ pc[t] = Idle /\ rlocks[t] > 0
  /\ rlocks' = [rlocks EXCEPT ![t] = @ - 1]
  /\ UNCHANGED <<objectVars, threadVars, holder, aborted, inTx, view>>

\* rlock_destroy() of a regionlock that was never assigned.
DestroyNull(t) ==
  /\ pc[t] = Idle
  /\ aborted' = TRUE
  /\ UNCHANGED <<regionVars, objectVars, threadVars, view>>

-----------------------------------------------------------------------------
\* makeSharedObject() locks the table of names unless the caller has done so;
\* that of the region has the region's lock, which the caller keeps if it had
\* it.  The object may be there already, made by this thread or another one.
UnlockAlways(t) == holder' = NoThread
RestoreLock(t) == holder' = holder

Make(t, o) ==
  /\ pc[t] = Idle
  /\ o \in Shared => holder \in {NoThread, t}
  /\ named' = named \cup {o}
  /\ IF o \in Shared THEN RestoreLock(t) ELSE UNCHANGED holder
  /\ pc' = [pc EXCEPT ![t] = <<"making", o>>]
  /\ UNCHANGED <<lockOf, owner, entries, known, rlocks, aborted, inTx, view>>

\* The name has an object of another type: the NULL is used.
MakeOther(t) ==
  /\ pc[t] = Idle /\ named # {}
  /\ aborted' = TRUE
  /\ UNCHANGED <<regionVars, objectVars, threadVars, view>>

\* set_region() follows when the object can already be found; for an atomic
\* object it makes a new lock each time, also if the object has one.
ForgetLists(o) ==
  lockOf' = [lockOf EXCEPT ![o] = IF o \in Lists THEN @ ELSE @ + 1]
AnotherLock(o) == lockOf' = [lockOf EXCEPT ![o] = @ + 1]
SetRegion(o) ==
  lockOf' = [lockOf EXCEPT ![o] = IF o \in Atomic THEN @ + 1 ELSE 1]

FinishMake(t, o) ==
  /\ pc[t] = <<"making", o>>
  /\ o \in Atomic => lockOf[o] < MaxLocks
  /\ SetRegion(o)
  /\ known' = known \cup {o}
  /\ pc' = [pc EXCEPT ![t] = Idle]
  /\ UNCHANGED <<regionVars, named, owner, entries, aborted, view>>

\* bindSharedObject() finds atomic objects by their names, from the moment that
\* makeSharedObject() enters them.
Bind(t, o) ==
  /\ pc[t] = Idle /\ o \in Atomic \cap named
  /\ known' = known \cup {o}
  /\ UNCHANGED <<regionVars, objectVars, pc, aborted, view>>

-----------------------------------------------------------------------------
\* A put to a shared object, refused unless the caller has locked the region.
Anyone(t) == TRUE
TxBegin(t) == holder = t

PutShared(t, o) ==
  /\ pc[t] = Idle /\ o \in Shared \cap known /\ lockOf[o] # 0
  /\ TxBegin(t)
  /\ \E k \in Keys, v \in Values :
       /\ Put(o, k, v)
       /\ view' = IF t \in inTx THEN [view EXCEPT ![o][k] = v] ELSE view
  /\ UNCHANGED <<regionVars, named, lockOf, owner, threadVars, aborted>>

\* tx_begin() of an atomic object, or of any that has neither lock nor region.
\* NoLock does not wait for the lock.
NoLock(o) == TRUE
LockFree(o) == owner[o][lockOf[o]] = NoThread

Enter(t, o) ==
  /\ pc[t] = Idle /\ o \in known
  /\ lockOf[o] # 0 => o \in Atomic /\ LockFree(o)
  /\ IF lockOf[o] = 0
       THEN aborted' = TRUE /\ UNCHANGED <<owner, pc>>
       ELSE /\ owner' = [owner EXCEPT ![o][lockOf[o]] = t]
            /\ pc' = [pc EXCEPT ![t] = <<"inside", o>>]
            /\ UNCHANGED aborted
  /\ UNCHANGED <<regionVars, named, lockOf, entries, known, view>>

\* The access: put() stores a value, get() and check() change nothing.
Access(t, o) ==
  /\ pc[t] = <<"inside", o>>
  /\ UNCHANGED entries \/ \E k \in Keys, v \in Values : Put(o, k, v)
  /\ pc' = [pc EXCEPT ![t] = <<"leaving", o>>]
  /\ UNCHANGED <<regionVars, named, lockOf, owner, known, aborted, view>>

\* tx_end() unlocks the lock the object has now, which may be another one.
Leave(t, o) ==
  /\ pc[t] = <<"leaving", o>>
  /\ pc' = [pc EXCEPT ![t] = Idle]
  /\ IF owner[o][lockOf[o]] = t
       THEN /\ owner' = [owner EXCEPT ![o][lockOf[o]] = NoThread]
            /\ UNCHANGED aborted
       ELSE UNCHANGED owner /\ aborted' = TRUE
  /\ UNCHANGED <<regionVars, named, lockOf, entries, known, view>>

RegionStep(t) ==
  \/ LockRegion(t) \/ RegionLock(t) \/ UnlockRegion(t)
  \/ \E u \in Threads : CopyRlock(t, u)
  \/ DestroyRlock(t) \/ OverwriteRlock(t) \/ DestroyNull(t)

ObjectStep(t) ==
  \/ MakeOther(t)
  \/ \E o \in Objects :
       \/ Make(t, o) \/ FinishMake(t, o) \/ Bind(t, o)
       \/ PutShared(t, o) \/ Enter(t, o) \/ Access(t, o) \/ Leave(t, o)

Next == ~aborted /\ \E t \in Threads : RegionStep(t) \/ ObjectStep(t)

Spec == Init /\ [][Next]_vars

-----------------------------------------------------------------------------
Slots == Values \cup {Unset}

\* The fields keep their types; the objects of the region have its lock only.
TypeOK ==
  /\ holder \in Threads \cup {NoThread}
  /\ rlocks \in [Threads -> Nat]
  /\ named \subseteq Objects
  /\ lockOf \in [Objects -> Nat]
  /\ \A o \in Shared : lockOf[o] \in {0, 1}
  /\ \A o \in Atomic : lockOf[o] <= MaxLocks
  /\ owner \in [Atomic -> [1 .. MaxLocks -> Threads \cup {NoThread}]]
  /\ entries \in [Objects -> Seq(Slots) \cup [Keys -> Slots]]
  /\ \A o \in Objects :
       entries[o] \in IF o \in Lists THEN Seq(Slots) ELSE [Keys -> Slots]
  /\ known \subseteq Objects
  /\ pc \in [Threads -> {Idle} \cup {"making"} \X Objects
                       \cup {"inside", "leaving"} \X Atomic]
  /\ aborted \in BOOLEAN
  /\ inTx \subseteq Threads
  /\ view \in [Shared -> [Keys -> Slots]]

\* A transaction lasts from locking the region to unlocking it, by the command
\* or with a regionlock: making objects in between does not end it, and another
\* thread's copy of the regionlock cannot.
InTransaction == inTx = {holder} \ {NoThread}

\* Isolation: throughout its transaction a thread finds in the region, tables
\* and lists alike, what was there at the start and its own changes.
Isolation == inTx # {} => view = Contents

Inside(o) == {t \in Threads : pc[t] \in {"inside", "leaving"} \X {o}}
AloneIn(o) == \A t, u \in Threads : {t, u} \subseteq Inside(o) => t = u

\* Until an atomic object is made a second time, at most one thread is inside
\* its entries, whatever the order of making, finding and using it.
AloneUntilRemade == \A o \in Atomic : lockOf[o] <= 1 => AloneIn(o)

\* makeSharedObject() puts an object in the name table before it has a lock.  As
\* long as it cannot be used, a thread is still on the way to set_region(): none
\* stays without a lock when the commands that make it have returned.
UsableOnceMade ==
  \A o \in known : lockOf[o] = 0 => \E t \in Threads : pc[t] = <<"making", o>>

-----------------------------------------------------------------------------
\* What the documentation says and the code does not do.

\* doc/primitives.md: an atomic table holds values that several threads can access
\* concurrently.  But making an object that exists is allowed, and replaces its
\* lock: a thread inside the object and one that comes then are in it together.
AccessAlone == \A o \in Atomic : AloneIn(o)

\* doc/primitives.md: it is written to with putTable and read with getTable.  But
\* a thread that has found it by its name may have it before it has a lock.
Usable == \A o \in known : lockOf[o] # 0
==============================================================================
