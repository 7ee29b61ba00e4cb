---------------------------- MODULE TablesProofs -----------------------------
(***************************************************************************)
(* Regions, tables and lists for any threads, objects and keys: isolation, *)
(* and what the locks of atomic objects guarantee although objects can be  *)
(* made again and found before they have one.                              *)
(***************************************************************************)
EXTENDS Tables, SequenceTheorems, TLAPS

\* What is made or known has a name, and what has a name has a lock unless a
\* thread is on its way to set_region().
Made(o) == lockOf[o] = 0 => \E t \in Threads : pc[t] = <<"making", o>>

NamesMade ==
  /\ \A t \in Threads : \A o \in Objects : pc[t] = <<"making", o>> => o \in named
  /\ known \subseteq named
  /\ \A o \in named : Made(o)

\* A thread inside an object has taken one of the locks that the object has had,
\* not necessarily the last.
LocksHeld ==
  \A o \in Atomic : \A t \in Inside(o) :
    \E n \in 1 .. lockOf[o] : owner[o][n] = t

IInv ==
  /\ TypeOK
  /\ InTransaction
  /\ Isolation
  /\ NamesMade
  /\ LocksHeld

\* The part of TypeOK about the contents.
Entries ==
  \A o \in Objects :
    entries[o] \in IF o \in Lists THEN Seq(Slots) ELSE [Keys -> Slots]

\* Putting an item in a list leaves a list, with the item under its index and
\* every other index as it was; if the list has grown, those in between are
\* unset.
LEMMA ListPutItem ==
  ASSUME NEW s \in Seq(Slots), NEW k \in Nat \ {0}, NEW v \in Values
  PROVE  /\ ListPut(s, k, v) \in Seq(Slots)
         /\ k \in DOMAIN ListPut(s, k, v)
         /\ DOMAIN s \subseteq DOMAIN ListPut(s, k, v)
         /\ \A j \in DOMAIN ListPut(s, k, v) :
              ListPut(s, k, v)[j] = IF j = k THEN v
                                    ELSE IF j \in DOMAIN s THEN s[j]
                                    ELSE Unset
<1> DEFINE n == Len(s)
<1>1. n \in Nat /\ s \in [1 .. n -> Slots] /\ v \in Slots /\ Unset \in Slots
  BY DEF Slots
<1>2. CASE k \in DOMAIN s
  <2>1. ListPut(s, k, v) = [s EXCEPT ![k] = v]
    BY <1>2 DEF ListPut
  <2>2. [s EXCEPT ![k] = v] \in [1 .. n -> Slots]
    BY <1>1
  <2>3. [s EXCEPT ![k] = v] \in Seq(Slots)
    BY <1>1, <1>2, ExceptSeq
  <2> QED
    BY <1>1, <1>2, <2>1, <2>2, <2>3
<1>3. CASE k \notin DOMAIN s
  <2>1. ListPut(s, k, v) = [Resize(s, k + 1) EXCEPT ![k] = v]
    BY <1>3 DEF ListPut
  <2>2. n < k
    BY <1>1, <1>3
  <2>3. Resize(s, k + 1) \in [1 .. k + 1 -> Slots]
    BY <1>1 DEF Resize
  <2>4. ListPut(s, k, v) \in [1 .. k + 1 -> Slots]
    BY <1>1, <2>1, <2>3
  <2>5. ListPut(s, k, v) \in Seq(Slots)
    BY <2>4, SeqDef
  <2>6. \A j \in 1 .. k + 1 :
          ListPut(s, k, v)[j] = IF j = k THEN v ELSE Resize(s, k + 1)[j]
    BY <2>1, <2>3
  <2>7. \A j \in 1 .. k + 1 :
          Resize(s, k + 1)[j] = IF j \in DOMAIN s THEN s[j] ELSE Unset
    BY DEF Resize
  <2>8. DOMAIN ListPut(s, k, v) = 1 .. k + 1
    BY <2>4
  <2>9. k \in 1 .. k + 1 /\ DOMAIN s \subseteq 1 .. k + 1
    BY <1>1, <2>2
  <2> QED
    BY <2>5, <2>6, <2>7, <2>8, <2>9
<1> QED
  BY <1>2, <1>3

\* A put changes what is under one key of one object, in a list that has to
\* grow as in a table.
LEMMA LookupPut ==
  ASSUME Entries, entries \in [Objects -> Seq(Slots) \cup [Keys -> Slots]],
         NEW o \in Objects, NEW k \in Keys, NEW v \in Values, Put(o, k, v)
  PROVE  /\ Entries'
         /\ entries' \in [Objects -> Seq(Slots) \cup [Keys -> Slots]]
         /\ \A p \in Objects, j \in Keys :
              Lookup(p, j)' = IF p = o /\ j = k THEN v ELSE Lookup(p, j)
<1>0. k \in Nat \ {0} /\ v \in Slots
  BY BoundsAssumption DEF Keys, Slots
<1>1. \A p \in Objects : p # o => entries'[p] = entries[p]
  BY DEF Put
<1>2. \A p \in Objects, j \in Keys : p # o => Lookup(p, j)' = Lookup(p, j)
  BY <1>1 DEF Lookup
<1>3. CASE o \in Lists
  <2>1. entries'[o] = ListPut(entries[o], k, v) /\ entries[o] \in Seq(Slots)
    BY <1>3 DEF Put, Entries
  <2>2. /\ entries'[o] \in Seq(Slots)
        /\ k \in DOMAIN entries'[o]
        /\ DOMAIN entries[o] \subseteq DOMAIN entries'[o]
        /\ \A j \in DOMAIN entries'[o] :
             entries'[o][j] = IF j = k THEN v
                              ELSE IF j \in DOMAIN entries[o] THEN entries[o][j]
                              ELSE Unset
    <3> DEFINE old == entries[o]
    <3>1. old \in Seq(Slots)
      BY <2>1
    <3> HIDE DEF old
    <3>2. /\ ListPut(old, k, v) \in Seq(Slots)
          /\ k \in DOMAIN ListPut(old, k, v)
          /\ DOMAIN old \subseteq DOMAIN ListPut(old, k, v)
          /\ \A j \in DOMAIN ListPut(old, k, v) :
               ListPut(old, k, v)[j] = IF j = k THEN v
                                       ELSE IF j \in DOMAIN old THEN old[j]
                                       ELSE Unset
      BY <1>0, <3>1, ListPutItem
    <3> USE DEF old
    <3> QED
      BY <2>1, <3>2, Zenon
  <2>3. \A j \in Keys : Lookup(o, j)' = IF j = k THEN v ELSE Lookup(o, j)
    BY <1>3, <2>2 DEF Lookup
  <2>4. Entries'
    BY <1>1, <1>3, <2>2 DEF Entries
  <2> QED
    BY <1>2, <2>2, <2>3, <2>4 DEF Put
<1>4. CASE o \notin Lists
  <2>1. entries'[o] = [entries[o] EXCEPT ![k] = v]
          /\ entries[o] \in [Keys -> Slots]
    BY <1>4 DEF Put, Entries
  <2>2. entries'[o] \in [Keys -> Slots]
    BY <1>0, <2>1
  <2>3. \A j \in Keys : Lookup(o, j)' = IF j = k THEN v ELSE Lookup(o, j)
    BY <1>4, <2>1 DEF Lookup
  <2>4. Entries'
    BY <1>1, <1>4, <2>2 DEF Entries
  <2> QED
    BY <1>2, <2>2, <2>3, <2>4 DEF Put
<1> QED
  BY <1>3, <1>4

\* What is under a key of the region's objects is a value or unset.
LEMMA ContentsTyped == Entries => Contents \in [Shared -> [Keys -> Slots]]
<1> SUFFICES ASSUME Entries, NEW o \in Shared, NEW k \in Keys
             PROVE  Lookup(o, k) \in Slots
  BY DEF Contents
<1>1. o \in Objects /\ Unset \in Slots
  BY DEF Objects, Slots
<1>2. CASE o \in Lists
  BY <1>1, <1>2, ElementOfSeq DEF Entries, Lookup
<1>3. CASE o \notin Lists
  BY <1>1, <1>3 DEF Entries, Lookup
<1> QED
  BY <1>2, <1>3

-----------------------------------------------------------------------------
\* No object has a name, a lock or an entry at first.
LEMMA InitInvariant == Init => IInv
<1> SUFFICES ASSUME Init PROVE IInv
  OBVIOUS
<1>1. entries = [o \in Objects |-> Empty(o)]
  BY DEF Init
<1>2. \A o \in Objects :
        Empty(o) \in IF o \in Lists THEN Seq(Slots) ELSE [Keys -> Slots]
  BY EmptySeq DEF Empty, Slots
<1>3. Entries /\ entries \in [Objects -> Seq(Slots) \cup [Keys -> Slots]]
  BY <1>1, <1>2 DEF Entries
<1>4. view \in [Shared -> [Keys -> Slots]]
  BY <1>3, ContentsTyped DEF Init
<1>5. TypeOK
  <2>1. MaxLocks \in Nat
    BY BoundsAssumption
  <2>2. lockOf \in [Objects -> Nat] /\ \A o \in Objects : lockOf[o] = 0
    BY DEF Init
  <2>3. \A o \in Shared : lockOf[o] \in {0, 1}
    BY <2>2 DEF Objects
  <2>4. \A o \in Atomic : lockOf[o] <= MaxLocks
    BY <2>1, <2>2 DEF Objects
  <2>5. owner \in [Atomic -> [1 .. MaxLocks -> Threads \cup {NoThread}]]
    BY DEF Init
  <2>6. pc \in [Threads -> {Idle} \cup {"making"} \X Objects
                            \cup {"inside", "leaving"} \X Atomic]
    BY DEF Init
  <2>7. /\ holder \in Threads \cup {NoThread} /\ rlocks \in [Threads -> Nat]
        /\ named \subseteq Objects /\ known \subseteq Objects
        /\ aborted \in BOOLEAN /\ inTx \subseteq Threads
    BY DEF Init
  <2> QED
    BY <1>3, <1>4, <2>2, <2>3, <2>4, <2>5, <2>6, <2>7 DEF TypeOK, Entries
<1>6. \A o \in Atomic : Inside(o) = {}
  BY DEF Init, Inside, Idle
<1>7. InTransaction /\ Isolation /\ LocksHeld
  BY <1>6 DEF Init, InTransaction, Isolation, LocksHeld
<1>8. NamesMade
  BY DEF Init, NamesMade, Idle
<1> QED
  BY <1>5, <1>7, <1>8 DEF IInv

\* The invariants of the objects do not mention the region and conversely.
ObjectInv == NamesMade /\ LocksHeld

LEMMA ObjectInvKept ==
  ASSUME ObjectInv, UNCHANGED <<named, lockOf, owner, known, pc>>
  PROVE  ObjectInv'
<1>1. \A o : Inside(o)' = Inside(o)
  BY DEF Inside
<1> QED
  BY <1>1 DEF ObjectInv, NamesMade, Made, LocksHeld

\* A step that neither starts nor ends the making of an object keeps NamesMade.
Elsewhere(place) == \A o \in Objects : place # <<"making", o>>

LEMMA NamesKept ==
  ASSUME NamesMade, UNCHANGED <<named, lockOf, known>>, named \subseteq Objects,
         NEW t \in Threads, NEW place, NEW Places, pc \in [Threads -> Places],
         pc' = [pc EXCEPT ![t] = place], Elsewhere(pc[t]), Elsewhere(place)
  PROVE  NamesMade'
<1>1. \A u \in Threads : \A o \in Objects :
        pc'[u] = <<"making", o>> <=> pc[u] = <<"making", o>>
  BY DEF Elsewhere
<1> QED
  BY <1>1 DEF NamesMade, Made

LEMMA ElsewherePlaces ==
  ASSUME NEW o
  PROVE  Elsewhere(Idle) /\ Elsewhere(<<"inside", o>>) /\ Elsewhere(<<"leaving", o>>)
BY DEF Elsewhere, Idle

LEMMA ContentsKept == UNCHANGED entries => UNCHANGED Contents
  BY DEF Contents, Lookup

\* The commands on the region and its regionlocks keep the invariant.
LEMMA RegionInvariant ==
  ASSUME IInv, NEW t \in Threads, RegionStep(t)
  PROVE  IInv'
<1>1. UNCHANGED <<named, lockOf, owner, entries, known, pc>>
  BY DEF RegionStep, LockRegion, RegionLock, UnlockRegion, CopyRlock,
         DestroyRlock, OverwriteRlock, DestroyNull, objectVars, threadVars
<1>2. ObjectInv'
  BY <1>1, ObjectInvKept DEF IInv, ObjectInv
<1>3. Contents' = Contents /\ Contents \in [Shared -> [Keys -> Slots]]
  BY <1>1, ContentsKept, ContentsTyped DEF IInv, TypeOK, Entries
<1>4. TypeOK /\ InTransaction /\ Isolation
  BY DEF IInv
<1>5. ASSUME Acquire(t), rlocks' \in [Threads -> Nat], aborted' = aborted
      PROVE  TypeOK' /\ InTransaction' /\ Isolation'
  <2>1. TypeOK'
    BY <1>1, <1>3, <1>4, <1>5 DEF TypeOK, Acquire
  <2>2. InTransaction'
    BY <1>4, <1>5, ThreadsAssumption DEF InTransaction, Acquire
  <2>3. Isolation'
    BY <1>3, <1>5 DEF Isolation, Acquire
  <2> QED
    BY <2>1, <2>2, <2>3
<1>6. ASSUME Release(t), inTx' = inTx \ {t}, view' = view, aborted' = aborted,
             rlocks' \in [Threads -> Nat]
      PROVE  TypeOK' /\ InTransaction' /\ Isolation'
  <2>1. TypeOK'
    BY <1>1, <1>4, <1>6 DEF TypeOK, Release
  <2>2. InTransaction'
    BY <1>4, <1>6 DEF InTransaction, Release, TypeOK
  <2>3. Isolation'
    BY <1>3, <1>4, <1>6 DEF Isolation
  <2> QED
    BY <2>1, <2>2, <2>3
<1>7. ASSUME UNCHANGED <<holder, inTx, view>>, rlocks' \in [Threads -> Nat],
             aborted' \in BOOLEAN
      PROVE  TypeOK' /\ InTransaction' /\ Isolation'
  <2>1. TypeOK'
    BY <1>1, <1>4, <1>7 DEF TypeOK
  <2>2. InTransaction' /\ Isolation'
    BY <1>3, <1>4, <1>7 DEF InTransaction, Isolation
  <2> QED
    BY <2>1, <2>2
<1>8. TypeOK' /\ InTransaction' /\ Isolation'
  <2>0. rlocks \in [Threads -> Nat] /\ aborted \in BOOLEAN
    BY <1>4 DEF TypeOK
  <2>1. CASE LockRegion(t)
    BY <1>5, <2>0, <2>1 DEF LockRegion
  <2>2. CASE RegionLock(t)
    BY <1>5, <2>0, <2>2 DEF RegionLock
  <2>3. CASE UnlockRegion(t)
    BY <1>6, <2>0, <2>3 DEF UnlockRegion
  <2>4. ASSUME NEW u \in Threads, CopyRlock(t, u)
        PROVE  TypeOK' /\ InTransaction' /\ Isolation'
    BY <1>7, <2>0, <2>4 DEF CopyRlock
  <2>5. CASE DestroyRlock(t)
    BY <1>6, <2>0, <2>5 DEF DestroyRlock
  <2>6. CASE OverwriteRlock(t)
    BY <1>7, <2>0, <2>6 DEF OverwriteRlock
  <2>7. CASE DestroyNull(t)
    BY <1>7, <2>0, <2>7 DEF DestroyNull, regionVars
  <2> QED
    BY <2>1, <2>2, <2>3, <2>4, <2>5, <2>6, <2>7 DEF RegionStep
<1> QED
  BY <1>2, <1>8 DEF IInv, ObjectInv

\* The commands on objects keep it.
LEMMA ObjectInvariant ==
  ASSUME IInv, NEW t \in Threads, ObjectStep(t)
  PROVE  IInv'
<1>1. TypeOK /\ InTransaction /\ Isolation /\ ObjectInv
  BY DEF IInv, ObjectInv
<1>2. Contents \in [Shared -> [Keys -> Slots]]
  BY <1>1, ContentsTyped DEF TypeOK, Entries
<1>3. ASSUME UNCHANGED <<regionVars, entries, view>>
      PROVE  InTransaction' /\ Isolation'
  BY <1>1, <1>3, ContentsKept DEF InTransaction, Isolation, regionVars
<1>4. ASSUME MakeOther(t) PROVE IInv'
  <2>1. TypeOK' /\ ObjectInv'
    BY <1>1, <1>4, ObjectInvKept
    DEF MakeOther, regionVars, objectVars, threadVars, TypeOK
  <2> QED
    BY <1>3, <1>4, <2>1 DEF MakeOther, objectVars, IInv, ObjectInv
<1>5. ASSUME NEW o \in Objects, Make(t, o) PROVE IInv'
  <2>1. TypeOK'
    BY <1>1, <1>5 DEF Make, RestoreLock, TypeOK
  <2>2. InTransaction' /\ Isolation'
    BY <1>3, <1>5 DEF Make, RestoreLock, regionVars
  <2>3. \A p \in Objects : Inside(p)' = Inside(p)
    BY <1>1, <1>5 DEF Make, Inside, TypeOK, Idle
  <2>4. LocksHeld'
    BY <1>1, <1>5, <2>3 DEF Make, ObjectInv, LocksHeld, Objects
  <2>5. NamesMade'
    <3>1. pc[t] = Idle /\ pc' = [pc EXCEPT ![t] = <<"making", o>>]
      BY <1>5 DEF Make
    <3>2. \A u \in Threads : \A p \in Objects :
            pc'[u] = <<"making", p>>
              <=> pc[u] = <<"making", p>> \/ (u = t /\ p = o)
      BY <1>1, <3>1 DEF TypeOK, Idle
    <3>3. named' = named \cup {o} /\ UNCHANGED <<lockOf, known>>
      BY <1>5 DEF Make
    <3> QED
      BY <1>1, <3>2, <3>3 DEF ObjectInv, NamesMade, Made, TypeOK
  <2> QED
    BY <2>1, <2>2, <2>4, <2>5 DEF IInv
<1>6. ASSUME NEW o \in Objects, FinishMake(t, o) PROVE IInv'
  <2>0. lockOf' = [lockOf EXCEPT ![o] = IF o \in Atomic THEN @ + 1 ELSE 1]
    BY <1>6 DEF FinishMake, SetRegion
  <2>1. TypeOK'
    <3>1. lockOf' \in [Objects -> Nat]
      BY <1>1, <2>0 DEF TypeOK
    <3>2. \A p \in Shared : lockOf'[p] \in {0, 1}
      BY <1>1, <2>0, ObjectsAssumption DEF TypeOK, Objects
    <3>3. \A p \in Atomic : lockOf'[p] <= MaxLocks
      BY <1>1, <1>6, <2>0, BoundsAssumption DEF TypeOK, FinishMake, Objects
    <3>4. pc' \in [Threads -> {Idle} \cup {"making"} \X Objects
                               \cup {"inside", "leaving"} \X Atomic]
      BY <1>1, <1>6 DEF TypeOK, FinishMake
    <3> QED
      BY <1>1, <1>6, <3>1, <3>2, <3>3, <3>4 DEF TypeOK, FinishMake, regionVars
  <2>2. InTransaction' /\ Isolation'
    BY <1>3, <1>6 DEF FinishMake
  <2>3. \A p \in Objects : Inside(p)' = Inside(p)
    BY <1>1, <1>6 DEF FinishMake, Inside, TypeOK, Idle
  <2>4. LocksHeld'
    <3>1. \A p \in Objects : lockOf[p] \in Nat /\ lockOf'[p] \in Nat
      BY <1>1, <2>1 DEF TypeOK
    <3>2. \A p \in Atomic : lockOf[p] <= lockOf'[p]
      BY <1>1, <2>0, <3>1 DEF TypeOK, Objects
    <3>3. \A p \in Atomic : 1 .. lockOf[p] \subseteq 1 .. lockOf'[p]
      BY <3>1, <3>2 DEF Objects
    <3>4. owner' = owner
      BY <1>6 DEF FinishMake
    <3>5. LocksHeld
      BY <1>1 DEF ObjectInv
    <3> QED
      BY <2>3, <3>3, <3>4, <3>5 DEF LocksHeld, Objects
  <2>5. NamesMade'
    <3>1. pc[t] = <<"making", o>> /\ pc' = [pc EXCEPT ![t] = Idle]
      BY <1>6 DEF FinishMake
    <3>2. \A u \in Threads : \A p \in Objects :
            /\ pc'[u] = <<"making", p>> => pc[u] = <<"making", p>>
            /\ p # o /\ pc[u] = <<"making", p>> => pc'[u] = <<"making", p>>
      BY <1>1, <3>1 DEF TypeOK, Idle
    <3>3. /\ named' = named /\ known' = known \cup {o} /\ lockOf'[o] # 0
          /\ \A p \in Objects : p # o => lockOf'[p] = lockOf[p]
      BY <1>1, <1>6, <2>0 DEF FinishMake, TypeOK
    <3>4. NamesMade /\ o \in named /\ named \subseteq Objects
      BY <1>1, <3>1 DEF ObjectInv, NamesMade, TypeOK
    <3> QED
      BY <3>2, <3>3, <3>4 DEF NamesMade, Made
  <2> QED
    BY <2>1, <2>2, <2>4, <2>5 DEF IInv
<1>7. ASSUME NEW o \in Objects, Bind(t, o) PROVE IInv'
  <2>1. TypeOK'
    BY <1>1, <1>7 DEF Bind, TypeOK, regionVars, objectVars
  <2>2. InTransaction' /\ Isolation'
    BY <1>3, <1>7 DEF Bind, objectVars
  <2>3. \A p \in Objects : Inside(p)' = Inside(p)
    BY <1>7 DEF Bind, Inside
  <2>4. ObjectInv'
    BY <1>1, <1>7, <2>3
    DEF Bind, objectVars, ObjectInv, NamesMade, Made, LocksHeld, Objects
  <2> QED
    BY <2>1, <2>2, <2>4 DEF IInv, ObjectInv
<1>8. ASSUME NEW o \in Objects, PutShared(t, o) PROVE IInv'
  <2>1. PICK k \in Keys, v \in Values :
          /\ Put(o, k, v)
          /\ view' = IF t \in inTx THEN [view EXCEPT ![o][k] = v] ELSE view
    BY <1>8 DEF PutShared
  <2>2. /\ Entries'
        /\ entries' \in [Objects -> Seq(Slots) \cup [Keys -> Slots]]
        /\ \A p \in Objects, j \in Keys :
             Lookup(p, j)' = IF p = o /\ j = k THEN v ELSE Lookup(p, j)
    BY <1>1, <2>1, LookupPut DEF TypeOK, Entries
  <2>3. o \in Shared /\ holder = t /\ inTx = {t}
    BY <1>1, <1>8, ThreadsAssumption DEF PutShared, TxBegin, InTransaction
  <2>4. Contents' = [Contents EXCEPT ![o][k] = v]
    BY <2>2, <2>3 DEF Contents, Objects
  <2>5. view' = Contents' /\ Contents' \in [Shared -> [Keys -> Slots]]
    <3>1. view' = [view EXCEPT ![o][k] = v] /\ view = Contents
      BY <1>1, <2>1, <2>3 DEF Isolation
    <3>2. v \in Slots
      BY DEF Slots
    <3> QED
      BY <1>2, <2>3, <2>4, <3>1, <3>2
  <2>6. TypeOK'
    BY <1>1, <1>8, <2>2, <2>5
    DEF PutShared, TypeOK, Entries, regionVars, threadVars
  <2>7. InTransaction' /\ Isolation'
    BY <1>1, <1>8, <2>5 DEF PutShared, regionVars, InTransaction, Isolation
  <2>8. ObjectInv'
    BY <1>1, <1>8, ObjectInvKept DEF PutShared, threadVars
  <2> QED
    BY <2>6, <2>7, <2>8 DEF IInv, ObjectInv
<1>9. ASSUME NEW o \in Objects, Enter(t, o) PROVE IInv'
  <2>1. InTransaction' /\ Isolation'
    BY <1>3, <1>9 DEF Enter
  <2>2. CASE lockOf[o] = 0
    <3>1. aborted' = TRUE
            /\ UNCHANGED <<regionVars, objectVars, threadVars, view>>
      BY <1>9, <2>2 DEF Enter, objectVars, threadVars
    <3>2. TypeOK'
      BY <1>1, <3>1 DEF TypeOK, regionVars, objectVars, threadVars
    <3>3. ObjectInv'
      BY <1>1, <3>1, ObjectInvKept DEF objectVars, threadVars
    <3> QED
      BY <2>1, <3>2, <3>3 DEF IInv, ObjectInv
  <2>3. CASE lockOf[o] # 0
    <3>1. /\ o \in Atomic /\ owner[o][lockOf[o]] = NoThread /\ pc[t] = Idle
          /\ owner' = [owner EXCEPT ![o][lockOf[o]] = t]
          /\ pc' = [pc EXCEPT ![t] = <<"inside", o>>]
          /\ UNCHANGED <<regionVars, named, lockOf, entries, known, aborted, view>>
      BY <1>9, <2>3 DEF Enter, LockFree
    <3>2. lockOf[o] \in 1 .. MaxLocks /\ lockOf[o] \in 1 .. lockOf[o]
      BY <1>1, <2>3, <3>1, BoundsAssumption DEF TypeOK
    <3>3. TypeOK'
      BY <1>1, <3>1, <3>2 DEF TypeOK, regionVars
    <3>4. \A p \in Atomic :
            Inside(p)' = IF p = o THEN Inside(p) \cup {t} ELSE Inside(p)
      BY <1>1, <3>1 DEF Inside, TypeOK, Idle, Objects
    <3>5. \A p \in Atomic, n \in 1 .. MaxLocks :
            owner'[p][n] = IF p = o /\ n = lockOf[o] THEN t ELSE owner[p][n]
      BY <1>1, <3>1, <3>2 DEF TypeOK
    <3>6. \A p \in Atomic : 1 .. lockOf[p] \subseteq 1 .. MaxLocks
      BY <1>1, BoundsAssumption DEF TypeOK, Objects
    <3>7. LocksHeld'
      <4> SUFFICES ASSUME NEW p \in Atomic, NEW u \in Inside(p)'
                   PROVE  \E n \in 1 .. lockOf[p] : owner'[p][n] = u
        BY <3>1 DEF LocksHeld
      <4>1. CASE p = o /\ u = t
        BY <3>2, <3>5, <4>1
      <4>2. CASE ~(p = o /\ u = t)
        <5>1. u \in Inside(p) /\ u \in Threads
          BY <3>4, <4>2 DEF Inside
        <5>2. PICK n \in 1 .. lockOf[p] : owner[p][n] = u
          BY <1>1, <5>1 DEF ObjectInv, LocksHeld
        <5>3. ~(p = o /\ n = lockOf[o])
          BY <3>1, <5>1, <5>2, ThreadsAssumption
        <5> QED
          BY <3>5, <3>6, <5>2, <5>3
      <4> QED
        BY <4>1, <4>2
    <3>8. NamesMade'
      BY <1>1, <3>1, NamesKept, ElsewherePlaces DEF ObjectInv, TypeOK
    <3> QED
      BY <2>1, <3>3, <3>7, <3>8 DEF IInv
  <2> QED
    BY <2>2, <2>3
<1>10. ASSUME NEW o \in Objects, Access(t, o) PROVE IInv'
  <2>1. o \in Atomic
    BY <1>1, <1>10 DEF Access, TypeOK, Idle
  <2>2. /\ Entries'
        /\ entries' \in [Objects -> Seq(Slots) \cup [Keys -> Slots]]
        /\ \A p \in Shared, j \in Keys : Lookup(p, j)' = Lookup(p, j)
    <3>1. CASE UNCHANGED entries
      BY <1>1, <3>1 DEF TypeOK, Entries, Lookup
    <3>2. ASSUME NEW k \in Keys, NEW v \in Values, Put(o, k, v)
          PROVE  /\ Entries'
                 /\ entries' \in [Objects -> Seq(Slots) \cup [Keys -> Slots]]
                 /\ \A p \in Shared, j \in Keys : Lookup(p, j)' = Lookup(p, j)
      <4>1. o \notin Shared
        BY <2>1, ObjectsAssumption
      <4> QED
        BY <1>1, <3>2, <4>1, LookupPut DEF TypeOK, Entries, Objects
    <3> QED
      BY <1>10, <3>1, <3>2 DEF Access
  <2>3. Contents' = Contents
    BY <2>2 DEF Contents
  <2>4. InTransaction' /\ Isolation'
    BY <1>1, <1>10, <2>3 DEF Access, regionVars, InTransaction, Isolation
  <2>5. TypeOK'
    BY <1>1, <1>10, <2>1, <2>2 DEF Access, TypeOK, Entries, regionVars
  <2>6. \A p \in Objects : Inside(p)' = Inside(p)
    BY <1>1, <1>10 DEF Access, Inside, TypeOK
  <2>7. LocksHeld'
    BY <1>1, <1>10, <2>6 DEF Access, ObjectInv, LocksHeld, Objects
  <2>8. NamesMade'
    BY <1>1, <1>10, NamesKept, ElsewherePlaces DEF Access, ObjectInv, TypeOK
  <2> QED
    BY <2>4, <2>5, <2>7, <2>8 DEF IInv
<1>11. ASSUME NEW o \in Objects, Leave(t, o) PROVE IInv'
  <2>1. InTransaction' /\ Isolation'
    BY <1>3, <1>11 DEF Leave
  <2>2. o \in Atomic /\ t \in Inside(o)
    BY <1>1, <1>11 DEF Leave, Inside, TypeOK, Idle
  <2>3. lockOf[o] \in 1 .. MaxLocks /\ \E n \in 1 .. lockOf[o] : owner[o][n] = t
    <3>1. lockOf[o] \in Nat /\ lockOf[o] <= MaxLocks
      BY <1>1, <2>2 DEF TypeOK
    <3> QED
      BY <1>1, <2>2, <3>1, BoundsAssumption DEF ObjectInv, LocksHeld
  <2>4. /\ pc[t] = <<"leaving", o>> /\ pc' = [pc EXCEPT ![t] = Idle]
        /\ UNCHANGED <<regionVars, named, lockOf, entries, known, view>>
        /\ \/ /\ owner[o][lockOf[o]] = t
              /\ owner' = [owner EXCEPT ![o][lockOf[o]] = NoThread]
              /\ UNCHANGED aborted
           \/ UNCHANGED owner /\ aborted' = TRUE
    BY <1>11 DEF Leave
  <2>5. owner' \in [Atomic -> [1 .. MaxLocks -> Threads \cup {NoThread}]]
          /\ \A p \in Atomic, n \in 1 .. MaxLocks, u \in Threads :
               u # t /\ owner[p][n] = u => owner'[p][n] = u
    <3>1. CASE UNCHANGED owner
      BY <1>1, <3>1 DEF TypeOK
    <3>2. CASE owner[o][lockOf[o]] = t
                 /\ owner' = [owner EXCEPT ![o][lockOf[o]] = NoThread]
      BY <1>1, <2>2, <2>3, <3>2 DEF TypeOK
    <3> QED
      BY <2>4, <3>1, <3>2
  <2>6. \A p \in Atomic : Inside(p)' = Inside(p) \ {t}
    BY <1>1, <2>4 DEF Inside, TypeOK, Idle
  <2>7. TypeOK'
    <3>1. aborted' \in BOOLEAN
      BY <1>1, <2>4 DEF TypeOK
    <3>2. pc' \in [Threads -> {Idle} \cup {"making"} \X Objects
                               \cup {"inside", "leaving"} \X Atomic]
      BY <1>1, <2>4 DEF TypeOK
    <3> QED
      BY <1>1, <2>4, <2>5, <3>1, <3>2 DEF TypeOK, regionVars
  <2>8. LocksHeld'
    <3> SUFFICES ASSUME NEW p \in Atomic, NEW u \in Inside(p) \ {t}
                 PROVE  \E n \in 1 .. lockOf[p] : owner'[p][n] = u
      BY <2>4, <2>6 DEF LocksHeld
    <3>1. PICK n \in 1 .. lockOf[p] : owner[p][n] = u
      BY <1>1 DEF ObjectInv, LocksHeld
    <3>2. n \in 1 .. MaxLocks /\ u \in Threads
      BY <1>1, BoundsAssumption DEF TypeOK, Objects, Inside
    <3> QED
      BY <2>5, <3>1, <3>2
  <2>9. NamesMade'
    BY <1>1, <2>4, NamesKept, ElsewherePlaces DEF ObjectInv, TypeOK
  <2> QED
    BY <2>1, <2>7, <2>8, <2>9 DEF IInv
<1> QED
  BY <1>4, <1>5, <1>6, <1>7, <1>8, <1>9, <1>10, <1>11 DEF ObjectStep

\* All commands keep the invariant.
THEOREM Invariance == Spec => []IInv
<1>1. IInv /\ [Next]_vars => IInv'
  <2> SUFFICES ASSUME IInv, [Next]_vars PROVE IInv'
    OBVIOUS
  <2>1. CASE Next
    BY <2>1, RegionInvariant, ObjectInvariant DEF Next
  <2>2. CASE UNCHANGED vars
    <3>1. ObjectInv' /\ UNCHANGED Contents
      BY <2>2, ObjectInvKept, ContentsKept DEF vars, IInv, ObjectInv
    <3>2. TypeOK'
      BY <2>2 DEF vars, IInv, TypeOK
    <3> QED
      BY <2>2, <3>1, <3>2
      DEF vars, IInv, ObjectInv, InTransaction, Isolation
  <2> QED
    BY <2>1, <2>2
<1> QED
  BY <1>1, InitInvariant, PTL DEF Spec

\* The fields keep their types.
THEOREM TypeCorrect == Spec => []TypeOK
  BY Invariance, PTL DEF IInv

\* The region is locked exactly during transactions.
THEOREM Transactions == Spec => []InTransaction
  BY Invariance, PTL DEF IInv

\* A transaction finds its own changes only.
THEOREM IsolatedRegion == Spec => []Isolation
  BY Invariance, PTL DEF IInv

\* At most one thread is inside an atomic object that was made once: all who are
\* inside have taken its first lock.
THEOREM MutualExclusion == Spec => []AloneUntilRemade
<1>1. IInv => AloneUntilRemade
  <2> SUFFICES ASSUME IInv, NEW o \in Atomic, lockOf[o] <= 1,
                      NEW t \in Inside(o), NEW u \in Inside(o)
               PROVE  t = u
    BY DEF AloneUntilRemade, AloneIn
  <2>1. lockOf[o] \in Nat
    BY DEF IInv, TypeOK, Objects
  <2>2. PICK n \in 1 .. lockOf[o] : owner[o][n] = t
    BY DEF IInv, LocksHeld
  <2>3. PICK k \in 1 .. lockOf[o] : owner[o][k] = u
    BY DEF IInv, LocksHeld
  <2>4. n = k
    BY <2>1
  <2> QED
    BY <2>2, <2>3, <2>4
<1> QED
  BY <1>1, Invariance, PTL

\* An object that somebody has gets its lock unless somebody is still making it.
THEOREM LockedWhenMade == Spec => []UsableOnceMade
<1>1. IInv => UsableOnceMade
  BY DEF IInv, NamesMade, Made, UsableOnceMade
<1> QED
  BY <1>1, Invariance, PTL
==============================================================================
