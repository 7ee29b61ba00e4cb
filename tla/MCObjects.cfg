SPECIFICATION ObjectsSpec
CONSTANTS
  Threads = {t1, t2}
  NoThread = NoThread
  Atomic = {a}
  Shared = {s, l}
  Lists = {a, l}
  Values = {v}
  Unset = Unset
  MaxIndex = 2
  MaxLocks = 2
  MaxRlocks = 2
  Senders = {s1, s2}
  Receivers = {r1, r2, r3}
  MaxSends = 3
  t1 = t1  t2 = t2  o1 = o1
  Interpreters = {t1, t2}
  Referents = {o1}
  Small = 3
  CoefNames = {"real"}
  Weighted = {2}
  Unsupported = {3}
  Rings <- RingSet
  Storable <- ValueSet
  Scopes <- ScopeOf
  MaxRefs = 4
INVARIANTS
  InTransaction
  Isolation
  AloneUntilRemade
  UsableOnceMade
  EnoughAwake
  FirstInFirstOut
  RoundTrip
  RefsCovered
PROPERTY Served
CHECK_DEADLOCK FALSE
