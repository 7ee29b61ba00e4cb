SPECIFICATION WaitingSpec
CONSTANTS
  Threads = {t1, t2, t3}
  Conds = {c1, c2}
  NoThread = NoThread
  Recursive = TRUE
  MaxDepth = 2
  Users = {t1, t2, t3}
  MaxUpdates = 1
INVARIANTS
  OwnerHoldsMutex
  WaitingCountsWaiters
  UpdatesKept
  NoneAsleep
PROPERTIES
  ImplementsMonitor
  ReadersReturn
CHECK_DEADLOCK FALSE
