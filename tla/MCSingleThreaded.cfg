SPECIFICATION FairSpec
CONSTANTS
  t1 = t1  t2 = t2
  Threads = {t1, t2}
  Jobs = {j1, j2}
  ExecJobs = {e1}
  NoThread = NoThread
  NoJob = NoJob
  Handles <- HandleOf
  Cancellers = {t2}
  Closers = {t1}
INVARIANT CurrentJob
PROPERTIES
  ImplementsPool
  NoJobGivenUp
  MainReturns
CHECK_DEADLOCK FALSE
