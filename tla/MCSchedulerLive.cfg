SPECIFICATION FairSpec
CONSTANTS
  c1 = c1  c2 = c2  w1 = w1  w2 = w2
  j1 = j1  j2 = j2  j3 = j3
  Workers = {w1, w2}
  Clients = {c1, c2}
  Jobs = {j1, j2}
  ExecJobs = {}
  NoThread = NoThread
  NoJob = NoJob
  Handles <- OneClient
  Cancellers = {c2}
  Waiters = {c1, c2}
  Closers = {c1}
  CloseModes = {TRUE, FALSE}
INVARIANT
  CloseInSync
PROPERTIES
  CloseReturns
  JobsFinish
  WaitersReturn
CHECK_DEADLOCK FALSE
