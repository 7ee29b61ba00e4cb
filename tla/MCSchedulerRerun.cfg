SPECIFICATION Spec
CONSTANTS
  c1 = c1  c2 = c2  w1 = w1  w2 = w2
  j1 = j1  j2 = j2  j3 = j3
  Workers = {w1, w2}
  Clients = {c1}
  Jobs = {j1, j2, j3}
  ExecJobs = {}
  NoThread = NoThread
  NoJob = NoJob
  Handles <- OneClient
  Cancellers = {}
  Waiters = {}
  Closers = {}
  CloseModes = {}
INVARIANT DependenciesMet
CHECK_DEADLOCK FALSE
