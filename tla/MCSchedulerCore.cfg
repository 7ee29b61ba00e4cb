SPECIFICATION Spec
CONSTANTS
  c1 = c1  c2 = c2  w1 = w1  w2 = w2
  j1 = j1  j2 = j2  j3 = j3
  Workers = {w1, w2}
  Clients = {c1, c2}
  Jobs = {j1, j2, j3}
  ExecJobs = {e1}
  NoThread = NoThread
  NoJob = NoJob
  Handles <- Several
  Cancellers = {c2}
  Waiters = {}
  Closers = {}
  CloseModes = {}
INVARIANTS
  NoLostJob
  InputsReady
  SomeoneAwake
  ResultReady
  InitializedFirst
PROPERTIES
  ImplementsPool
CHECK_DEADLOCK FALSE
