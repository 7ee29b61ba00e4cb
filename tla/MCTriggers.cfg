SPECIFICATION Spec
CONSTANTS
  j1 = j1  t1 = t1  t2 = t2
  Workers = {w1, w2}
  Clients = {c1}
  NoThread = NoThread
  Jobs = {j1, j2}
  HasResult = {j1}
  Trigs = {t1, t2}
  NoTask = NoTask
  Links <- Chain
  Arguments <- ArgumentLists
  Limits = {1, 2}
  MaxUpdates = 1
INVARIANTS
  NoLostTrigger
  NoLostResult
PROPERTY
  StableTrigger
CHECK_DEADLOCK FALSE
