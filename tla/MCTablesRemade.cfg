SPECIFICATION Spec
CONSTANTS
  Threads = {t1, t2}
  NoThread = NoThread
  Atomic = {a}
  Shared = {s, l}
  Lists = {a, l}
  Values = {v}
  Unset = Unset
  MaxIndex = 2
  MaxLocks = 2
  MaxRlocks = 2
INVARIANT AccessAlone
CHECK_DEADLOCK FALSE
