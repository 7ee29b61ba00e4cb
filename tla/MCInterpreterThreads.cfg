SPECIFICATION FairSpec
CONSTANTS
  Clients = {c1, c2}
  MaxThreads = 2
  MaxCreated = 2
  MaxTasks = 2
INVARIANTS
  SlotsMatch
  ResultsInOrder
  JoinedDone
PROPERTIES
  ResultComes
  JoinReturns
CHECK_DEADLOCK FALSE
