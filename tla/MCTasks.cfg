SPECIFICATION LiveSpec
CONSTANTS
  Workers = {1, 2}
  MaxTasks <- TasksOf
  MaxNesting = 2
INVARIANTS
  OnePlace
PROPERTIES
  ImplementsTasks
  WaitsEnd
CHECK_DEADLOCK FALSE
