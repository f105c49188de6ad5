SPECIFICATION Spec
CONSTANTS
  Caching = TRUE
  Duration = 2
  MaxSegments = 3
  TasksPerChild = 2
  MaxTasks = 3
  Faults = {"db"}
INVARIANTS
  ProgressFailureIsHarmless
CHECK_DEADLOCK FALSE
