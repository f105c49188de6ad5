SPECIFICATION Spec
CONSTANTS
  Videos = {v1}
  w1 = w1
  w2 = w2
  Workers = {w1, w2}
  Titles = {t1}
  None = None
  MaxClips = 1
  ProcessRetries = 0
  RenderRetries = 0
  CleanupOnSuccess = TRUE
  KeepOnFailure = TRUE
  CrashTasks = {}
  Events = {"rerender"}
  MaxEvents = 1
SYMMETRY WorkerSymmetry
INVARIANTS
  StageInputsExist
CHECK_DEADLOCK FALSE
