SPECIFICATION Spec
CONSTANTS
  Videos = {v1}
  w1 = w1
  w2 = w2
  Workers = {w1, w2}
  Titles = {t1, t2}
  None = None
  MaxClips = 2
  ProcessRetries = 2
  RenderRetries = 2
  CleanupOnSuccess = TRUE
  KeepOnFailure = TRUE
  CrashTasks = {}
  Events = {"broker"}
  MaxEvents = 1
SYMMETRY WorkerSymmetry
INVARIANTS
  StageInputsExist
  CompletedHasOutput
  SummaryMatches
  OneAtATime
  FailedDirKept
PROPERTIES
  LifecycleSpec
CHECK_DEADLOCK FALSE
