SPECIFICATION FairSpec
CONSTANTS
  Videos = {v1}
  w1 = w1
  w2 = w2
  Workers = {w1, w2}
  Titles = {t1}
  None = None
  MaxClips = 1
  ProcessRetries = 0
  RenderRetries = 0
  CleanupOnSuccess = TRUE
  KeepOnFailure = TRUE
  CrashTasks = {"process_video"}
  Events = {"crash"}
  MaxEvents = 1
PROPERTIES
  Settles
CHECK_DEADLOCK FALSE
