SPECIFICATION FairSpec
CONSTANTS
  Videos = {v1}
  w1 = w1
  w2 = w2
  Workers = {w1, w2}
  Titles = {t1}
  None = None
  MaxClips = 2
  ProcessRetries = 0
  RenderRetries = 1
  CleanupOnSuccess = TRUE
  KeepOnFailure = FALSE
  CrashTasks = {"render_clip", "finalize_video"}
  Events = {"crash"}
  MaxEvents = 1
INVARIANTS
  RunningIsOwned
  AllAttempted
  SourceOutlivesChord
  JobsSettled
PROPERTIES
  CompletedOnce
  Settles
CHECK_DEADLOCK FALSE
