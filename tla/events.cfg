SPECIFICATION Spec
CONSTANTS
  Videos = {v1}
  w1 = w1
  w2 = w2
  Workers = {w1, w2}
  Titles = {t1}
  None = None
  MaxClips = 2
  ProcessRetries = 0
  RenderRetries = 1
  CleanupOnSuccess = TRUE
  KeepOnFailure = FALSE
  CrashTasks = {"process_video", "render_clip", "finalize_video"}
  Events = {"crash", "redeliver", "kill", "db", "disk", "broker", "purge", "rerender"}
  MaxEvents = 1
SYMMETRY WorkerSymmetry
INVARIANTS
  NoLostRender
  FinalizeAfterAll
  ClipHasTranscript
CHECK_DEADLOCK FALSE
