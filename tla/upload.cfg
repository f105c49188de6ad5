SPECIFICATION Spec
CONSTANTS
  Uploads = {u1, u2}
  Names = {n1, n2}
  None = None
  MaxSize = 2
  IngestRetries = 1
INVARIANTS
  SizeCap
  RejectedLeavesNothing
  IngestsWholeUpload
CHECK_DEADLOCK FALSE
