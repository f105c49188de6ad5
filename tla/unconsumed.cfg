SPECIFICATION Spec
CONSTANTS
  Videos = {v1, v2}
  w1 = w1
  w2 = w2
  Workers = {w1, w2}
  Consumes <- MCCompose
  PurgeEvery = 1
  ReportEvery = 1
  Retention = 1
  Window = 1
  ProcessRetries = 1
  Old = {v2}
  Locked = {v2}
  MaxFaults = 1
PROPERTIES
  LeftoversGo
CHECK_DEADLOCK FALSE
