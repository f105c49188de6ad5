SPECIFICATION Spec
CONSTANTS
  Hwaccels = {"auto", "vaapi"}
  OutW = 9
  OutH = 16
  Sizes <- MCSizes
  Lengths = {0, 3}
  Stride = 2
  Backends = {"center", "mediapipe"}
  Faces <- MCFaces
  NoFace = NoFace
  TaskRetries = 1
  MaxLost = 1
INVARIANTS
  CallBudget
  FallbackIsSoftware
  HardwareNeverFailsClip
  WindowInFrame
  CameraInSpan
  FramesKept
  HandlesReleased
PROPERTIES
  RefusalIsFinal
  ImplementsAttempts
CHECK_DEADLOCK FALSE
