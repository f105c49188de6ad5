SPECIFICATION CaptionsSpec
CONSTANTS
  Duration = 4
  MinLen = 2
  MaxLen = 3
  MaxClips = 2
  MaxScore = 1
  MaxWords = 3
  MaxCandidates = 3
  PerLine = 2
INVARIANTS
  StagesTypeOK
  LengthsInBounds
  BestFirst
  CutsAtWords
  SpokenIsShown
  HighlightNeverLate
  CaptionedFromStart
CHECK_DEADLOCK FALSE
