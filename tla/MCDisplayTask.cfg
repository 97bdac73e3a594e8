SPECIFICATION AppSpec
CONSTANTS
  f1 = f1
  f2 = f2
  None = None
  Buffers = {f1, f2}
  FB0 = f1
  FB1 = f2
  Base <- MCBase
  Half = 10
  SegmentCount = 2
  MaxSegments = 3
  Offset <- MCOffset
  Length <- MCLength
  Reps <- MCReps
  WordSize = "TwoBytes"
  SharedVector = FALSE
  Reinit = FALSE
  FrameCountSpan = 3
  FpsInterval = 1
  ElapsedCap = 2
  RenderCap = 2
  CounterLimit = 1
INVARIANTS
  AppTypeOK
  DrawsUnread
  RenderWithinRefresh
PROPERTIES
  RateIsFrames
  RateIsRenewed
CHECK_DEADLOCK TRUE
