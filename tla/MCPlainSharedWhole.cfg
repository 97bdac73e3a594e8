SPECIFICATION Spec
CONSTANTS
  f1 = f1
  f2 = f2
  f3 = f3
  f4 = f4
  None = None
  Buffers = {f1, f2, f3, f4}
  Base <- MCBase
  Half = 10
  SegmentCount = 2
  MaxSegments = 3
  Offset <- MCOffset
  Length <- MCLength
  Reps <- MCReps
  WordSize = "TwoBytes"
  SharedVector = TRUE
  Reinit = TRUE
  FrameCountSpan = 1
PROPERTIES
  WholeSegments
CHECK_DEADLOCK TRUE
