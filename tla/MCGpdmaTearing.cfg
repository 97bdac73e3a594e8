SPECIFICATION FairSpec
CONSTANTS
  f1 = f1
  f2 = f2
  f3 = f3
  f4 = f4
  None = None
  Buffers = {f1, f2}
  Base <- MCBase
  Half = 10
  SegmentCount = 2
  MaxSegments = 3
  Offset <- MCOffset
  Length <- MCLength
  Reps <- MCReps
  Reinit = FALSE
  TwoD = FALSE
  SwapWaitCount = 2
  FrameCountSpan = 1
  TableBase = 32
  WordSize = "TwoBytes"
  MaxDescriptors = 4
  MaxReps = 4
  LinearItemSize = 3
  TwoDItemSize = 4
  Region = 16
PROPERTIES
  WholeFrames
CHECK_DEADLOCK TRUE
