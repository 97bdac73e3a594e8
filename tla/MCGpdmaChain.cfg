SPECIFICATION Spec
CONSTANTS
  WordSize = "TwoBytes"
  MaxSegments = 3
  MaxDescriptors = 6
  MaxReps = 2
  LinearItemSize = 3
  TwoDItemSize = 4
  Region = 32
  Layouts <- MCLayouts
  Tables = {32, 40, 48, 52, 54, 56, 58, 60}
INVARIANTS
  StreamsTheFrame
  OneInterruptPerFrame
  RefusesOnlyUnreachable
CHECK_DEADLOCK FALSE
