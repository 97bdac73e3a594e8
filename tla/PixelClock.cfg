SPECIFICATION Spec
CONSTANTS
  None = None
  Words = 3
  TimerWord = 16
  Wide = 64
  Reloads = {0, 1, 2, 3, 4, 5, 6, 7, 10, 15}
INVARIANTS
  TypeOK
  ClockFromStart
PROPERTIES
  ClockedInOrder
  ScanGoesOn
CHECK_DEADLOCK FALSE
