SPECIFICATION Spec
CONSTANTS
  A = A
  B = B
  Ports = {A, B}
  GroupSize <- MCGroupSize
INVARIANTS
  TypeOK
  AcceptsDrivable
  ErrorAtFirstFault
  BlankNeverLow
PROPERTIES
  WiringOrder
CHECK_DEADLOCK FALSE
