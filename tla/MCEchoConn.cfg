SPECIFICATION Spec
CONSTANTS
  IoBufSize = 2
  RcvBuf = 3
  SndBuf = 2
  IdleLimit = 2
  MaxBytes = 6
INVARIANTS
  TypeOK
  EchoInOrder
  MaskMatchesPending
  EofLosesNothing
  
PROPERTIES
  StreamSpec
