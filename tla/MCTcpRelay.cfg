SPECIFICATION Spec
CONSTANTS
  Client = "client"
  Target = "target"
  Peers = {"client", "target"}
  IoBufSize = 2
  RcvBuf = 3
  SndBuf = 2
  MaxBytes <- MCMaxBytes
INVARIANTS
  TypeOK
PROPERTIES
  RelaysBothWays
  EofForwardsAll
  SessionEnds
