SPECIFICATION Spec
CONSTANTS
  Peers = {"a", "b"}
  RcvBuf = 2
  SndBuf = 1
  MaxBytes <- MCMaxBytes
  Limits = {1, 2}
  IoBufSize = 2
  Fds = {5, 6}
  Packets = {1}
INVARIANTS
  SlotsAgree
PROPERTIES
  EchoesEachClient
  PacketsHandled
