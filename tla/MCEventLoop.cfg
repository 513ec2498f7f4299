SPECIFICATION SafeSpec
CONSTANTS
  echo1 = echo1
  proxy1 = proxy1
  Listeners <- MCListeners
  Service <- MCService
  Clients = {k1, k2, k3}
  Addrs = {a1, a2, a3}
  MaxFd = 5
  IdleLimit = 1
  NULL = NULL
SYMMETRY Symmetry
INVARIANTS
  TypeOK
  NoStaleEvent
  ConnsAgree
  OwnDescriptor
  NoDescriptorLeak
