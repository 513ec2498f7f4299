SPECIFICATION Spec
CONSTANTS
  echo1 = echo1
  proxy1 = proxy1
  Listeners <- MCListeners
  Service <- MCService
  Clients = {k1}
  Addrs = {a1}
  MaxFd = 4
  IdleLimit = 2
  NULL = NULL
PROPERTIES
  ProxyInputHandled
