SPECIFICATION Spec
CONSTANTS
  echo1 = echo1
  proxy1 = proxy1
  Listeners <- MCListeners
  Service <- MCService
  Workers = {w1, w2}
  Tasks = {t1, t2}
  Ports = {p1, p2}
  MaxFd = 3
  MaxReqs = 2
  NULL = NULL
PROPERTIES
  EveryDatagramHandled
  ShutdownCompletes
