SPECIFICATION SafeSpec
CONSTANTS
  echo1 = echo1
  proxy1 = proxy1
  Listeners <- MCListeners
  Service <- MCService
  Workers = {w1, w2}
  Tasks = {t1, t2, t3}
  Ports = {p1, p2}
  MaxFd = 4
  MaxReqs = 3
  NULL = NULL
SYMMETRY Symmetry
INVARIANTS
  SentFromListener
