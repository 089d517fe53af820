CONSTANTS
  SConn = {s1}
  CConn = {c1}
  Timer = {t1}
  Listener = listener
  NoObj = NoObj
  MaxFd = 4
  MAX_EVENTS = 3
  MaxBacklog = 1
  Keeps = FALSE
SPECIFICATION Spec
INVARIANT EventReachesItsHandle
