CONSTANTS
  SConn = {s1, s2}
  CConn = {}
  Timer = {}
  Listener = listener
  NoObj = NoObj
  MaxFd = 3
  MAX_EVENTS = 2
  MaxBacklog = 1
  Keeps = TRUE
SPECIFICATION Spec
INVARIANT ClosedIsForgotten
