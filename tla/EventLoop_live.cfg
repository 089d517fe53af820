CONSTANTS
  SConn = {s1, s2, s3}
  CConn = {c1, c2}
  Timer = {t1, t2}
  Listener = listener
  NoObj = NoObj
  MaxFd = 4
  MAX_EVENTS = 1
  MaxBacklog = 1
  Keeps = FALSE
SPECIFICATION FairSpec
PROPERTIES
  TimedAttemptResolves
