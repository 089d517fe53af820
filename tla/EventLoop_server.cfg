CONSTANTS
  SConn = {s1, s2, s3, s4}
  CConn = {}
  Timer = {}
  Listener = listener
  NoObj = NoObj
  MaxFd = 5
  MAX_EVENTS = 2
  MaxBacklog = 2
  Keeps = FALSE
SPECIFICATION FairSpec
PROPERTIES
  ExhaustionIsForGood
  PendingIsServed
  AcceptReturns
