CONSTANTS
  SConn = {s1, s2}
  CConn = {c1, c2}
  Timer = {t1, t2}
  Listener = listener
  NoObj = NoObj
  MaxFd = 5
  MAX_EVENTS = 3
  MaxBacklog = 2
  Keeps = FALSE
SYMMETRY Identities
SPECIFICATION Spec
INVARIANTS
  TypeOK
  Registry
  TimeoutsAreForAttempts
  NoLostEdge
  ExitLeavesNothing
PROPERTIES
  StrandedByItsTimeout
  ReactorSpec
