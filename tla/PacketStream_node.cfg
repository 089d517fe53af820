CONSTANTS
  HeaderSize = 2
  MaxSize = 4
  Lens = {0, 1, 2, 4, 5}
  MaxSegment = 9
  MaxStream = 14
SPECIFICATION Spec
INVARIANTS
  TypeOK
  OneVerdict
  HeaderIsRight
  VerdictIsBacked
