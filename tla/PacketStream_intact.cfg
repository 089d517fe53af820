CONSTANTS
  HeaderSize = 4
  MaxSize = 8
  Lens = {2}
  MaxSegment = 8
  MaxStream = 20
SPECIFICATION Spec
INVARIANT FinishedIsThePacket
