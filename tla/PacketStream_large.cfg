CONSTANTS
  HeaderSize = 4
  MaxSize = 5
  Lens = {2}
  MaxSegment = 9
  MaxStream = 9
SPECIFICATION Spec
INVARIANT TooLargeIsTooLarge
