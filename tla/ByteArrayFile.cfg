SPECIFICATION Spec
CONSTANTS
  ByteBits = 2
  WordBytes = 2
  LenBytes = 1
  BaseSize = 3
  MaxPos = 8
  MaxLen = 5
  MaxString = 4
INVARIANT FileIsContent
CHECK_DEADLOCK FALSE
