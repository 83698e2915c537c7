CONSTANTS
  DEPTH = 4
  BASE = 5
  BYTE = 4
  z = z
  one = one
  two = two
  ga = ga
  na = na
  ha = ha
  Chars <- MCChars
  Utf8 <- MCUtf8
  CoordOf <- MCCoordOf
  NO_COORD = NO_COORD
  Keys <- MCKeys
  PENDING = PENDING
  EMPTY = EMPTY
  TOO_LONG = TOO_LONG
SPECIFICATION Spec
INVARIANTS
  NothingLost
  PathDecodes
  RefusedBeyondCapacity
CHECK_DEADLOCK FALSE
