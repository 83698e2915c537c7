CONSTANTS
  k1 = k1
  k2 = k2
  long = long
  v = v
  large = large
  Keys = {k1, k2}
  LongKeys = {long}
  Data = {v}
  LargeData = {large}
  NONE = NONE
  DONE = DONE
  FAILED = FAILED
  Callers = {c1, c2}
  NOBODY = NOBODY
  PathOf <- MCPathOf
  COORDS = 2
  AxisChecks <- MCAxisChecks
  Cubes <- MCCubes
  Lists <- MCLists
  Batches <- MCBatches
SPECIFICATION Spec
INVARIANTS
  UnbufferedIsSettled
  ProximityRightOfUntouched
PROPERTIES
  ImplementsEntityStore
  BatchSettles
