CONSTANTS
  Threads = {t1, t2}
  Cells = {a, b}
  NOBODY = NOBODY
  NO_GUARD = NO_GUARD
  MAX_GUARDS = 3
  LastFirst = FALSE
SPECIFICATION Spec
INVARIANT GuardHoldsSection
