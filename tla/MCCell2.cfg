CONSTANTS
  Threads = {t1, t2}
  Cells = {a, b}
  NOBODY = NOBODY
  NO_GUARD = NO_GUARD
  MAX_GUARDS = 3
  LastFirst = TRUE
SPECIFICATION FairSpec
INVARIANTS
  TypeOK
  GuardHoldsSection
  BorrowsExclusive
  SectionIsReturned
  IInv
PROPERTIES
  PanicsOnlyOnReentry
  PanicFreesSection
