CONSTANTS
  DEPTH = 2
  FANOUT = 2
  RECORD_SLOT_SIZE = 2
  Paths <- OneLeaf
  Payloads <- TwoValues
  NONE = NONE
  FAILED = FAILED
  TOO_LARGE = TOO_LARGE
  FaultyOps <- AllOps
  MAX_FAULTS = 2
  ReopenWhen = "flushed"
  MAX_OFFSET = 11
  Words <- Offsets
SPECIFICATION Spec
INVARIANTS
  IterAgreesWithGet
  DirtyTracksHeader
  TypeOK
  SpansDisjoint
  LenWithinFaults
  LoadNeverRefused
PROPERTIES
  OtherKeysUntouched
  PutTakesEffect
CONSTRAINT ThenCleared
VIEW WithoutAnswers
