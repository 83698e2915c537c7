CONSTANTS
  DEPTH = 2
  FANOUT = 2
  RECORD_SLOT_SIZE = 2
  Paths <- TwoLeaves
  Payloads <- TwoValues
  NONE = NONE
  FAILED = FAILED
  TOO_LARGE = TOO_LARGE
  FaultyOps <- NoOps
  MAX_FAULTS = 0
  ReopenWhen = "clean"
  MAX_OFFSET = 14
  Words <- Offsets
SPECIFICATION Spec
PROPERTIES
  ImplementsMap
  ImplementsAllocator
