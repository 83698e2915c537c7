CONSTANTS
  DEPTH = 2
  FANOUT = 2
  RECORD_SLOT_SIZE = 2
  Paths <- TwoLeaves
  Payloads <- OneValue
  NONE = NONE
  FAILED = FAILED
  TOO_LARGE = TOO_LARGE
  FaultyOps <- NoOps
  MAX_FAULTS = 0
  ReopenWhen = "crash"
  MAX_OFFSET = 16
  Words <- Offsets
SPECIFICATION Spec
INVARIANT NodesAndRecordsApart
