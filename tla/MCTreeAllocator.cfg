CONSTANTS
  ROOT_OFFSET = 1
  NODE_SIZE = 2
  RECORD_SLOT_SIZE = 2
  MAX_OFFSET = 9
  Words = {4}
SPECIFICATION Spec
INVARIANTS
  TypeOK
  NoOverlap
  NextRecordIsUnused
  FreeListThreaded
  NeverCorrupt
  IInv
