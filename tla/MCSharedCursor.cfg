CONSTANTS
  Byte = {0, 1}
  ERASED = 1
  MAX_END = 3
  Sizes = {2}
  Chunks <- MCChunks
  Images <- MCImages
  Readers = {r1, r2}
  DONE = DONE
  FAILED = FAILED
  Kinds = {"memory", "file", "mapped", "block"}
  Locked = FALSE
SPECIFICATION Spec
PROPERTY
  ReadsWhereAsked
