CONSTANTS
  Callers = {c1, c2}
  Segments <- MCSegments
  Keys <- MCKeys
  BadKeys <- MCBadKeys
  Data <- MCData
  Prefixes <- MCPrefixes
  Batches <- MCBatches
  RUNNING = RUNNING
  NONE = NONE
  ANY = ANY
  DONE = DONE
  FAILED = FAILED
SYMMETRY MCSymmetry
SPECIFICATION Spec
INVARIANTS
  TreeOK
  KeysAreWhole
  ListSeesQuietKeys
  DeleteFailsOnlyInRace
PROPERTIES
  ReadsAreWhole
