SPECIFICATION FairSpec
CONSTANTS
  Chunk <- MCChunk
  MaxRetries = 1
  MaxUpsets = 2
CHECK_DEADLOCK FALSE
INVARIANTS
  OneLink
PROPERTIES
  LinkRefines
  CatchesUp
