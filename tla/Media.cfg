SPECIFICATION Spec
CHECK_DEADLOCK FALSE
CONSTANTS
  Chunks = 3
  ChunkSeconds = 2
  Ahead = 3
  Refill = 1
  KeepBehind = 2
  EmergencyKeep = 1
  Lookahead = 1
  SkipSeconds = 3
  Quota = 4
  DetachedSettles = TRUE
  MaxStreams = 1
  MaxCalls = 5
INVARIANTS
  PrefixUnlessCrossed
  NothingLost
