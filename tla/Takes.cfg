SPECIFICATION Spec
CHECK_DEADLOCK FALSE
CONSTANTS
  j1 = j1
  j2 = j2
  v1 = v1
  v2 = v2
  m1 = m1
  NoVoice = NoVoice
  Models = {m1}
  Jobs = {j1}
  Voices = {v1, v2}
  MaxChunks = 2
  MaxVersion = 1
  MaxPlan = 2
  MaxAttempts = 1
  PlanAhead = 1
  MaxBatch = 2
  Commands = {"voice", "reprocess", "switch", "pause", "resume"}
  Lookahead = TRUE
SYMMETRY Alike
INVARIANTS
  TypeOK
  OneLiveTake
  DerivedFresh
PROPERTIES
  CompletionIsEarned
  OrphanedBySwitchOnly
  WrittenStaysWritten
