SPECIFICATION Spec
CHECK_DEADLOCK FALSE
CONSTANTS
  j1 = j1
  j2 = j2
  v1 = v1
  v2 = v2
  m1 = m1
  NoVoice = NoVoice
  Models = {m1}
  Jobs = {j1, j2}
  Voices = {v1, v2}
  MaxChunks = 1
  MaxVersion = 0
  MaxPlan = 3
  MaxAttempts = 2
  PlanAhead = 1
  MaxBatch = 2
  Commands = {"activate", "pause", "playback", "resume", "voice", "trash", "purge", "delete"}
  Lookahead = FALSE
SYMMETRY Alike
INVARIANTS
  FlightIsRendering
  AttemptBudget
  RenderingHasWork
PROPERTIES
  PauseSticky
  SupersededIsRevoiced
