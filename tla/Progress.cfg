SPECIFICATION FairSpec
CHECK_DEADLOCK FALSE
CONSTANTS
  j1 = j1
  j2 = j2
  v1 = v1
  v2 = v2
  m1 = m1
  NoVoice = NoVoice
  Models = {m1}
  Jobs = {j1, j2}
  Voices = {v1}
  MaxChunks = 2
  MaxVersion = 0
  MaxPlan = 2
  MaxAttempts = 1
  PlanAhead = 1
  MaxBatch = 2
  Commands = {"voice", "trash", "purge", "pause"}
  Lookahead = FALSE
PROPERTIES
  RendersToEnd
  PausedJobStops
