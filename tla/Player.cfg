SPECIFICATION Spec
CONSTANTS
  Jobs <- MCJobs
  Length <- MCLength
  EndFires = TRUE
  MaxClicks = 2
CHECK_DEADLOCK FALSE
INVARIANTS
  PauseHolds
PROPERTIES
  AdvanceEarned
  SettlesAtEnd
  PlaysOn
  SeekLands
