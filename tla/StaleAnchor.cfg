INIT Init
NEXT Next
CONSTANTS
  Jobs <- MCJobs
  Length <- MCLength
  EndFires = TRUE
  MaxClicks = 2
CHECK_DEADLOCK FALSE
PROPERTY
  OpensAtResume
