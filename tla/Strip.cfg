SPECIFICATION Spec
CHECK_DEADLOCK FALSE
CONSTANTS
  N = 2
  Lengths = {1, 2}
  MaxChanges = 3
  MaxMisses = 1
  Reach = 1
  Default = 2
  Starts <- MCStarts
  MaxPresses = 2
PROPERTIES
  CommitAimed
  PeaksArrive
