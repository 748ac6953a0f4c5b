SPECIFICATION PagesSpec
CHECK_DEADLOCK FALSE
CONSTANTS
  f1 = f1
  f2 = f2
  j1 = j1
  j2 = j2
  Folders = {f1, f2}
  Jobs = {j1, j2}
  Root = Root
  NoEntry = NoEntry
  Age <- MCAge
  MaxSelect = 4
  Starts <- MCStarts
  Rendering = {j2}
  Found = {f2, j1}
  MaxSteps = 4
  MaxEdits = 1
  MaxFaults = 1
  MaxFlight = 2
  Chunk = {c1, c2}
  Openings <- MCOpenings
  MaxTake = 1
  MaxShifts = 1
  MaxMoves = 4
  MaxLosses = 1
  MaxAsks = 2
INVARIANTS
  DraftBelongs
PROPERTIES
  ServedAsMeant
  NewJobShows
  QueueFollows
