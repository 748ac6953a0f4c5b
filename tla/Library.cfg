SPECIFICATION Spec
CHECK_DEADLOCK FALSE
CONSTANTS
  f1 = f1
  f2 = f2
  f3 = f3
  j1 = j1
  j2 = j2
  Root = Root
  NoEntry = NoEntry
  Folders = {f1, f2, f3}
  Jobs = {j1}
  Age <- OldestFirst
  MaxSelect = 2
INVARIANTS
  RootedTree
  DistinctPositions
  EntriesIntact
PROPERTIES
  BundleStaysWhole
  OrderKept
