SPECIFICATION Spec
CHECK_DEADLOCK FALSE
CONSTANTS
  m1 = m1
  m2 = m2
  a1 = a1
  a2 = a2
  NoModel = NoModel
  Nobody = Nobody
  Tick = Tick
  Models = {m1, m2}
  DefaultModel = m1
  Admins = {a1}
  AdminOps = {"warm", "evict", "reset", "device"}
  MaxSize = 1
INVARIANTS
  TypeOK
  NoLostCall
  StateIsHonest
  ManagerAgrees
PROPERTIES
  SpareStuckThread
