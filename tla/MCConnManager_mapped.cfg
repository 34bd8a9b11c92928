SPECIFICATION Spec
CONSTANTS
  t1 = t1
  Targets = {t1}
  k1 = k1
  Clients = {k1}
  c1 = c1
  c2 = c2
  ConnIDs = {c1, c2}
  w1 = w1
  Watchers = {w1}
  QueueSize = 2
  NoTarget = NoTarget
  NoClient = NoClient
  NoConn = NoConn
INVARIANTS
  MappedIsMonitored
