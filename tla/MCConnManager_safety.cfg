SPECIFICATION Spec
CONSTANTS
  t1 = t1
  Targets = {t1}
  k1 = k1
  k2 = k2
  Clients = {k1, k2}
  c1 = c1
  c2 = c2
  ConnIDs = {c1, c2}
  w1 = w1
  Watchers = {w1}
  QueueSize = 4
  NoTarget = NoTarget
  NoClient = NoClient
  NoConn = NoConn
SYMMETRY Symmetry
INVARIANTS
  TypeOK
  RegistrySound
  WithdrawnWhenDown
  UsableIsRegistered
  NoLostNotification
  OneClientPerTarget
  ReplaySound
  ReplayHasRoom
