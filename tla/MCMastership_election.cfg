SPECIFICATION MCSpec
CONSTANTS
  n1 = n1
  n2 = n2
  Controllers = {n1, n2}
  Listening = {n1}
  Traffic = {n1}
  Exposed = {n1, n2}
  Epochs <- Twice
  NoConn = NoConn
INVARIANTS
  TypeOK
  ResignDue
  ElectionDue
  TermAgreed
PROPERTIES
  MasterIsResigned
  SteadyElects
CHECK_DEADLOCK FALSE
