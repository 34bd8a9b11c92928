SPECIFICATION FairSpec
CONSTANTS
  e1 = e1
  Endpoints = {e1}
  NoEndpoint = NoEndpoint
  c1 = c1
  c2 = c2
  ConnIDs = {c1, c2}
  NoConn = NoConn
  Removable = TRUE
  Breakable = {"connection"}
INVARIANTS
  TypeOK
  
PROPERTIES
  
  TargetIsDialed
  DialIsDue
