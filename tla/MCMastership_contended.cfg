SPECIFICATION FairSpec
CONSTANTS
  n1 = n1
  n2 = n2
  Controllers = {n1, n2}
  Listening = {}
  Traffic = {}
  Exposed = {}
  Epochs <- Reconnect
  NoConn = NoConn
PROPERTIES
  ContendedElects
CHECK_DEADLOCK FALSE
