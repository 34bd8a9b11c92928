SPECIFICATION ClientSpec
CONSTANTS
  n1 = n1
  n2 = n2
  Controllers = {n1, n2}
  Listening = {}
  Traffic = {}
  Exposed = {}
  Apps = {n1}
  Epochs <- Reconnect
  NoConn = NoConn
INVARIANTS
  ClientTypeOK
  ClientIsMaster
  ClientIsAccepted
PROPERTIES
  RecordImplemented
  LiveMasterKept
CHECK_DEADLOCK FALSE
