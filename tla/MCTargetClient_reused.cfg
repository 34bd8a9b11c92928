SPECIFICATION ClientSpec
CONSTANTS
  n1 = n1
  n2 = n2
  Controllers = {n1, n2}
  Listening = {}
  Traffic = {}
  Apps = {n1}
  Exposed = {}
  Epochs <- Reconnect
  NoConn = NoConn
PROPERTIES
  OnlyPrimaryWrites
CHECK_DEADLOCK FALSE
