SPECIFICATION FairSpec
CONSTANTS
  e1 = e1
  e2 = e2
  Entities = {e1, e2}
  MaxEntities = 4
INVARIANT TypeOK
PROPERTIES ChannelImplemented EndIsSeen
CHECK_DEADLOCK FALSE
