SPECIFICATION Spec
CONSTANTS
  Key = {1, 2}
  Value = {1, 2}
  Version <- MCVersion
  Chatter <- MCChatter
  Generated = 0
  MaxSays = 1
  MaxFaults = 2
CHECK_DEADLOCK FALSE
INVARIANTS
  VersionCurrent
  HandshakeFirst
  KeptDelivered
PROPERTIES
  Settles
