SPECIFICATION ConnectionSpec
CONSTANTS
  InboundLimit = 1
  max_outbound_buffer_size = 1
  MaxMsgSize = 2
  MaxMsgs = 2
  MaxIn = 2
CHECK_DEADLOCK FALSE
INVARIANTS
  ConnectionTypeOK
  WholeMessages
  BufferBounded
  NoLostWakeup
  SafeToDelete
PROPERTIES
  TeardownCompletes
