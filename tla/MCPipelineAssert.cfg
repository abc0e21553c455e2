\* The assertion of the receiver after the removal.
SPECIFICATION Spec
CONSTANTS
  ClientNum = 2
  PacketsFrom <- TwoClients
  MAX_AV_PACKET_NUM = 2
  FramesPerPacket = 1
  NULL = NULL
INVARIANT EvictFindsPacket
CHECK_DEADLOCK FALSE
