\* The order of a client's frames when two mixers run.
SPECIFICATION Spec
CONSTANTS
  ClientNum = 3
  PacketsFrom <- ThreeClients
  MAX_AV_PACKET_NUM = 1
  FramesPerPacket = 1
  NULL = NULL
INVARIANT SentInOrder
CHECK_DEADLOCK FALSE
