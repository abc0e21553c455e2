\* Three clients, so two mixers that race for the decoded frames; fair workers.
SPECIFICATION FairSpec
CONSTANTS
  ClientNum = 3
  PacketsFrom <- ThreeClients
  MAX_AV_PACKET_NUM = 1
  FramesPerPacket = 1
  NULL = NULL
INVARIANTS
  FramesOnce
  HeapExact
PROPERTIES
  PacketSettled
  ImplementsRelay
CHECK_DEADLOCK FALSE
