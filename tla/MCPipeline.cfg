\* Two clients, one mixer, a receiving queue that overflows.
SPECIFICATION Spec
CONSTANTS
  ClientNum = 2
  PacketsFrom <- TwoClients
  MAX_AV_PACKET_NUM = 2
  FramesPerPacket = 2
  NULL = NULL
INVARIANTS
  TypeOK
  RecvBounded
  NewestKept
  OnlyExcessDropped
  SentInOrder
PROPERTIES
  NoBluePicture
  ImplementsRelay
CHECK_DEADLOCK FALSE
