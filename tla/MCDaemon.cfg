\* Two connections, two failures.
SPECIFICATION FairSpec
CONSTANTS
  Clients = {c1, c2}
  MaxFailures = 2
  NULL = NULL
INVARIANTS
  TypeOK
  OneChild
  ListenerKept
  ConnectionsKept
PROPERTIES
  Attended
  Released
  Rebound
  ImplementsReception
CHECK_DEADLOCK FALSE
