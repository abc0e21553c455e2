\* Safety, refinement and liveness of one queue shared by three threads.
SPECIFICATION FairSpec
CONSTANTS
  t1 = t1
  t2 = t2
  t3 = t3
  n1 = n1
  n2 = n2
  Threads <- MCThreads
  Nodes <- MCNodes
  NULL = NULL
  Limit = 1
INVARIANTS
  TypeOK
  MutexHeld
  NodeOwnership
  ListShape
PROPERTIES
  ImplementsFifo
  LockReleased
