\* Two clients; those of client 0 and the monitor run their loops.
SPECIFICATION FairSpec
CONSTANTS
  ClientNum = 2
  MaxLength = 1
  MaxFailures = 1
  Busy <- FirstClient
INVARIANTS
  TypeOK
  BlocksOwned
  AccessesValid
  OneWriter
PROPERTIES
  ShownSettles
  RightStays
CHECK_DEADLOCK FALSE
