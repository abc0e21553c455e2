\* Careful use: one creator, fair processes, any may end at any moment.
SPECIFICATION FairSpec
CONSTANTS
  p1 = p1
  p2 = p2
  p3 = p3
  Procs = {p1, p2, p3}
  Id <- OneInstance
  Creators = {p1}
  Destroyers = {}
  Ext = TRUE
  Interrupts = FALSE
  SemIds = {s1}
  SegIds = {g1}
  MaxDebt = 1
  NULL = NULL
INVARIANTS
  AccessExclusive
  SemaphoreExact
  Undisturbed
PROPERTIES
  ImplementsAccessRight
  WaiterServed
CHECK_DEADLOCK FALSE
