\* A signal interrupts a waiting process.
SPECIFICATION Spec
CONSTANTS
  p1 = p1
  p2 = p2
  p3 = p3
  Procs = {p1, p2, p3}
  Id <- OneInstance
  Creators = {p1}
  Destroyers = {}
  Ext = FALSE
  Interrupts = TRUE
  SemIds = {s1}
  SegIds = {g1}
  MaxDebt = 1
  NULL = NULL
PROPERTY AcquireWaits
CHECK_DEADLOCK FALSE
