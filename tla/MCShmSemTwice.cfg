\* A second process creates what exists.
SPECIFICATION Spec
CONSTANTS
  p1 = p1
  p2 = p2
  p3 = p3
  Procs = {p1, p2, p3}
  Id <- OneInstance
  Creators = {p1, p2}
  Destroyers = {}
  Ext = FALSE
  Interrupts = FALSE
  SemIds = {s1}
  SegIds = {g1}
  MaxDebt = 1
  NULL = NULL
INVARIANT AccessExclusive
CHECK_DEADLOCK FALSE
