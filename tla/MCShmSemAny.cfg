\* Any use: two creators, removal, interrupted operations.
SPECIFICATION Spec
CONSTANTS
  p1 = p1
  p2 = p2
  p3 = p3
  Procs = {p1, p2, p3}
  Id <- OneInstance
  Creators = {p1, p2}
  Destroyers = {p3}
  Ext = FALSE
  Interrupts = TRUE
  SemIds = {s1, s2}
  SegIds = {g1, g2}
  MaxDebt = 2
  NULL = NULL
INVARIANTS
  TypeOK
  UndoBalance
CHECK_DEADLOCK FALSE
