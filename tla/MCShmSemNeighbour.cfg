\* The instance with the next sh_id is removed.
SPECIFICATION Spec
CONSTANTS
  p1 = p1
  p2 = p2
  p3 = p3
  Procs = {p1, p2, p3}
  Id <- Neighbours
  Creators = {p1, p3}
  Destroyers = {p3}
  Ext = FALSE
  Interrupts = FALSE
  SemIds = {s1, s2}
  SegIds = {g1, g2}
  MaxDebt = 1
  NULL = NULL
INVARIANT AccessExclusive
CHECK_DEADLOCK FALSE
