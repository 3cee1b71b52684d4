SPECIFICATION Spec
CONSTANTS
  m1 = m1
  m2 = m2
  x1 = x1
  x2 = x2
  b1 = b1
  b2 = b2
  b3 = b3
  b4 = b4
  Mn = {m1}
  Coa = {x1, x2}
  MAX = 1
  Cell = {b1, b2, b3, b4}
  Null = Null
  MayFail = TRUE
  MaxPkt = 4
  MaxTime = 3
SYMMETRY CellsAlike
INVARIANTS DroppedIsKept RecentIsSent InOrder
PROPERTIES OnlyHeadIsStolen
CHECK_DEADLOCK FALSE
