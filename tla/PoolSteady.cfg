SPECIFICATION Spec
CONSTANTS
  SLOTS = 3
  a1 = a1
  a2 = a2
  a3 = a3
  a4 = a4
  l1 = l1
  l2 = l2
  Coa = {a1, a2, a3, a4}
  Link = {l1, l2}
  Uses <- OneLinkEach
  Dev = {1, 2, 3, 4, 5, 6}
  MayFail = {}
  None = None
  MaxTime = 7
INVARIANTS TypeOK SlotsDistinct NoLeakedDevice SlotsLive
PROPERTIES InUseSurvives
