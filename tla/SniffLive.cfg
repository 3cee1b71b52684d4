SPECIFICATION LiveSpec
CONSTANTS
  n1 = n1
  s1 = s1
  i1 = i1
  e1 = e1
  e2 = e2
  Node = {n1}
  Stranger = {s1}
  Behind = Behind
  Iface = {i1}
  Endpoint = {e1, e2}
  Null = Null
  Other = Other
  NIF = 2
  FdMax = 3
  PASSTIME = 1
  Cap = 1
  MaxProbe = 3
INVARIANTS TypeOK
PROPERTIES NatIsCurrent UpdatesAreRead StopIsSeen
CHECK_DEADLOCK FALSE
