SPECIFICATION Spec
CONSTANTS
  MN = {n1}
  c1 = c1
  c2 = c2
  box1 = box1
  CoaV4 = {c1, c2}
  CoaV6 = {d1, d2}
  NatIP = {box1}
  Port = {666, 667}
  DPORT = 666
  Dev = {1, 2, 3, 4}
  MayFail = {}
  Unspec = Unspec
  NIF = 3
  Ifindex = {1, 2, 3}
  LIFETIME = 0
  SEQWIN = 2
  SeqNo = {0}
  RuleCap = 1
  MaxWait = 1
  Sources <- SteadySource
INVARIANTS AckedIsEncapsulated
PROPERTIES MoveIsRouted
