SPECIFICATION Spec
CONSTANTS
  MN = {n1}
  c1 = c1
  c2 = c2
  box1 = box1
  CoaV4 = {c1}
  CoaV6 = {d1}
  NatIP = {box1}
  Port = {666, 667}
  DPORT = 666
  Dev = {1, 2, 3, 4}
  MayFail = {}
  Unspec = Unspec
  NIF = 2
  Ifindex = {1}
  LIFETIME = 0
  SEQWIN = 2
  SeqNo = {0}
  RuleCap = 1
  MaxWait = 1
  Sources <- RebindSource
INVARIANTS AckedIsRouted
