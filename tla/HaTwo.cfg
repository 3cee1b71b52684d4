SPECIFICATION Spec
CONSTANTS
  MN = {n1, n2}
  c1 = c1
  c2 = c2
  box1 = box1
  CoaV4 = {c1}
  CoaV6 = {d1}
  NatIP = {}
  Port = {666}
  DPORT = 666
  Dev = {1, 2, 3, 4, 5, 6}
  MayFail = {"flags"}
  Unspec = Unspec
  NIF = 2
  Ifindex = {1}
  LIFETIME = 0
  SEQWIN = 2
  SeqNo = {0}
  RuleCap = 1
  MaxWait = 1
  Sources <- PlainSource
SYMMETRY Interchangeable
INVARIANTS TrafficFollowsBinding
