SPECIFICATION Spec
CONSTANTS
  MN = {n1}
  c1 = c1
  c2 = c2
  box1 = box1
  CoaV4 = {c1, c2}
  CoaV6 = {d1}
  NatIP = {box1}
  Port = {666, 667}
  DPORT = 666
  Dev = {1, 2, 3, 4}
  MayFail = {"create"}
  Unspec = Unspec
  NIF = 2
  Ifindex = {1}
  LIFETIME = 1
  SEQWIN = 2
  SeqNo = {0, 1, 2}
  RuleCap = 1
  MaxWait = 2
  Sources <- AnySource
INVARIANTS TypeOK NoOrphanTunnel EncapFollowsBinding
PROPERTIES ImplementsCache
