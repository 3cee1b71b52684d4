SPECIFICATION Spec
CONSTANTS
  a1 = a1
  c1 = c1
  Hoa = Hoa
  HoaV6 = HoaV6
  HoaV4 = HoaV4
  None = None
  Unspec = Unspec
  CoaV4 = {a1}
  CoaV6 = {c1}
  Ifindex = {1}
  NIF = 1
  Wlan = {1}
  Reach <- HomeAndAway
  MayMove = {"kill"}
  MaxCrash = 1
  NatIP = {}
  Port = {666}
  DPORT = 666
  Dev = {1, 2, 3}
  HaNIF = 2
  LIFETIME = 1
  SEQWIN = 2
  RuleCap = 1
  MaxWait = 1
  Sources <- Plain
  SEQMOD = 3
  Cap = 1
  MaxMove = 2
  MaxFault = 1
PROPERTIES Connected HomeIsUnbound
CHECK_DEADLOCK FALSE
