SPECIFICATION Spec
CONSTANTS
  a2 = a2
  c1 = c1
  Ifindex = {1, 2}
  CoaV4 = {a2}
  CoaV6 = {c1}
  HoaV6 = HoaV6
  HoaV4 = HoaV4
  None = None
  NIF = 1
  Wlan = {1}
  Reach <- Away
  MayMove = {"kill", "foreign", "idle"}
  MaxCrash = 1
INVARIANTS NoLoop RulesV6Exact
PROPERTIES NeverDark
