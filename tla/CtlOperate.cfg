SPECIFICATION Spec
CONSTANTS
  n1 = n1
  n2 = n2
  Nets = {n1, n2}
  None = None
  Commands = {"auto", "handoff", "wifi", "link", "to", "rmnet", "mn off", "mn on", "mn on again"}
  Events = {"wlan", "rmnet", "beacons"}
  SEQMOD = 3
  MaxCmd = 2
  MaxEvent = 3
INVARIANTS TypeOK LoopGoesOn
PROPERTIES HandshakeEnds RmnetRouteKept
CHECK_DEADLOCK FALSE
