SPECIFICATION Spec
CONSTANTS
  m1 = m1
  m2 = m2
  m3 = m3
  Monitors = {m1, m2, m3}
  None = None
  Commands = {"ping_on", "ping_off", "ping_restart", "ping_stop", "ping_cont", "set", "set_0", "wifi_off", "quit"}
  MaxCmd = 6
INVARIANTS TypeOK OffIsOff MonitorLives
PROPERTIES MonJoined
CHECK_DEADLOCK FALSE
