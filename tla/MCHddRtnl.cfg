\* Deleting an interface while its SoC is removed.
CONSTANTS
  Driver = drv
  p1 = p1
  None = None
  Psocs = {p1}
  Vdevs = {v1}
  PsocOf <- OnePsocOf
  Hotplug = {p1, v1}
  Threads = {t1, t2}
  CdsStates <- AnyCdsState
  NetDevs = {n1}
  Dev = dev
  Flows = {"probe", "remove", "del"}
SPECIFICATION HddSpec
INVARIANTS
  NoLockCycle
