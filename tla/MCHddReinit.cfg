\* A recovery begins during a mode change.
CONSTANTS
  Driver = drv
  p1 = p1
  None = None
  Psocs = {p1}
  Vdevs = {v1}
  PsocOf <- OnePsocOf
  Hotplug = {v1}
  Threads = {t1, t2}
  CdsStates <- AnyCdsState
  NetDevs = {n1}
  Dev = dev
  Flows = {"ssr", "mode"}
SPECIFICATION HddSpec
INVARIANTS
  ReinitProtected
