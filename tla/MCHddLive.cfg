\* An interface comes and goes, up and down, while the firmware recovers:
\* every flow ends, among flows that wait for each other.
CONSTANTS
  Driver = drv
  p1 = p1
  None = None
  Psocs = {p1}
  Vdevs = {v1}
  PsocOf <- OnePsocOf
  Hotplug = {v1}
  Threads = {t1, t2, t3}
  CdsStates <- AnyCdsState
  NetDevs = {n1}
  Dev = dev
  Flows = {"add", "del", "ssr", "up", "down"}
SPECIFICATION HddFairSpec
PROPERTIES
  FlowsEnd
