\* Interfaces come and go while operations run on them, the idle SoC is
\* shut down and the firmware recovers; the driver mode changes; or the
\* driver is loaded and unloaded around a SoC that is probed and removed.
CONSTANTS
  Driver = drv
  p1 = p1
  None = None
  Psocs = {p1}
  Vdevs = {v1, v2}
  PsocOf <- OnePsocOf
  Hotplug = {drv, p1, v1, v2}
  Threads = {t1, t2, t3}
  CdsStates <- AnyCdsState
  NetDevs = {n1, n2}
  Dev = dev
  Flows = {"add", "del", "ndiDel", "op", "idle", "ssr", "up", "down", "mode", "load", "unload", "probe", "remove", "globalOp"}
  Mixes = {{"add", "del", "ndiDel", "op", "idle", "ssr"}, {"mode", "add", "op", "idle"}, {"mode", "up", "down", "idle"}, {"load", "unload", "probe", "remove", "add", "op"}, {"load", "unload", "probe", "globalOp"}}
SYMMETRY IntfSymmetry
SPECIFICATION MixSpec
INVARIANTS
  HddTypeOK
  SectionLive
  KeysLead
  EntriesHeld
  ClosedIsQuiet
PROPERTIES
  DscUsedRight
