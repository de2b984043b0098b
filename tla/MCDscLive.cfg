\* Liveness on a fixed tree: what a stop or an operation's end must lead to.
CONSTANTS
  Driver = drv
  p1 = p1
  p2 = p2
  v1 = v1
  v2 = v2
  t1 = t1
  t2 = t2
  t3 = t3
  None = None
  Psocs = {p1}
  Vdevs = {v1}
  PsocOf <- OneVdevOf
  Hotplug = {v1}
  Threads = {t1, t2, t3}
  CdsStates <- Normal
SPECIFICATION FairSpec
PROPERTIES
  WaiterServed
  DrainEnds
  LockSpec
