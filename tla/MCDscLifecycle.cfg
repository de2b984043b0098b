\* Every node comes and goes, recovery and unloading begin and end at any
\* time, transitions queue on three levels, operations are drained.
CONSTANTS
  Driver = drv
  p1 = p1
  p2 = p2
  v1 = v1
  v2 = v2
  t1 = t1
  t2 = t2
  t3 = t3
  None = None
  Psocs = {p1}
  Vdevs = {v1, v2}
  PsocOf <- OnePsocOf
  Hotplug = {drv, p1, v1, v2}
  Threads = {t1, t2, t3}
  CdsStates <- AnyCdsState
SYMMETRY VdevSymmetry
SPECIFICATION Spec
INVARIANTS
  IInv
  TypeOK
  GrantsHaveOwner
  Quiescence
  OpsWakeupPending
  TransExclusion
  QueueHasBlocker
PROPERTIES
  ServiceOrder
