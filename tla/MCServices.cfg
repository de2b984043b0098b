\* Remain-on-channel requests and frames, the receive threads, the
\* blacklist of access points, the stations of an access point, and the
\* suspensions of the SoC.
CONSTANTS
  Rocs = {r1, r2}
  Txs = {x1}
  v1 = v1
  c1 = c1
  c2 = c2
  Links = {v1}
  RocReqs <- OneRocReq
  Frames <- TwoFrames
  Faults = {"start", "abort", "tx", "rx"}
  MaxCmds = 1
  MaxLate = 1
  MaxFails = 1
  Nil = Nil
  RxThr = {t1}
  RefillThr = {f1}
  Vdevs = {v1}
  Timeouts = TRUE
  MaxNbufs = 1
  b1 = b1
  b2 = b2
  b3 = b3
  Bssids = {b1, b2, b3}
  MaxEntries = 2
  Thresh = 2
  AvoidTime = 1
  BlackTime = 1
  ResetTime = 0
  RetryDelay = 1
  RssiTime = 2
  MaxTime = 1
  Rejections <- Reasons
  UserLists <- UserAps
  Stas = {s1, s2}
  Mem = {m1, m2}
  WmaFaults = {"alloc", "assoc", "uapsd"}
  MaxOdd = 2
  NoReq = NoReq
SYMMETRY RocSymmetry
SPECIFICATION ServicesSpec
INVARIANTS
  OneOnAir
  ContextsQueued
  AwakeOnAir
  HeadMoves
  SuspendedIsParked
  WakeupPending
  ParkedIsResumed
  OneEntryPerAp
  FirmwareKnows
  UserListReplaced
  HeldIsAwaited
  NobodyForgotten
  AgreesWithTarget
  NothingLeftStopped
  TargetFollows
  WakeNotLost
  BusUpToTalk
