SPECIFICATION RxFairSpec
CONSTANTS
  RxThr = {}
  RefillThr = {f1}
  Vdevs = {}
  Timeouts = FALSE
  MaxNbufs = 1
PROPERTY DeinitEnds
