SPECIFICATION RxSpec
CONSTANTS
  RxThr = {t1}
  RefillThr = {f1}
  Vdevs = {v1}
  Timeouts = FALSE
  MaxNbufs = 1
INVARIANT GoneIsFlushed
