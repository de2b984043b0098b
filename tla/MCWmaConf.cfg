\* An access point adds one station.  UMAC has one request under way, so
\* that the outcome does not depend on what LIM defers meanwhile.
SPECIFICATION WmaSpec
CONSTANTS
  Stas = {s1}
  Mem = {m1}
  WmaFaults = {"uapsd"}
  MaxOdd = 1
  NoReq = NoReq
INVARIANT AddedHasPeer
