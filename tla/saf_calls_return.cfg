SPECIFICATION FairSpec
CONSTANTS
  p1 = p1
  p2 = p2
  p3 = p3
  p4 = p4
  Threads = {t1, t2}
  Payloads = {p1, p2, p3}
  Size <- MCSize
  MaxItems = 2
  MaxBytes = 3
  EvictOldest = TRUE
  MaxFaults = 1
  MaxCrashes = 0
PROPERTIES
  CallsReturn
