SPECIFICATION Spec
CONSTANTS
  p1 = p1
  p2 = p2
  p3 = p3
  p4 = p4
  Threads = {t1, t2}
  Payloads = {p1, p2, p3}
  Size <- MCSize
  MaxItems = 2
  MaxBytes = 4
  EvictOldest = FALSE
  MaxFaults = 0
  MaxCrashes = 1
INVARIANTS
  AckedDurable
