SPECIFICATION Spec
CONSTANTS
  p1 = p1
  p2 = p2
  p3 = p3
  p4 = p4
  Threads = {t1}
  Payloads = {p1, p2, p3, p4}
  Size <- MCSizeOver
  MaxItems = 2
  MaxBytes = 3
  EvictOldest = FALSE
  MaxFaults = 0
  MaxCrashes = 2
INVARIANTS
  LaneOrder
  AckedDurable
PROPERTIES
  ImplementsDurableQueue
