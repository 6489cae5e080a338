SPECIFICATION Spec
CONSTANTS
  p1 = p1
  p2 = p2
  p3 = p3
  p4 = p4
  Threads = {t1, t2}
  Payloads = {p1, p2, p3, p4}
  Size <- MCSizeFull
  MaxItems = 2
  MaxBytes = 3
  EvictOldest = TRUE
  MaxFaults = 1
  MaxCrashes = 1
INVARIANTS
  TypeOK
  Bounded
  BytesExact
  Accounting
  Durable
  NoReplay
  SpoolOpens
  DiskAgrees
PROPERTIES
  ControlAppendOnly
SYMMETRY Symmetry
