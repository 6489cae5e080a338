SPECIFICATION Spec
CONSTANTS
  Ids = {core}
  Tasks = {c1, c2, 1, 2}
  Callers = {c1, c2}
  MaxPids = 2
  MaxFaults = 1
  MaxRecords = 2
  MaxRestarts = 0
  MaxRevision = 0
  MaxCancels = 0
SYMMETRY Symmetry
INVARIANTS
  TypeOK
  OneChild
  NoEscape
PROPERTIES
  StaysReachable
CHECK_DEADLOCK FALSE
