SPECIFICATION Spec
CONSTANTS
  Ids = {core}
  Tasks = {c1, 1}
  Callers = {c1}
  MaxPids = 3
  MaxFaults = 0
  MaxRecords = 1
  MaxRestarts = 1
  MaxRevision = 1
  MaxCancels = 0
INVARIANTS
  RestartRestarts
CHECK_DEADLOCK FALSE
