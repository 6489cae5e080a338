SPECIFICATION FairSpec
CONSTANTS
  Ids = {core}
  Tasks = {c1, 1}
  Callers = {c1}
  MaxPids = 4
  MaxFaults = 0
  MaxRecords = 1
  MaxRestarts = 1
  MaxRevision = 1
  MaxCancels = 1
INVARIANTS
  NoEscape
  RestartBudget
PROPERTIES
  HandlersReturn
  WatcherEnds
CHECK_DEADLOCK FALSE
