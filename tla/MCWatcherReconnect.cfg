SPECIFICATION Spec
CONSTANTS
  Log <- MCLog
  FlushInterval = 0
  MaxFaults = 0
  MaxReconnects = 2
INVARIANTS
  DistinctIds
