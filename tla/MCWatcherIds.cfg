SPECIFICATION Spec
CONSTANTS
  Log <- MCLog
  FlushInterval = 2
  MaxFaults = 3
  MaxReconnects = 0
INVARIANTS
  SavedAtBoundary
  StableIds
  DistinctIds
