SPECIFICATION Spec
CONSTANTS
  Logs <- MCLogs
  MaxFaults = 1
  MaxCrashes = 1
INVARIANTS
  TypeOK
  NotOlderThanDate
  LaterReadsNewer
  CompletedByNext
