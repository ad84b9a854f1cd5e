SPECIFICATION FairSpec
CONSTANTS
  Watchers = {DB01, DB02}
  StaleAfter = 3
  PollTime = 1
  RestartsUnhealthy = TRUE
  MaxFaults = 2
INVARIANTS
  TypeOK
  AlarmIsTrue
PROPERTIES
  WatcherComesBack
