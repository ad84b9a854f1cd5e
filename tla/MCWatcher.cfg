SPECIFICATION FairSpec
CONSTANTS
  Log <- SavepointLog
  FlushInterval = 1
  MaxFaults = 2
  MaxReconnects = 2
INVARIANTS
  TypeOK
  NothingSkipped
  SavedResumable
PROPERTIES
  NeverRewinds
  EventuallyHandled
  ImplementsReplay
