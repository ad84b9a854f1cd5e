SPECIFICATION FairSpec
CONSTANTS
  Changes <- MCChanges
  Resources <- MCResources
  Targets <- TwoTargets
  Shards <- MCShards
  Hash <- MCHash
  Queues <- MCQueues
  Ids <- MCIds
  Bodies <- Contratos
  NoBody = NoBody
  MaxRetry = 0
  Dates = {0}
  ClockSteps = {0}
  MaxCrashes = 1
  MaxRedisFaults = 1
  MaxSqliteFaults = 1
INVARIANTS
  TypeOK
  EveryRowAccounted
  OneTaskPerTarget
PROPERTIES
  EventuallyAccounted
