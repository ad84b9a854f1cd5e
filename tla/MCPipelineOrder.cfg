SPECIFICATION PipelineSpec
CONSTANTS
  Changes <- TwoChanges
  Resources <- MCResources
  Targets <- OneTarget
  Shards <- MCShards
  Hash <- MCHash
  Queues <- MCQueues
  Ids <- MCIds
  Bodies <- MCBodies
  NoBody = NoBody
  None = None
  MaxRetry = 1
  Dates <- MCDates
  ClockSteps = {1}
  MaxCrashes = 1
  MaxRedisFaults = 0
  MaxSqliteFaults = 0
  MaxHubFaults = 0
  MaxConsumerCrashes = 0
  MaxStops = 0
  MaxReportFaults = 0
INVARIANTS
  NewestIsLast
