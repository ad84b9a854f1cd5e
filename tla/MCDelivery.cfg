SPECIFICATION FairSpec
CONSTANTS
  Queues <- MCQueues
  Ids <- MCIds
  Bodies <- MCBodies
  Tasks <- MCTasks
  NoBody = NoBody
  None = None
  MaxRetry = 1
  MaxHubFaults = 2
  MaxConsumerCrashes = 1
  MaxStops = 1
  MaxReportFaults = 1
INVARIANTS
  TypeOK
  OvertakenOnlyAfterFailure
  GoneMeansReceived
  DeadLetterAccounted
PROPERTIES
  EventuallySettled
