SPECIFICATION FairSpec
CONSTANTS
  Values = {0, 1, 2}
  Default = 3
  Resources = {4, 5}
  Hash <- MCHash
  Orchestrated = {TRUE, FALSE}
  MaxEvents = 2
  MaxDeploys = 2
  MaxFaults = 1
INVARIANTS
  HealthyMeansServed
  OvertakenOnlyByRecount
PROPERTIES
  TaskServed
