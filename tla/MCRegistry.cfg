SPECIFICATION FairSpec
CONSTANTS
  Names = {DB01, DB02}
  Replicas = {100, 101}
  Hosts = {A, B}
  SeedName = DB01
  SeedReplica = 100
  SeedHost = A
  Length = 1
  MaxCommands = 2
  MaxCrashes = 1
INVARIANTS
  TypeOK
  CommandsSkipNothing
  ResetTakesEffect
PROPERTIES
  ProducerComesUp
