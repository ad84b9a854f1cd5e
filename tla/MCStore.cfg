SPECIFICATION FairSpec
CONSTANTS
  Operators = {op}
  Keys = {DB01}
  Limit = 1
  MaxInserts = 2
  MaxCommands = 3
  MaxFaults = 1
INVARIANTS
  OpenIsComplete
PROPERTIES
  EventuallyOpen
  RemovesWhatWasListed
