SPECIFICATION FairSpec
CONSTANTS
  NDeliveries = 2
  Keys = {"k"}
  KeyOf <- MCKeyOf
  NCommands = 2
  Partitions = {"p1"}
  MaxFaults = 1
  MaxDrops = 1
  MaxRuns = 2
  MaxWindow = 2
  MaxTraffic = 3
INVARIANTS
  SuppressedHasOriginal
  CommittedWasHandled
  InOrderPerPartition
PROPERTIES
  ImplementsWindow
  CommandArrives
CHECK_DEADLOCK FALSE
