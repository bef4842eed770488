SPECIFICATION FairSpec
CONSTANTS
  N = 3
  Capacity = 2
  Topics = {commands}
  MaxLosses = 1
INVARIANTS
  BufferedMeansFlushComing
  SubscribedWhileConnected
PROPERTIES
  KeepsPromise
  EachMessageSettled
CHECK_DEADLOCK FALSE
