SPECIFICATION FairIngestSpec
CONSTANTS
  Kinds <- MCKinds
  N = 3
  Batch = 2
  MaxFailures = 1
  MaxRestarts = 1
CONSTRAINT OneOther
INVARIANTS
  ReadAccountedFor
  DrainedWhenStopped
  OnceUndisturbed
PROPERTIES
  EventuallyStored
CHECK_DEADLOCK FALSE
