SPECIFICATION FairSpec
CONSTANTS
  Commands = {"c1"}
  Writebacks = {"w1"}
  Acks = {"a1", "a2", "a3"}
  MaxFaults = 2
INVARIANTS
  SentWasPublished
  StatusMatchesResult
PROPERTIES
  AcknowledgedStays
  RequestLeavesRow
CHECK_DEADLOCK FALSE
