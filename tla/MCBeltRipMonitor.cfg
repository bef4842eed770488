SPECIFICATION FairSpec
CONSTANTS
  Threshold = 150
  Samples <- QuietAndRip
  Commands = {c1}
  Speeds <- AskedSpeeds
  MaxSpeed = 1
  Ready = 1
  Fresh = 1
INVARIANTS
  LatchMeansStopped
PROPERTIES
  RipLeadsToStop
  
CHECK_DEADLOCK TRUE
