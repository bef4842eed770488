SPECIFICATION FairSpec
CONSTANTS
  Samples <- ThreeClassSamples
  Gaps = {1, 2}
  Window = 3
  Clearance = 2
  MaxQueue = 2
  TimeCap = 4
INVARIANTS
  SafeNeedsQuietBelt
  OpenOnlyInWindow
PROPERTY CheckingEnds
CHECK_DEADLOCK TRUE
