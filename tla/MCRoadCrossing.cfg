SPECIFICATION FairServiceSpec
CONSTANTS
  Samples <- ServiceSamples
  Gaps = {1}
  Window = 0
  Clearance = 0
  MaxQueue = 1
  TimeCap = 0
  Commands = {c1}
  Zones = 1
  Attempts = 2
INVARIANTS
  BarrierFollowsEngine
PROPERTIES
  EmergencyEnforced
  EmergencyTurnsRed
CHECK_DEADLOCK TRUE
