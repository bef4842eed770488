SPECIFICATION ApiSpec
CONSTANTS
  Readings <- MCReadings
  Rules <- MCRules
  MaxFaults = 1
  MaxExpiries = 1
  MaxCalls = 3
  MaxRequests = 2
  MaxBegun = 3
INVARIANTS
  RaisedOncePerCooldown
  AlarmIsWatched
  AcknowledgedStaysQuiet
PROPERTIES
  AlarmIsSettled
  AcknowledgementStays
CHECK_DEADLOCK FALSE
