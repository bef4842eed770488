SPECIFICATION FairSpec
CONSTANTS
  Callers = {"poll", "command"}
  BusCallers = {"poll", "command"}
  Poller = "poll"
  Sessions = {"s1", "s2", "s3"}
  Subscriptions = {"sub"}
  None = None
  Nobody = Nobody
  MaxFaults = 2
INVARIANTS
  OneKeepalive
  SubscriptionsKept
PROPERTIES
  StopOpensNothing
  LinkRecovers
  ShutdownCompletes
CHECK_DEADLOCK FALSE
