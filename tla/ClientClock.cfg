SPECIFICATION LiveSpec
CONSTANTS
  PingEvery = 10
  IoTimeout = 5
  MaxBusy = 4
  RoundTrip = 1
  Fresh = 2
  None = None
INVARIANTS
  DeadLinkNoticed
  AnsweringKept
  SnapshotYoung
  LossForgotten
PROPERTIES
  ServiceReturns
  SubscriberStops
CHECK_DEADLOCK FALSE
