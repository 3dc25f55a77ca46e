\* The consumer that claimed the event crashes.
CONSTANTS
  Events = {e1}
  NoEvent = NoEvent
  Runners = {r1, r2}
  Consumers = {c1, c2}
  BatchSize = 1
  PublishLease = 1
  ProcessLease = 3
  MaxRetries = 1
  MaxFaults = 1
SPECIFICATION FairDeliverySpec
PROPERTIES
  BusyRetriedAfterLease
CHECK_DEADLOCK FALSE
