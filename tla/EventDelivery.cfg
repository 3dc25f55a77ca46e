\* One event, two runners, two consumers, and three faults placed anywhere.
CONSTANTS
  Events = {e1}
  NoEvent = NoEvent
  Runners = {r1, r2}
  Consumers = {c1, c2}
  BatchSize = 1
  PublishLease = 1
  ProcessLease = 3
  MaxRetries = 1
  MaxFaults = 3
SPECIFICATION FairDeliverySpec
INVARIANTS
  NoEventLost
  ProcessedMeansMailed
  MailsBounded
PROPERTIES
  EventsSettle
CHECK_DEADLOCK FALSE
