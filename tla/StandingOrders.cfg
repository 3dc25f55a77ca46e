\* Orders do not interact; one may be edited twice by either of two customers.
CONSTANTS
  StandingOrderIds = {s1}
  Customers = {c1, c2}
  NoOwner = NoOwner
  Never = Never
  Unlimited = Unlimited
  Days <- MCDays
  FirstDay <- MCFirstDay
  Limits <- MCLimits
  BatchSize = 1
  MaxOccurrences = 4
  MaxEdits = 2
  MaxOwnKeys = 1
SPECIFICATION FairStandingSpec
INVARIANTS
  OccurrencesFollowSchedule
  NoPeriodSkipped
  DayIsShortestMonthSoFar
  LimitsKept
PROPERTIES
  DueOccurrencesHappen
CHECK_DEADLOCK FALSE
