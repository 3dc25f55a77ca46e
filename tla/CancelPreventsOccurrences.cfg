\* A cancelled order is made active again.
CONSTANTS
  StandingOrderIds = {s1}
  Customers = {c1, c2}
  NoOwner = NoOwner
  Never = Never
  Unlimited = Unlimited
  Days <- MCDays
  FirstDay <- MCFirstDay
  Limits <- MCLimits
  BatchSize = 1
  MaxOccurrences = 4
  MaxEdits = 2
  MaxOwnKeys = 0
SPECIFICATION FairStandingSpec
PROPERTIES
  CancelPreventsOccurrences
CHECK_DEADLOCK FALSE
