SPECIFICATION BookingSpec
CONSTANT
  MaxAttempts = 3
INVARIANTS
  RetriesPostOnce
  AnswerTellsCommit
PROPERTIES
  CallReturns
CHECK_DEADLOCK FALSE
