SPECIFICATION BookingSpec
CONSTANT
  MaxAttempts = 3
INVARIANT RejectionMeansNotBooked
CHECK_DEADLOCK FALSE
