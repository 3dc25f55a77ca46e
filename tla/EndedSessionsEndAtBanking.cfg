SPECIFICATION IdentitySpec
CONSTANTS
  c1 = c1
  c2 = c2
  Calls <- MCCalls
  MaxUsers = 1
  MaxVersion = 2
  MaxLinks = 0
  MaxSeeds = 0
  MaxFailures = 0
SYMMETRY Symmetry
INVARIANTS
  EndedSessionsEndAtBanking
CHECK_DEADLOCK FALSE
