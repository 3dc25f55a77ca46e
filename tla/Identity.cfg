SPECIFICATION IdentitySpec
CONSTANTS
  c1 = c1
  c2 = c2
  Calls <- MCCalls
  MaxUsers = 2
  MaxVersion = 2
  MaxLinks = 2
  MaxSeeds = 1
  MaxFailures = 2
SYMMETRY Symmetry
INVARIANTS
  SessionHasCustomer
  OwnerIsAhead
  OnlyLastLinkWorks
  OneChangePerPassword
  NoUserWithoutCustomer
CHECK_DEADLOCK FALSE
