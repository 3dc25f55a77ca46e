SPECIFICATION PayeesSpec
CONSTANTS
  Customers = {u1, u2}
  Merchants = {m1, m2}
  Numbers = {8, 87}
  Requests = {r1, r2}
  MaxAccounts = 2
  MaxCards = 1
  MaxTokens = 2
  MaxPayees = 1
  Mixed = FALSE
  Askers = {u1}
  KnownNames <- MCKnownNames
  TypedNames <- MCTypedNames
  PanPrefixes <- MCPanPrefixes
SYMMETRY Symmetry
INVARIANTS
  CardAccountStands OneTokenAccepted VerdictIsRight SlipsAreCaught
PROPERTIES
  TokensOutliveOthers CancellationIsFinal
CHECK_DEADLOCK FALSE
