SPECIFICATION ReconciliationSpec
CONSTANTS
  settlement = settlement
  a1 = a1
  a2 = a2
  u1 = u1
  u2 = u2
  nobody = nobody
  noOrder = noOrder
  Accounts <- MCAccounts
  Settlement = settlement
  Customers <- MCCustomers
  NoOwner = nobody
  Orders = {}
  NoOrder = noOrder
  Amounts = {1, 2}
  OpeningBalance = 2
  MaxTx = 3
  MaxAudit = 2
SYMMETRY Symmetry
INVARIANT MismatchMeansDrift
CHECK_DEADLOCK FALSE
