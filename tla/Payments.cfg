SPECIFICATION FairPaymentsSpec
CONSTANTS
  settlement = settlement
  a1 = a1
  a2 = a2
  u1 = u1
  u2 = u2
  nobody = nobody
  noOrder = noOrder
  noAccount = noAccount
  p1 = p1
  w1 = w1
  w2 = w2
  Accounts <- MCAccounts
  Settlement = settlement
  Customers = {u1, u2}
  NoOwner = nobody
  Orders = {p1}
  NoOrder = noOrder
  NoAccount = noAccount
  Workers = {w1, w2}
  Amounts = {1}
  OpeningBalance = 1
  MaxTx = 3
  MaxAudit = 1
  BatchSize = 1
  MaxWait = 2
  Skew = 1
  StaleAfter = 0
  MaxFaults = 2
  MaxWork = 2
CONSTRAINT FirstComeFirstNamed
INVARIANTS
  CachedBalanceIsLedgerTruth
  DoubleEntry
  NoOverdraft
  BookedExactlyOnce
  ConsentBeforeMoney
  OutcomeReportedOnce
PROPERTIES
  BlockedIsFrozen
  HistoryKept
  TerminalIsFinal
  NeverEarly
  ImplementsPromise
  DuePaymentsSettle
CHECK_DEADLOCK FALSE
