SPECIFICATION CheckoutSpec
CONSTANTS
  Customers = {u1, u2}
  Keys = {i1, k1}
  Intents = {i1}
  Payloads = {now, later}
  Scheduled = {later}
  OrderIds = {o1, o2}
  Calls = {c1, c2}
  None = none
SYMMETRY Symmetry
CONSTRAINT KindsThatMatter
INVARIANTS
  AnswersAgree
  ApprovalPaysOnce
  IntentTellsPayment
PROPERTY IntentSettlesOnce
