--------------------------- MODULE PaymentIntake ---------------------------
(***************************************************************************)
(* Service.CreatePayment, statement by statement, for any number of         *)
(* concurrent requests: the idempotency key is looked up, the accounts are  *)
(* checked, the order is inserted, and a request that lost the race looks   *)
(* its key up again.  What samePaymentIntent compares (source account,      *)
(* beneficiary, amount, schedule, texts) is one value, the payload, but for *)
(* the transfer type, which is not compared when the payee is at this bank. *)
(***************************************************************************)
EXTENDS FiniteSets

CONSTANTS
  Customers,
  Keys,            \* idempotency keys, chosen by the caller
  Payloads,
  Scheduled,       \* payloads with an execution time of their own
  OrderIds,        \* payment_orders.id
  Calls,           \* requests being served
  None             \* no customer, key, payload or order

ASSUME IntakeAssumption ==
  /\ Scheduled \subseteq Payloads
  /\ None \notin Customers \union Keys \union Payloads \union OrderIds

VARIABLES
  orders,          \* payment_orders, with the history of what confirmed them
  call,            \* local variables of the requests
  past,            \* scheduled payloads whose execution time has passed
  answers          \* history: what successful requests were told

intakeVars == <<orders, call, past, answers>>

OrderStatus == {"AWAITING_CONFIRMATION", "BOOKED", "FAILED", "CANCELLED"}

TransferTypes == {"STANDARD", "INSTANT"}

\* payment_kind; UMBUCHUNG, to an account of one's own, is told apart nowhere here.
PaymentKinds == {"INTERNAL", "SEPA", "SEPA_INSTANT"}

NoRow ==
  [owner |-> None, key |-> None, payload |-> None, kind |-> "NONE",
   status |-> "NONE", approved |-> FALSE]

IdleCall ==
  [step |-> "idle", owner |-> None, key |-> None, payload |-> None,
   transfer |-> None, order |-> None]

IntakeInit ==
  /\ orders = [n \in OrderIds |-> NoRow]
  /\ call = [c \in Calls |-> IdleCall]
  /\ past = {}
  /\ answers = {}

-----------------------------------------------------------------------------

Rows == {n \in OrderIds : orders[n].status # "NONE"}

\* GetPaymentOrderByIdempotency: keys are scoped to their owner.
WithKey(c) ==
  {n \in Rows : orders[n].owner = call[c].owner /\ orders[n].key = call[c].key}

\* Field by field; of the amounts the values are compared, not the strings.
EquivalentIntent(row, request) ==
  /\ row.payload = request.payload
  /\ \/ row.kind = "INTERNAL"
     \/ row.kind = "SEPA_INSTANT" <=> request.transfer = "INSTANT"

SamePaymentIntent(c, n) == EquivalentIntent(orders[n], call[c])

Goto(c, step) ==
  /\ call' = [call EXCEPT ![c].step = step]
  /\ UNCHANGED <<orders, past, answers>>

\* An error ends the request.
Refuse(c) ==
  /\ call' = [call EXCEPT ![c] = IdleCall]
  /\ UNCHANGED <<orders, past, answers>>

\* The order the request is answered with.
AnswerWith(c, n) ==
  /\ call' = [call EXCEPT ![c].step = "answered", ![c].order = n]
  /\ answers' = answers \union
       {[owner |-> call[c].owner, key |-> call[c].key,
         payload |-> call[c].payload, transfer |-> call[c].transfer, order |-> n]}

\* validatePaymentInput: a time that has passed is refused before the key is
\* looked up, for a replay too.
Request(c, u, k, p, t) ==
  /\ call[c].step = "idle"
  /\ p \notin past
  /\ call' = [call EXCEPT ![c] =
       [step |-> "lookup", owner |-> u, key |-> k, payload |-> p,
        transfer |-> t, order |-> None]]
  /\ UNCHANGED <<orders, past, answers>>

\* The first lookup: a replay, a conflict, or a new key.
LookupKey(c) ==
  /\ call[c].step = "lookup"
  /\ \/ WithKey(c) = {} /\ Goto(c, "insert")
     \/ \E n \in WithKey(c) :
          \/ SamePaymentIntent(c, n) /\ AnswerWith(c, n) /\ UNCHANGED <<orders, past>>
          \/ ~SamePaymentIntent(c, n) /\ Refuse(c)

\* Where the payee's account is decides the kind, then the transfer type.
KindFor(t) == {"INTERNAL", IF t = "INSTANT" THEN "SEPA_INSTANT" ELSE "SEPA"}

\* CreatePaymentOrder under UNIQUE (owner_id, idempotency_key).
InsertOrder(c, n) ==
  /\ call[c].step = "insert"
  /\ WithKey(c) = {}
  /\ n \in OrderIds \ Rows
  /\ \E kind \in KindFor(call[c].transfer) :
       orders' = [orders EXCEPT ![n] =
         [owner |-> call[c].owner, key |-> call[c].key, payload |-> call[c].payload,
          kind |-> kind, status |-> "AWAITING_CONFIRMATION", approved |-> FALSE]]
  /\ \/ AnswerWith(c, n)
     \/ call' = [call EXCEPT ![c] = IdleCall] /\ UNCHANGED answers   \* no audit row
  /\ UNCHANGED past

InsertRefused(c) ==
  /\ call[c].step = "insert"
  /\ WithKey(c) # {}
  /\ Goto(c, "lookupAgain")

\* Mutant: the second lookup takes the row for a replay whatever it is for.
LookupAgainUnchecked(c) ==
  /\ call[c].step = "lookupAgain"
  /\ \E n \in WithKey(c) : AnswerWith(c, n)
  /\ UNCHANGED <<orders, past>>

\* The second lookup, after a unique violation.
LookupAgain(c) ==
  /\ call[c].step = "lookupAgain"
  /\ \E n \in WithKey(c) :
       \/ SamePaymentIntent(c, n) /\ AnswerWith(c, n) /\ UNCHANGED <<orders, past>>
       \/ ~SamePaymentIntent(c, n) /\ Refuse(c)

\* Account checks, database errors, a dead process: the request ends anywhere.
CallEnds(c) ==
  /\ call[c].step # "idle"
  /\ Refuse(c)

\* The customer confirms or cancels the order, through the payments API; the
\* states in between (Payments) are of no interest here.
CustomerSettles(n, status) ==
  /\ n \in Rows
  /\ orders[n].status = "AWAITING_CONFIRMATION"
  /\ orders' = [orders EXCEPT ![n].status = status]
  /\ UNCHANGED <<call, past, answers>>

\* The execution time of a scheduled payload passes.
TimeRunsOut(p) ==
  /\ p \in Scheduled \ past
  /\ past' = past \union {p}
  /\ UNCHANGED <<orders, call, answers>>

-----------------------------------------------------------------------------

IntakeStep(c) ==
  \/ LookupKey(c)
  \/ \E n \in OrderIds : InsertOrder(c, n)
  \/ InsertRefused(c)
  \/ LookupAgain(c)
  \/ CallEnds(c)

IntakeEnvironment ==
  \/ \E n \in OrderIds, s \in {"BOOKED", "FAILED", "CANCELLED"} : CustomerSettles(n, s)
  \/ \E p \in Payloads : TimeRunsOut(p)

\* Requests with one key are told of one order, and only requests for what that
\* order says are: a replay never creates a second order, a changed request is
\* never answered with the original one, whatever the interleaving.  Only for a
\* payee at this bank may they differ in the transfer type.
AnswersAgree ==
  /\ \A x, y \in answers : x.owner = y.owner /\ x.key = y.key =>
       /\ x.order = y.order
       /\ x.transfer = y.transfer \/ orders[x.order].kind = "INTERNAL"
  /\ \A x \in answers :
       /\ orders[x.order].owner = x.owner
       /\ orders[x.order].key = x.key
       /\ orders[x.order].payload = x.payload
=============================================================================
