------------------------------ MODULE Checkout ------------------------------
(***************************************************************************)
(* Merchant payment intents: merchant.Service.Approve creates a payment     *)
(* order under the key "merchant:<intent>", links it, confirms it and       *)
(* records the outcome, each in a statement or transaction of its own,      *)
(* while other approvals, page loads and the customers' own confirmations   *)
(* and cancellations of their orders go on.  An approval may end anywhere.  *)
(***************************************************************************)
EXTENDS PaymentIntake

CONSTANTS
  Intents          \* (merchant_id, merchant_reference); also keys of payments

ASSUME CheckoutAssumption == Intents \subseteq Keys

VARIABLES
  intent,          \* merchant_payment_intents, and whether expires_at has passed
  told             \* the webhook: intents the merchant was told are paid

checkoutVars == <<intakeVars, intent, told>>

IntentStatus == {"NONE", "AWAITING_CUSTOMER", "PROCESSING", "BOOKED", "FAILED", "EXPIRED"}

CallSteps == {"idle", "lookup", "insert", "lookupAgain", "answered",
              "expire", "confirm", "BOOKED", "FAILED", "notify"}

CheckoutTypeOK ==
  /\ orders \in [OrderIds ->
       [owner : Customers \union {None}, key : Keys \union {None},
        payload : Payloads \union {None}, kind : PaymentKinds \union {"NONE"},
        status : OrderStatus \union {"NONE"}, approved : BOOLEAN]]
  /\ call \in [Calls ->
       [step : CallSteps, owner : Customers \union {None}, key : Keys \union {None},
        payload : Payloads \union {None}, transfer : TransferTypes \union {None},
        order : OrderIds \union {None}]]
  /\ past \subseteq Payloads
  /\ answers \subseteq
       [owner : Customers, key : Keys, payload : Payloads, transfer : TransferTypes,
        order : OrderIds]
  /\ intent \in [Intents ->
       [status : IntentStatus, order : OrderIds \union {None}, expired : BOOLEAN]]
  /\ told \subseteq Intents

CheckoutInit ==
  /\ IntakeInit
  /\ intent = [i \in Intents |-> [status |-> "NONE", order |-> None, expired |-> FALSE]]
  /\ told = {}

-----------------------------------------------------------------------------
(* The merchant, and time *)

\* CreateMerchantPaymentIntent; a replay of the request changes nothing.
CreateIntent(i) ==
  /\ intent[i].status = "NONE"
  /\ intent' = [intent EXCEPT ![i].status = "AWAITING_CUSTOMER"]
  /\ UNCHANGED <<intakeVars, told>>

IntentRunsOut(i) ==
  /\ intent[i].status # "NONE" /\ ~intent[i].expired
  /\ intent' = [intent EXCEPT ![i].expired = TRUE]
  /\ UNCHANGED <<intakeVars, told>>

-----------------------------------------------------------------------------
(* Approve *)

\* GetIntentForCustomer finds an intent that waits for a customer.
ApproveIntent(c, u, i, p) ==
  /\ intent[i].status = "AWAITING_CUSTOMER" /\ ~intent[i].expired
  /\ p \notin Scheduled
  /\ Request(c, u, i, p, "STANDARD")
  /\ UNCHANGED <<intent, told>>

\* It finds one that has run out, and is about to say so in the table.
FindExpired(c, i) ==
  /\ call[c].step = "idle"
  /\ intent[i].status = "AWAITING_CUSTOMER" /\ intent[i].expired
  /\ call' = [call EXCEPT ![c] =
       [step |-> "expire", owner |-> None, key |-> i, payload |-> None,
        transfer |-> None, order |-> None]]
  /\ UNCHANGED <<orders, past, answers, intent, told>>

\* Mutant: ExpireMerchantPaymentIntent trusts what was read before.
ExpireBlindly(c) ==
  /\ call[c].step = "expire"
  /\ Refuse(c)
  /\ intent' = [intent EXCEPT ![call[c].key].status = "EXPIRED"]
  /\ UNCHANGED told

\* ExpireMerchantPaymentIntent looks at the status again.
ExpireIntent(c) ==
  /\ call[c].step = "expire"
  /\ Refuse(c)
  /\ intent' = IF intent[call[c].key].status = "AWAITING_CUSTOMER"
               THEN [intent EXCEPT ![call[c].key].status = "EXPIRED"]
               ELSE intent
  /\ UNCHANGED told

\* An approval that has its payment order.
HasOrder(c) == call[c].step = "answered" /\ call[c].key \in Intents

\* LinkMerchantIntentPayment: one approval gets the intent, whatever was true
\* when its call began.
LinkPayment(c) ==
  /\ HasOrder(c)
  /\ intent[call[c].key].status = "AWAITING_CUSTOMER"
  /\ intent[call[c].key].order = None
  /\ intent' = [intent EXCEPT ![call[c].key].status = "PROCESSING",
                              ![call[c].key].order = call[c].order]
  /\ Goto(c, "confirm")
  /\ UNCHANGED told

\* Mutant: an approval that lost the intent goes on with its order.
LinkIgnored(c) ==
  /\ HasOrder(c)
  /\ intent[call[c].key].status # "AWAITING_CUSTOMER" \/ intent[call[c].key].order # None
  /\ Goto(c, "confirm")
  /\ UNCHANGED <<intent, told>>

\* The others leave an order nobody asked to confirm.
LinkRefused(c) ==
  /\ HasOrder(c)
  /\ intent[call[c].key].status # "AWAITING_CUSTOMER" \/ intent[call[c].key].order # None
  /\ Refuse(c)
  /\ UNCHANGED <<intent, told>>

\* ConfirmPayment books or rejects.  The caller may not learn of it: the answer
\* is lost, or a rejection of an attempt that was rolled back (BookingCall).
ConfirmOrder(c, outcome) ==
  /\ call[c].step = "confirm"
  /\ orders[call[c].order].status = "AWAITING_CONFIRMATION"
  /\ orders' = [orders EXCEPT ![call[c].order].status = outcome,
                              ![call[c].order].approved = TRUE]
  /\ \E next \in {[call[c] EXCEPT !.step = outcome], IdleCall} :
       call' = [call EXCEPT ![c] = next]
  /\ UNCHANGED <<past, answers, intent, told>>

\* Mutant: every error of ConfirmPayment is recorded as a failed payment.
RefusalIsFailure(c) ==
  /\ call[c].step = "confirm"
  /\ orders[call[c].order].status # "AWAITING_CONFIRMATION"
  /\ Goto(c, "FAILED")
  /\ UNCHANGED <<intent, told>>

\* The customer has confirmed or cancelled the order in the meantime.
ConfirmRefused(c) ==
  /\ call[c].step = "confirm"
  /\ orders[call[c].order].status # "AWAITING_CONFIRMATION"
  /\ Refuse(c)
  /\ UNCHANGED <<intent, told>>

\* SetMerchantIntentStatus, which asks for no particular status.
RecordOutcome(c) ==
  /\ call[c].step \in {"BOOKED", "FAILED"}
  /\ intent' = [intent EXCEPT ![call[c].key].status = call[c].step]
  /\ IF call[c].step = "BOOKED" THEN Goto(c, "notify") ELSE Refuse(c)
  /\ UNCHANGED told

\* The webhook, after the intent was read again; a failed callback is ignored.
NotifyMerchant(c) ==
  /\ call[c].step = "notify"
  /\ told' = told \union {call[c].key}
  /\ Refuse(c)
  /\ UNCHANGED intent

-----------------------------------------------------------------------------

PaySomething(c) ==
  \E u \in Customers, k \in Keys \ Intents, p \in Payloads, t \in TransferTypes :
    Request(c, u, k, p, t)

CheckoutNext ==
  \/ \E c \in Calls :
       \/ (PaySomething(c) \/ IntakeStep(c)) /\ UNCHANGED <<intent, told>>
       \/ \E u \in Customers, i \in Intents, p \in Payloads : ApproveIntent(c, u, i, p)
       \/ \E i \in Intents : FindExpired(c, i)
       \/ ExpireIntent(c)
       \/ LinkPayment(c)
       \/ LinkRefused(c)
       \/ \E outcome \in {"BOOKED", "FAILED"} : ConfirmOrder(c, outcome)
       \/ ConfirmRefused(c)
       \/ RecordOutcome(c)
       \/ NotifyMerchant(c)
  \/ \E i \in Intents : CreateIntent(i) \/ IntentRunsOut(i)
  \/ IntakeEnvironment /\ UNCHANGED <<intent, told>>

CheckoutSpec == CheckoutInit /\ [][CheckoutNext]_checkoutVars

-----------------------------------------------------------------------------
(* Properties *)

\* Approvals pay for an intent once, whoever approves it and however often:
\* only the order that was linked is ever confirmed by an approval.
ApprovalPaysOnce ==
  \A m, n \in Rows :
    /\ orders[m].approved /\ orders[n].approved
    /\ orders[m].key = orders[n].key /\ orders[n].key \in Intents
    => m = n

\* What an intent says is what became of its payment; an intent that waits or
\* has expired has none, and the merchant is told of nothing but bookings.
IntentTellsPayment ==
  \A i \in Intents :
    /\ intent[i].status \in {"NONE", "AWAITING_CUSTOMER", "EXPIRED"}
         <=> intent[i].order = None
    /\ intent[i].status \in {"BOOKED", "FAILED"}
         => orders[intent[i].order].status = intent[i].status
    /\ i \in told => intent[i].status = "BOOKED"

\* An intent keeps its payment order, and its final status, for good, although
\* the outcome is recorded by a statement without a guard.
IntentSettlesOnce ==
  [][\A i \in Intents :
       /\ intent[i].order # None => intent'[i].order = intent[i].order
       /\ intent[i].status \in {"BOOKED", "FAILED", "EXPIRED"}
            => intent'[i].status = intent[i].status]_checkoutVars
=============================================================================
