------------------------------ MODULE Payments ------------------------------
(***************************************************************************)
(* Payment orders over the ledger: creation, confirmation, cancellation,    *)
(* and the scheduled worker that claims due orders, books them and recovers *)
(* the claims of workers that died.  Several workers run: one goroutine in  *)
(* the API process and the worker process.                                  *)
(*                                                                          *)
(* Every action is one database transaction.  Time is relative: an order    *)
(* carries the number of ticks until it is due and since it was claimed.    *)
(***************************************************************************)
EXTENDS Ledger, PaymentLifecycle

CONSTANTS
  NoAccount,       \* beneficiary_account_id IS NULL: the payee banks elsewhere
  Workers,         \* processes that call RunDuePayments
  BatchSize,       \* orders claimed per cycle
  MaxWait,         \* bound: ticks an order may be scheduled ahead
  Skew,            \* ticks the clocks of the API and of the database differ by
  StaleAfter,      \* ticks after which a claim is stale (300 s)
  MaxFaults,       \* bound: crashes, failed statements, rolled back bookings, stalls
  MaxWork          \* bound: ledger transactions and admin audit rows beside orders

ASSUME PaymentsAssumption ==
  /\ NoAccount \notin Accounts
  /\ BatchSize \in Nat \ {0}
  /\ MaxWait \in Nat
  /\ Skew \in Nat
  /\ StaleAfter \in Nat
  /\ MaxFaults \in Nat
  /\ MaxWork \in Nat
  /\ IsFiniteSet(Orders)

VARIABLES
  orders,          \* the payment_orders table
  pendingAudit,    \* audit rows that are written after their order's commit
  auditTrail,      \* audit_events, by order, in the order they were written
  outbox,          \* outbox_events, by order
  worker,          \* where each worker is in RunDuePayments
  jammed,          \* the key of an occurrence that is due is taken
  faults           \* faults so far

paymentVars == <<orders, pendingAudit, auditTrail, outbox, worker, jammed, faults>>
vars == <<ledgerVars, paymentVars>>

Schedule == {"IMMEDIATE", "SCHEDULED", "STANDING"}

\* "OTHER" stands for every result but MATCH: the code treats them alike.
VoPResult == {"MATCH", "OTHER"}

\* wait is counted by the database's clock; at -Skew the time has come by every
\* clock, or nobody asks.  ledgerTx = 0 is ledger_transaction_id IS NULL, age = -1 is
\* processing_started_at IS NULL, decided is vop_decision_at IS NOT NULL;
\* accepted is a history variable: the mismatch the customer agreed to.
Order == [status: PaymentStatus, owner: Customers \union {NoOwner},
          source: Accounts \union {NoAccount},
          beneficiary: Accounts \union {NoAccount}, amount: Nat,
          schedule: Schedule, wait: -Skew..MaxWait, vop: VoPResult,
          decided: BOOLEAN, overridden: BOOLEAN, accepted: BOOLEAN,
          ledgerTx: Nat, age: -1..StaleAfter + 1]

AuditType == {"PAYMENT_CREATED", "PAYMENT_SCHEDULED", "PAYMENT_BOOKED",
              "PAYMENT_FAILED", "PAYMENT_CANCELLED"}

Activity == {"SEPA_PAYMENT_SENT", "SEPA_PAYMENT_RECEIVED", "SEPA_PAYMENT_FAILED"}

Event == [kind: Activity, recipient: Customers]

\* A worker is between two steps of its cycle, or has claimed orders left.
Worker == [step: {"idle", "recovered", "materialized", "processing"},
           claimed: SUBSET Orders]

Resting == [step |-> "idle", claimed |-> {}]

Unused == [status |-> "NONE", owner |-> NoOwner, source |-> NoAccount,
           beneficiary |-> NoAccount, amount |-> 0, schedule |-> "IMMEDIATE",
           wait |-> -Skew, vop |-> "OTHER", decided |-> FALSE, overridden |-> FALSE,
           accepted |-> FALSE, ledgerTx |-> 0, age |-> -1]

-----------------------------------------------------------------------------
(* The statements on payment_orders: the row each one leaves.  Their WHERE    *)
(* clauses ask again for the status that ValidateTransition asked for.        *)

\* overridden and the time of the decision are stored with the new status.
ConfirmPaymentOrder(p, status, overridden, accepted) ==
  [p EXCEPT !.status = status, !.decided = TRUE, !.overridden = overridden,
            !.accepted = accepted]

MarkPaymentBooked(p, tx) == [p EXCEPT !.status = "BOOKED", !.ledgerTx = tx]

MarkPaymentFailed(p) == [p EXCEPT !.status = "FAILED"]

\* No row is found when the order is somebody else's or has gone too far.
CancelPaymentOrder(customer, o) ==
  /\ orders[o].owner = customer
  /\ orders[o].status \in {"DRAFT", "AWAITING_CONFIRMATION", "SCHEDULED"}
  /\ orders' = [orders EXCEPT ![o].status = "CANCELLED"]

-----------------------------------------------------------------------------
(* Booking *)

\* External payees are paid through the settlement account.
Destination(p) == IF p.beneficiary = NoAccount THEN Settlement ELSE p.beneficiary

\* A foreign key keeps the accounts of an order: they are never deleted.
Referenced(a) == \E o \in Orders : a \in {orders[o].source, orders[o].beneficiary}

\* The rejection bookPaymentTx returns before it writes anything, or "OK".
BookingVerdict(p) ==
  PlanCustomerTransfer(p.owner, p.source, Destination(p),
                       accounts[p.source].available, p.amount, FALSE, TRUE)

\* An event is enqueued only for the owner of a customer account; otherwise
\* the whole transaction is rolled back.
MayNotify(customer, a) == CustomerCanOperate(customer, a)

BookedEvents(p) ==
  LET sent == [kind |-> "SEPA_PAYMENT_SENT", recipient |-> p.owner]
      received == [kind |-> "SEPA_PAYMENT_RECEIVED",
                   recipient |-> accounts[p.beneficiary].owner]
  IN IF p.beneficiary = NoAccount \/ accounts[p.beneficiary].system
     THEN <<sent>> ELSE <<sent, received>>

FailedEvents(p) == <<[kind |-> "SEPA_PAYMENT_FAILED", recipient |-> p.owner]>>

Audit(o, type) == auditTrail' = [auditTrail EXCEPT ![o] = Append(@, type)]

Enqueue(o, events) == outbox' = [outbox EXCEPT ![o] = @ \o events]

\* The debit and the credit entry, each with the order's id, and the balances.
CreatePaymentEntries(p, o) == Post(p.source, Destination(p), p.amount, o)

\* bookPaymentTx with MarkPaymentBooked, the booked events and the audit row.
Book(o, p) ==
  /\ ValidateTransition(p.status, "BOOKED")
  /\ BookingVerdict(p) = "OK"
  /\ CreatePaymentEntries(p, o)
  /\ orders' = [orders EXCEPT ![o] = MarkPaymentBooked(p, lastTx')]
  /\ MayNotify(p.owner, p.source)
  /\ Enqueue(o, BookedEvents(p))
  /\ Audit(o, "PAYMENT_BOOKED")
  /\ UNCHANGED adminAudit

\* Mutant: the customer is not told.
FailSilently(o, p) ==
  /\ ValidateTransition(p.status, "FAILED")
  /\ BookingVerdict(p) # "OK"
  /\ orders' = [orders EXCEPT ![o] = MarkPaymentFailed(p)]
  /\ Audit(o, "PAYMENT_FAILED")
  /\ UNCHANGED <<ledgerVars, outbox>>

\* markFailed with the failed event and the audit row.
Fail(o, p) ==
  /\ ValidateTransition(p.status, "FAILED")
  /\ BookingVerdict(p) # "OK"
  /\ orders' = [orders EXCEPT ![o] = MarkPaymentFailed(p)]
  /\ MayNotify(p.owner, p.source)
  /\ Enqueue(o, FailedEvents(p))
  /\ Audit(o, "PAYMENT_FAILED")
  /\ UNCHANGED ledgerVars

Settle(o, p) == Book(o, p) \/ Fail(o, p)

-----------------------------------------------------------------------------
(* Customer operations *)

\* GetAccountByIBAN: an internal payee is an account, and not the bank's own.
PayeeFound(beneficiary) ==
  beneficiary # NoAccount => Exists(beneficiary) /\ ~accounts[beneficiary].system

\* The bound: there is a ledger transaction left for every order.
AuditRows(a) == Len(adminAudit[a].status) + Len(adminAudit[a].balance)

RoomForOrders ==
  lastTx + MapThenSumSet(AuditRows, Accounts) + Cardinality(Orders) <= MaxWork

\* CreatePayment.  The audit row follows in a transaction of its own.
CreatePayment(customer, o, source, beneficiary, amount, schedule, wait, vop) ==
  /\ orders[o].status = "NONE"
  /\ Exists(source) /\ CustomerCanOperate(customer, source)
  /\ accounts[source].status = "ACTIVE"
  /\ beneficiary # source
  /\ PayeeFound(beneficiary)
  /\ schedule \in {"IMMEDIATE", "SCHEDULED"}
  /\ schedule = "IMMEDIATE" => wait = -Skew
  /\ RoomForOrders
  /\ orders' = [orders EXCEPT ![o] =
       [Unused EXCEPT !.status = "AWAITING_CONFIRMATION", !.owner = customer,
          !.source = source, !.beneficiary = beneficiary, !.amount = amount,
          !.schedule = schedule, !.wait = wait, !.vop = vop]]
  /\ pendingAudit' = pendingAudit \union {<<o, "PAYMENT_CREATED">>}
  /\ UNCHANGED <<ledgerVars, auditTrail, outbox, worker, jammed, faults>>

\* Mutant: acceptMismatch is not asked for.
ConfirmWithoutConsent(customer, o, acceptMismatch, ahead) ==
  LET p == orders[o]
      later == p.schedule = "SCHEDULED" /\ p.wait > ahead
      confirmed == ConfirmPaymentOrder(p, IF later THEN "SCHEDULED" ELSE "PROCESSING",
                                       p.vop # "MATCH", p.vop # "MATCH" /\ acceptMismatch)
  IN /\ p.owner = customer
     /\ p.status = "AWAITING_CONFIRMATION"
     /\ \/ /\ later
           /\ orders' = [orders EXCEPT ![o] = confirmed]
           /\ Audit(o, "PAYMENT_SCHEDULED")
           /\ UNCHANGED <<ledgerVars, outbox>>
        \/ ~later /\ Settle(o, confirmed)
     /\ UNCHANGED <<pendingAudit, worker, jammed, faults>>

\* ConfirmPayment: the decision, and the schedule or the whole booking.  What is
\* due it tells by the clock of its own process, which is "ahead" of the
\* database's, or behind it if that is negative.
ConfirmPayment(customer, o, acceptMismatch, ahead) ==
  LET p == orders[o]
      requiresOverride == p.vop # "MATCH"
      later == p.schedule = "SCHEDULED" /\ p.wait > ahead
      target == IF later THEN "SCHEDULED" ELSE "PROCESSING"
      confirmed == ConfirmPaymentOrder(p, target, requiresOverride,
                                       requiresOverride /\ acceptMismatch)
  IN /\ p.owner = customer
     /\ p.status = "AWAITING_CONFIRMATION"
     /\ requiresOverride => acceptMismatch
     /\ ValidateTransition(p.status, target)
     /\ \/ /\ later
           /\ orders' = [orders EXCEPT ![o] = confirmed]
           /\ Audit(o, "PAYMENT_SCHEDULED")
           /\ UNCHANGED <<ledgerVars, outbox>>
        \/ ~later /\ Settle(o, confirmed)
     /\ UNCHANGED <<pendingAudit, worker, jammed, faults>>

\* Mutant: the status is not looked at.
CancelAnyPayment(customer, o) ==
  /\ orders[o].owner = customer
  /\ orders[o].status \notin {"NONE", "CANCELLED"}
  /\ orders' = [orders EXCEPT ![o].status = "CANCELLED"]
  /\ pendingAudit' = pendingAudit \union {<<o, "PAYMENT_CANCELLED">>}
  /\ UNCHANGED <<ledgerVars, auditTrail, outbox, worker, jammed, faults>>

\* CancelPayment.  The audit row follows in a transaction of its own.
CancelPayment(customer, o) ==
  /\ CancelPaymentOrder(customer, o)
  /\ pendingAudit' = pendingAudit \union {<<o, "PAYMENT_CANCELLED">>}
  /\ UNCHANGED <<ledgerVars, auditTrail, outbox, worker, jammed, faults>>

\* The second transaction of CreatePayment and CancelPayment.
WriteAudit(o, type) ==
  /\ <<o, type>> \in pendingAudit
  /\ pendingAudit' = pendingAudit \ {<<o, type>>}
  /\ Audit(o, type)
  /\ UNCHANGED <<ledgerVars, orders, outbox, worker, jammed, faults>>

Fault == faults < MaxFaults /\ faults' = faults + 1

\* It fails, or the process dies before it: nobody writes the row later.
LoseAudit(o, type) ==
  /\ <<o, type>> \in pendingAudit
  /\ pendingAudit' = pendingAudit \ {<<o, type>>}
  /\ Fault
  /\ UNCHANGED <<ledgerVars, orders, auditTrail, outbox, worker, jammed>>

-----------------------------------------------------------------------------
(* The worker: RunDuePayments *)

\* Mutant: whatever was claimed once and not booked is taken for abandoned.
StaleInAnyStatus(p) == p.ledgerTx = 0 /\ p.age > StaleAfter

\* An abandoned claim, as the WHERE clause of RecoverStalePayments reads.
Stale(p) == p.status = "PROCESSING" /\ p.ledgerTx = 0 /\ p.age > StaleAfter

\* Mutant: abandoned claims are never recovered.
RecoverNothing(w) ==
  /\ worker[w].step = "idle"
  /\ worker' = [worker EXCEPT ![w].step = "recovered"]
  /\ UNCHANGED <<ledgerVars, orders, pendingAudit, auditTrail, outbox, jammed, faults>>

RecoverStalePayments(w) ==
  /\ worker[w].step = "idle"
  /\ worker' = [worker EXCEPT ![w].step = "recovered"]
  /\ orders' = [o \in Orders |->
       IF Stale(orders[o])
       THEN [orders[o] EXCEPT !.status = "SCHEDULED", !.age = -1]
       ELSE orders[o]]
  /\ UNCHANGED <<ledgerVars, pendingAudit, auditTrail, outbox, jammed, faults>>

\* Another worker's transaction has the row of the jammed standing order locked.
JamSkipped(w) == \E v \in Workers \ {w} : worker[v].step = "recovered"

\* No standing order is due.
MaterializeNothing(w) ==
  /\ worker[w].step = "recovered"
  /\ jammed => JamSkipped(w)
  /\ worker' = [worker EXCEPT ![w].step = "materialized"]
  /\ UNCHANGED <<ledgerVars, orders, pendingAudit, auditTrail, outbox, jammed, faults>>

\* One occurrence of a due standing order; its accounts were checked when the
\* standing order was created, its payee is not verified again.
MaterializeOccurrence(w, o, source, beneficiary, amount) ==
  /\ worker[w].step = "recovered"
  /\ orders[o].status = "NONE"
  /\ Exists(source) /\ ~accounts[source].system
  /\ beneficiary # source
  /\ PayeeFound(beneficiary)
  /\ RoomForOrders
  /\ worker' = [worker EXCEPT ![w].step = "materialized"]
  /\ orders' = [orders EXCEPT ![o] =
       [Unused EXCEPT !.status = "SCHEDULED", !.owner = accounts[source].owner,
          !.source = source, !.beneficiary = beneficiary, !.amount = amount,
          !.schedule = "STANDING",
          !.vop = IF beneficiary = NoAccount THEN "OTHER" ELSE "MATCH"]]
  /\ UNCHANGED <<ledgerVars, pendingAudit, auditTrail, outbox, jammed, faults>>

\* CreatePaymentOrder violates UNIQUE (owner_id, idempotency_key): the batch is
\* rolled back and the cycle ends before anything is claimed.
MaterializationFails(w) ==
  /\ worker[w].step = "recovered"
  /\ jammed
  /\ worker' = [worker EXCEPT ![w] = Resting]
  /\ UNCHANGED <<ledgerVars, orders, pendingAudit, auditTrail, outbox, jammed, faults>>

\* Mutant: the execution time is not compared.
DueAtAnyTime(o) == orders[o].status = "SCHEDULED"

Due(o) == orders[o].status = "SCHEDULED" /\ orders[o].wait <= 0

\* FOR UPDATE SKIP LOCKED: any of the due orders may be locked and skipped.
ClaimDuePaymentOrders(w, batch) ==
  /\ worker[w].step = "materialized"
  /\ Cardinality(batch) <= BatchSize
  /\ \A o \in batch : Due(o)
  /\ orders' = [o \in Orders |->
       IF o \in batch
       THEN [orders[o] EXCEPT !.status = "PROCESSING", !.age = 0]
       ELSE orders[o]]
  /\ worker' = [worker EXCEPT ![w] =
       IF batch = {} THEN Resting
       ELSE [step |-> "processing", claimed |-> batch]]
  /\ UNCHANGED <<ledgerVars, pendingAudit, auditTrail, outbox, jammed, faults>>

\* The worker is done with one order of its batch.
Finish(w, o) ==
  LET left == worker[w].claimed \ {o} IN
  worker' = [worker EXCEPT ![w] =
    IF left = {} THEN Resting ELSE [step |-> "processing", claimed |-> left]]

\* Mutant: the order is booked as it was claimed, without a second look.
ProcessWithoutLooking(w, o) ==
  /\ o \in worker[w].claimed
  /\ Finish(w, o)
  /\ Settle(o, [orders[o] EXCEPT !.status = "PROCESSING"])
  /\ UNCHANGED <<pendingAudit, jammed, faults>>

\* processClaimedPayment: re-reads the order under its row lock and settles it
\* unless somebody else already did.
ProcessClaimedPayment(w, o) ==
  /\ o \in worker[w].claimed
  /\ Finish(w, o)
  /\ IF orders[o].status = "PROCESSING" /\ orders[o].ledgerTx = 0
     THEN Settle(o, orders[o])
     ELSE UNCHANGED <<ledgerVars, orders, auditTrail, outbox>>
  /\ UNCHANGED <<pendingAudit, jammed, faults>>

\* Its transaction is rolled back; the worker goes on with the batch.
ProcessingRolledBack(w, o) ==
  /\ o \in worker[w].claimed
  /\ Finish(w, o)
  /\ Fault
  /\ UNCHANGED <<ledgerVars, orders, pendingAudit, auditTrail, outbox, jammed>>

\* The worker dies, or a statement before the claim fails and ends the cycle.
\* Its claims stay in the table.
WorkerStops(w) ==
  /\ worker[w] # Resting
  /\ worker' = [worker EXCEPT ![w] = Resting]
  /\ Fault
  /\ UNCHANGED <<ledgerVars, orders, pendingAudit, auditTrail, outbox, jammed>>

-----------------------------------------------------------------------------
(* The environment *)

\* A live worker has not come to an order it claimed, and its claim is about
\* to become stale.
Stalled ==
  \E w \in Workers : \E o \in worker[w].claimed :
    orders[o].status = "PROCESSING" /\ orders[o].age = StaleAfter

\* Its time may still be asked for.
Waiting(o) == orders[o].status \in {"AWAITING_CONFIRMATION", "SCHEDULED", "PROCESSING"}

\* Orders become due and claims grow old.  A worker that needs longer than the
\* stale time for its batch counts as a fault.
Tick ==
  /\ IF Stalled THEN Fault ELSE UNCHANGED faults
  /\ orders' = [o \in Orders |->
       [orders[o] EXCEPT !.wait = IF Waiting(o) /\ @ > -Skew THEN @ - 1 ELSE @,
                         !.age = IF @ \in 0..StaleAfter THEN @ + 1 ELSE @]]
  /\ UNCHANGED <<ledgerVars, pendingAudit, auditTrail, outbox, worker, jammed>>

\* The owner of a standing order uses the key of its next occurrence for a
\* payment of their own; or the standing order is paused or cancelled.
JamOrRelease ==
  /\ jammed' = ~jammed
  /\ UNCHANGED <<ledgerVars, orders, pendingAudit, auditTrail, outbox, worker, faults>>

\* The other use cases of the ledger, beyond MaxWork while there are no orders.
LedgerStep ==
  /\ LedgerNext
  /\ \A a \in Accounts :
       accounts'[a].status = "DELETED" /\ Exists(a) => ~Referenced(a)
  /\ RoomForOrders' \/ \A o \in Orders : orders[o].status = "NONE"
  /\ UNCHANGED paymentVars

PaymentsInit ==
  /\ LedgerInit
  /\ orders = [o \in Orders |-> Unused]
  /\ pendingAudit = {}
  /\ auditTrail = [o \in Orders |-> << >>]
  /\ outbox = [o \in Orders |-> << >>]
  /\ worker = [w \in Workers |-> Resting]
  /\ jammed = FALSE
  /\ faults = 0

Payees == Accounts \union {NoAccount}

CustomerPaymentStep(customer, o) ==
  \/ \E source \in Accounts, beneficiary \in Payees, amount \in Amounts,
        schedule \in {"IMMEDIATE", "SCHEDULED"}, wait \in -Skew..MaxWait,
        vop \in VoPResult :
       CreatePayment(customer, o, source, beneficiary, amount, schedule, wait, vop)
  \/ \E acceptMismatch \in BOOLEAN, ahead \in -Skew..Skew :
       ConfirmPayment(customer, o, acceptMismatch, ahead)
  \/ CancelPayment(customer, o)

ClaimStep(w) == \E batch \in SUBSET Orders : ClaimDuePaymentOrders(w, batch)

WorkerStep(w) ==
  \/ RecoverStalePayments(w)
  \/ MaterializeNothing(w)
  \/ \E o \in Orders, source \in Accounts, beneficiary \in Payees, amount \in Amounts :
       MaterializeOccurrence(w, o, source, beneficiary, amount)
  \/ MaterializationFails(w)
  \/ ClaimStep(w)
  \/ \E o \in Orders : ProcessClaimedPayment(w, o) \/ ProcessingRolledBack(w, o)
  \/ WorkerStops(w)

AuditStep ==
  \E o \in Orders, type \in AuditType : WriteAudit(o, type) \/ LoseAudit(o, type)

PaymentsNext ==
  \/ \E customer \in Customers, o \in Orders : CustomerPaymentStep(customer, o)
  \/ \E w \in Workers : WorkerStep(w)
  \/ AuditStep
  \/ Tick
  \/ JamOrRelease
  \/ LedgerStep

PaymentsSpec == PaymentsInit /\ [][PaymentsNext]_vars

\* Both schedulers start a cycle on every timer tick and time passes.  A due
\* order is claimed if it is claimable again and again: its row is locked for
\* the length of a transaction only, and the oldest orders are claimed first.
\* Nothing is assumed of the customers: a jam may last.
Fairness ==
  /\ WF_vars(Tick)
  /\ \A w \in Workers :
       /\ WF_vars(RecoverStalePayments(w))
       /\ WF_vars(MaterializeNothing(w) \/ MaterializationFails(w))
       /\ WF_vars(ClaimStep(w))
       /\ \A o \in Orders : WF_vars(ProcessClaimedPayment(w, o))
  /\ \A o \in Orders :
       SF_vars(\E w \in Workers, batch \in SUBSET Orders :
                 o \in batch /\ ClaimDuePaymentOrders(w, batch))

FairPaymentsSpec == PaymentsSpec /\ Fairness
-----------------------------------------------------------------------------
(* Properties *)

\* Type correctness of the payment tables and of the workers.
PaymentsTypeOK ==
  /\ orders \in [Orders -> Order]
  /\ pendingAudit \subseteq Orders \X {"PAYMENT_CREATED", "PAYMENT_CANCELLED"}
  /\ auditTrail \in [Orders -> Seq(AuditType)]
  /\ outbox \in [Orders -> Seq(Event)]
  /\ worker \in [Workers -> Worker]
  /\ jammed \in BOOLEAN
  /\ faults \in 0..MaxFaults

EntriesFor(o) == {e \in entries : e.order = o}

\* The two entries a booked order stands for.
BookedPair(p, o) ==
  {[tx |-> p.ledgerTx, account |-> p.source, debit |-> p.amount, credit |-> 0,
    order |-> o],
   [tx |-> p.ledgerTx, account |-> Destination(p), debit |-> 0,
    credit |-> p.amount, order |-> o]}

\* Money moves for an order exactly once, and exactly when it is BOOKED: two
\* workers, a stale claim that is recovered while its owner still runs, a
\* cancellation and a rolled back booking never pay twice, pay nothing for a
\* booked order, or pay for an order that ends FAILED or CANCELLED.
BookedExactlyOnce ==
  \A o \in Orders :
    LET p == orders[o] IN
    IF p.status = "BOOKED"
    THEN p.ledgerTx # 0 /\ EntriesFor(o) = BookedPair(p, o)
    ELSE p.ledgerTx = 0 /\ EntriesFor(o) = {}

\* No money moves for a customer's order without the customer's decision on
\* the verification of payee, and none against a mismatch the customer did
\* not accept.  Standing orders are the exception the code makes.
ConsentBeforeMoney ==
  \A o \in Orders :
    EntriesFor(o) # {} /\ orders[o].schedule # "STANDING" =>
      /\ orders[o].decided
      /\ orders[o].vop # "MATCH" => orders[o].overridden /\ orders[o].accepted

Occurrences(seq, x) == Cardinality({i \in DOMAIN seq : seq[i] = x})

\* The audit trail and the outbox tell the order's outcome and tell it once:
\* one BOOKED or FAILED row and its events if and only if that is the status,
\* and never a CREATED or CANCELLED row more than there were such calls.
OutcomeReportedOnce ==
  \A o \in Orders :
    LET p == orders[o]
        rows(type) == Occurrences(auditTrail[o], type)
    IN /\ rows("PAYMENT_BOOKED") = IF p.status = "BOOKED" THEN 1 ELSE 0
       /\ rows("PAYMENT_FAILED") = IF p.status = "FAILED" THEN 1 ELSE 0
       /\ rows("PAYMENT_CANCELLED") <= IF p.status = "CANCELLED" THEN 1 ELSE 0
       /\ rows("PAYMENT_CREATED") <= IF p.schedule = "STANDING" THEN 0 ELSE 1
       /\ outbox[o] = CASE p.status = "BOOKED" -> BookedEvents(p)
                        [] p.status = "FAILED" -> FailedEvents(p)
                        [] OTHER -> << >>

\* A worker that holds a claim can trust what it re-reads: an order in
\* PROCESSING is held by a worker, or its claim grows stale and is recovered.
\* It has been consented to (or is an occurrence) and is due.
ProcessingIsClaimed ==
  \A o \in Orders :
    orders[o].status = "PROCESSING" =>
      /\ orders[o].age >= 0
      /\ orders[o].wait <= 0
      /\ orders[o].decided \/ orders[o].schedule = "STANDING"

\* A terminal order stays as it is: no later claim, cancellation, recovery or
\* confirmation changes its status, pays for it or reports it again.
TerminalIsFinal ==
  [][\A o \in Orders :
       orders[o].status \in Terminal =>
         /\ orders'[o].status = orders[o].status
         /\ EntriesFor(o)' = EntriesFor(o)
         /\ outbox'[o] = outbox[o]]_vars

\* Two clocks decide that an order is due.  Whoever claims one goes by the
\* database's and is never early, and what was claimed stays due until it is
\* settled.  A confirmation goes by the API's and settles an order no earlier
\* than the clocks differ; an order it leaves SCHEDULED waits for the claim.
NeverEarly ==
  [][\A o \in Orders :
       orders'[o].status # orders[o].status =>
         /\ orders'[o].status = "PROCESSING" => orders[o].wait <= 0
         /\ orders'[o].status \in {"BOOKED", "FAILED"} =>
              orders[o].wait <= IF orders[o].status = "PROCESSING" THEN 0 ELSE Skew]_vars

\* A claim is taken away from a worker that is still at work only after the
\* stale time has passed.
ClaimsLastUntilStale ==
  [][\A o \in Orders :
       /\ orders[o].status = "PROCESSING"
       /\ orders'[o].status = "SCHEDULED"
       => orders[o].age > StaleAfter]_vars

\* Every order that is scheduled or claimed is eventually booked, failed or
\* cancelled, whatever workers crash and whatever bookings are rolled back,
\* unless customers jam the materialisation of standing orders for ever or
\* again and again: a cycle that fails there claims no order of anybody.
DuePaymentsSettle ==
  \/ []<>jammed
  \/ \A o \in Orders :
       orders[o].status \in {"SCHEDULED", "PROCESSING"} ~> orders[o].status \in Terminal
=============================================================================
