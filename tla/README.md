# Formal model of the banking service

TLA+ models of the Go services in `src/backend`, the TLC runs that check them on
small instances, and TLAPS proofs of what matters most for every instance.
`PROJECT.json` lists components, runs, findings, hazards and theorems and maps
every definition to the lines it was translated from. Paths below are relative
to `src/backend` or to `src/backend/internal`.

## 1. The system

PostgreSQL is the only shared state; the Go processes (API, worker, identity,
notification, gateway) keep almost nothing in memory. Every balance-changing
use case is one SERIALIZABLE transaction run by `Store.ExecTxWithHandle`.

| Component | State | Operations | What makes it correct |
|---|---|---|---|
| Ledger (`internal/ledger`, `platform/database/ledger_repository.go`) | `accounts` with cached balances, append-only `entries`, `admin_audit_events` | register, open and delete accounts, deposit, withdraw, transfer, admin adjustment, block | cache = sum of entries, balanced postings, no overdraft, blocked accounts frozen, history kept |
| Reconciliation | none of its own | two reads and a comparison | a mismatch means that the cache drifted |
| Payment orders (`internal/payment/payments.go`) | `payment_orders`, `audit_events`, `outbox_events` | create, confirm, cancel, book, fail | money once and only when BOOKED, with consent, outcome reported once, terminal states final |
| Payment worker (`payment_worker.go`, run by API and worker process) | claims: status PROCESSING and its time | recover stale claims, materialise standing orders, claim, process | no double payment, no order stuck, never early |
| Transaction retry loop (`platform/database/store.go`) | local variables of the call | attempt, back off, give up | answers tell what was committed; the loop ends |
| Payment intake | the idempotency key of a row | look up, validate, insert, look up again | one order per key, replays change nothing |
| Standing orders | `standing_orders` | create, update, pause, cancel, advance | one occurrence per date, limits kept, cancelled stays cancelled, due ones are created |
| Verification of payee (`payment/vop.go`) and saved payees | `beneficiaries`, holders' names | check, save, rename (a saved payee has no route that deletes it) | a right name never warned about, a wrong one never a match |
| Outbox (`platform/outbox`) | `outbox_events` with leases | claim a batch, publish, mark, release | every event published, no two runners on one lease |
| RabbitMQ consumer, notification store | queues, retry counts, `processed_events` leases | consume, retry, dead-letter, claim, mark | no event lost, no mail sent twice |
| Merchant intents (`internal/merchant`) | `merchant_payment_intents` | create, approve, expire | one payment per intent |
| Cards (`internal/card`) | `payment_cards`, `merchant_card_tokens` | issue, reveal, cancel, delete, tokenise, authorise | a card hangs on its owner's account, a cancelled card is over, one token per merchant and card |
| Identity (`platform/identityapi`, `identitystore`) and session sync | users, reset links and `session_version` in one database, the customer and a copy of the version in another | register, log in and out, change and reset password | a session has a customer, an ended session stays ended, one change per password, no user without a customer |
| Account numbers (`internal/account`) | none | make and validate IBANs and card numbers | a typing slip is caught |
| Event streams (`payment/events.go`) | in-memory subscribers | subscribe, publish, poll | not modelled, see 7 |
| Bootstrap (`platform/bootstrap/seed.go`) | none of its own | seed the configured administrator, seed demo data | Banking's session versions stay Identity's, but for what seeding adds |
| Gateway, e-mail, notification API, frontend | none or configuration | I/O | not modelled, see 7 |

Interactions: handlers call services, services call the store; payment orders
post to the ledger inside their own transaction and enqueue outbox events in it;
the worker and the API run `RunDuePayments` concurrently, coordinated only by
row locks, `SKIP LOCKED` and the status column; identity calls the banking
service over HTTP to provision customers and to sync session versions; outbox
runners hand events to RabbitMQ, the notification service consumes them; the
API seeds its administrator when it starts, and counts up the session version of
a customer who has that address; occurrences of standing orders share the unique
idempotency keys of their owner's payments; merchants create payments through `CreatePayment` and `ConfirmPayment`, or
authorise a card and have its account charged.

What is hard: concurrent debits, a stale claim whose owner is still alive,
crashes between claim and booking, serialization failures at every statement,
audit rows written in a second transaction, checks made in a statement before
the one that relies on them, commands to another service whose reply is lost or
whose execution comes late, two clocks, at-least-once delivery, date and checksum
arithmetic. `hazards` in `PROJECT.json` lists them at their lines.

## 2. Modules

| Module | Models |
|---|---|
| `Ledger` | the ledger's tables and use cases; one action per use case, because each is one serializable transaction; a use case that returns an error rolls back and is no step |
| `Reconciliation` | `Ledger` plus one reconciliation whose two reads are two steps |
| `PaymentLifecycle` | the state machine of `payment/domain/lifecycle.go` |
| `Payments` | `Ledger` plus orders, workers, audit rows, outbox events, faults and time |
| `PaymentPromise` | the abstract specification of a payment order: opened, then paid, rejected or withdrawn; money moves once, as agreed, in the step that pays |
| `PaymentsRefinement` | the refinement mapping from `Payments` to `PaymentPromise` |
| `BookingCall` | one call of `ConfirmPayment` or `processClaimedPayment`, statement by statement in the retry loop, while rivals commit |
| `Calendar` | `nextStandingExecution` and the date arithmetic below it |
| `StandingOrders` | standing orders: create, update, cancel, the worker's materialisation, and payments that take an occurrence's key |
| `PaymentIntake` | `CreatePayment` for concurrent requests: key lookup, insert under the unique constraint, second lookup |
| `Checkout` | `PaymentIntake` plus merchant intents: creation, expiry, approval statement by statement, webhook |
| `EventDelivery` | outbox runners, the broker's three queues, consumers, the claims of the notification store, mails |
| `Identity` | the Identity service's requests statement by statement, Banking's customer, the two private commands between them, the seeding of Banking's administrator |
| `Cards` | accounts, cards and merchant tokens; requests whose read and write are two statements |
| `PayeeNames` | `EvaluateVoP`: normalisation, word order, edit distance, and a plain definition of the four verdicts |
| `CheckDigits` | IBANs and card numbers with their check digits, typing slips |
| `Payees` | `Cards` plus saved payees, holders' names and a payee check of two reads |
| `MCReconciliation`, `MCPayments`, `MCStandingOrders`, `MCCheckout`, `MCIdentity`, `MCPayees` | small instances |
| `PaymentsProofs`, `CheckoutProofs`, `EventDeliveryProofs`, `StandingOrdersProofs`, `IdentityProofs`, `CardsProofs`, `PayeeNamesProofs` | the theorems about the modules of those names; `PaymentsProofs` begins with those about `Ledger` and `Reconciliation` and also holds the refinement and those about `BookingCall`, `EventDeliveryProofs` deduplication, `CardsProofs` those about `Payees` and `CheckDigits` |
| `FoldTheorems` | induction over numbers and finite sets, the existence of functions that are computed step by step, and the laws of sums over sets |

Composition: `Payments` and `Reconciliation` extend `Ledger`, `Checkout` extends
`PaymentIntake`, `Payees` extends `Cards`, `PaymentsRefinement` instantiates
`PaymentPromise`. Where one component appears in another in less detail, the
text below names the module that has the detail.

**Ledger.** `accounts`, `entries` and `adminAudit` are the tables of the same
names; transaction ids are numbers given in commit order (`lastTx`); the two
audit columns are kept apart because they report on different columns.
`PostOn` is the body `depositTx`, `withdrawTx`, `Transfer` and `bookPaymentTx`
share: two entries and two cached balances. `PlanCustomerTransfer` keeps the
order of the checks in `posting.go`. Currencies are left out, every account the
code creates is in EUR. The service methods `Deposit` and `Withdraw` are called
by the bootstrap and the tests only; their HTTP handlers are not routed.

**Reconciliation** keeps what the first read fetched and compares it with the sum the
second one makes. `MismatchMeansDrift` is what the code's comment says of the
verdict, `VerdictExplainedByRace` what it does mean.

**Payments.** Time is relative: `wait` is the number of ticks until the order is
due by the database's clock, `age` the ticks since it was claimed. The claim asks
the database's `CURRENT_TIMESTAMP`, the confirmation the API server's `s.now()`,
which may be up to `Skew` ticks ahead or behind (`ahead`), another number in every
call; `wait` therefore goes down to `-Skew`, where the order is due by either. An action is one transaction:
`ConfirmPayment` holds the decision, the booking with its events and its audit
row; `CreatePayment` and `CancelPayment` leave their audit row to a second
transaction (`WriteAudit`), which may never come (`LoseAudit`). The statements
that write a row (`ConfirmPaymentOrder`, `MarkPaymentBooked`, `MarkPaymentFailed`,
`CancelPaymentOrder`) are operators of their own. A worker's cycle
is `RecoverStalePayments`, a materialisation, `ClaimDuePaymentOrders`, then
`ProcessClaimedPayment` or `ProcessingRolledBack` for each claimed order; it may
stop anywhere (`WorkerStops`). While the key of a due occurrence is taken (`jammed`),
each cycle ends in `MaterializationFails`, before it claims anything; only a worker
that finds the standing order's row locked by another one skips it (`JamSkipped`).
That is no fault and no bound ends it. `CreatePayment` reads the accounts in statements
of their own before it inserts; owners and account ids never change and a status
that changes in between leaves the same tables as one that changes afterwards,
so one step is enough here. An occurrence of a standing order is an arbitrary
order with the columns `materializeStandingOrders` gives it.

**BookingCall** looks inside one such transaction. PostgreSQL is external: a
statement that wants a row a rival changed after the snapshot gets 40001, COMMIT
may get it after any overlap, and after an error every statement of the
transaction gets 25P02. Rivals are unbounded in number.

**StandingOrders.** A date is a month counted from year 0 and a day of it. An
occurrence ends with its creation: what becomes of the payment order is the
subject of `Payments`. A payment's Idempotency-Key is any text of 8 to 128 bytes, so
the owner may use that of the next occurrence (`UseKey`); a batch with that
occurrence then fails (`Jammed`) until the order is paused or cancelled. Accounts, amounts and payees are copied and left out.

**PaymentIntake, Checkout** look at `CreatePayment` and `Approve` statement by
statement; a request may end at each of them. What `samePaymentIntent` compares
is one value, the payload, but for the transfer type, which is not compared when the
payee's account is at this bank: whether it is, `CreatePayment` finds out when it
inserts (`KindFor`). Keys of customers and of merchant intents are disjoint here; a customer
who sends "merchant:<intent>" as a key of their own is left out. `past` holds the scheduled payloads whose time has
passed: `validatePaymentInput` refuses them before the key is looked up, replays
included. `ConfirmOrder` is the transaction of `BookingCall`, whose caller may not
learn what it committed. `approved` is history: the order was confirmed by an
approval. An intent's `None` order is the NULL `payment_order_id`.

**EventDelivery** has one action per SQL statement, per exchange with the broker
and per call of the mail provider. A queue is a count of copies of each message,
so order plays no part; a message is an event and its retry count. A lease is
the number of ticks it has left, and one tick is one delay of the retry queue.
A crash or a lost connection puts an unacknowledged message back; a publish
without confirmation may or may not have stored the message; a failed statement
may or may not have been committed. Malformed messages are left out: `Enqueue`
is only called with envelopes that `Validate` accepts. RabbitMQ and the mail
provider are external.

**Identity** follows one e-mail address, because nothing but its row is shared by
requests for different addresses. `user` and `links` are tables of Identity,
`customer` is Banking's row; only the commands
`ProvisionCustomerInternal` and `SetUserSessionVersion` cross between them. A request that waits for a command
may be answered, may lose the reply, or may give up; a command whose caller gave
up stays in `late` and can be executed at any later time. User ids are the
numbers of the registrations (the code draws a UUID for each), a password hash is
known by the session version it was written under, a reset link by its number.
`stranded` is history: users whose registration could not be undone. The start of
the API with the address as its administrator's is `SeedConfiguredAdmin`: it creates
Banking's row, which a registration of the address then finds, or replaces password
and role and counts the version up, of which Identity learns nothing; `seeded`
counts these since a command of Identity last wrote the row. Expiry of
tokens and links only takes something away and is left out. `BankingAcceptsSession` is
Banking's own session check.

**Cards.** Each table is a set of rows. `Issue`, `Tokenize` and `Authorize` read in
one action and write in another (`CreatePaymentCard`, `UpsertMerchantCardToken`,
`Approve`); any other request may come in between. The foreign keys of the
migrations are guards of the statements they stop. `used` says that something
else refers to an account, so that it cannot be deleted. A customer who pays has
the right card data; encryption, fingerprints and the CVC are left out. The code
has no spending limits on cards, and so has the model.

**Payees.** A check reads the account of an IBAN, then the customer's saved payee,
then compares; the account may be opened, blocked or deleted in between, its
holder renamed and the payee saved anew. A customer means one account and types
its IBAN with one slip or none: any character replaced by any other digit or letter or
by something else, or two neighbours swapped. An IBAN `ValidateIBAN` refuses is typed again correctly. Names are known by their place in a list. With the bound `Mixed = FALSE`
a behaviour has cards or payees, not both: they share only the accounts, of which
payee checks read and never write.

**PayeeNames, CheckDigits** are algorithms. A character is a number, a string a
sequence. `Verdict` is the reference definition that `EvaluateVoP` is compared with:
it asks for the shortest number of edits between the names by their definition
and not by the code's table. `ValidateIBAN` works character by character like the
code, `GermanDemoIBANForAccount` with the whole number like the code.

Operators whose comment starts with "Mutant" are plausible bugs; each property
is broken by one of them and they are part of no specification.

## 3. Runs

| Run | Instance | Shows |
|---|---|---|
| `mismatch_means_drift` (violation) | 2 account slots, 2 customers, amounts 1 and 2, 3 transactions, 2 audit rows per column, one reconciliation at a time | finding 5 |
| `payments` | 2 slots, 2 customers, 1 order, 2 workers, 2 faults, 3 transactions and 1 audit row per column before there is an order, orders up to 2 ticks ahead, clocks 1 tick apart, fairness | cached balances, balanced postings, no overdraft, frozen accounts, kept history; one booking, consent, one report of the outcome, final states, timing; the tables implement `PaymentPromise`; due orders settle |
| `booking_call` | 3 attempts, any number of rivals | one posting, truthful answers, termination |
| `rejection_means_not_booked` (violation) | same | finding 1 |
| `standing_orders` | 1 order, 2 customers, 4 dates, 4 occurrences, 2 edits, 1 key of the owner's, fairness | occurrences follow the schedule and the calendar, limits are exact, due occurrences are created |
| `cancel_prevents_occurrences` (violation) | same, no keys of the owner's | finding 2 |
| `checkout` | 1 intent, 1 key of the customers' own, 2 customers, 2 payloads (1 scheduled), 2 transfer types, 2 orders, 2 requests | one order per key, truthful replays, one payment per intent, an intent tells what became of its payment |
| `event_delivery` | 1 event, 2 runners, 2 consumers, 3 faults, fairness | no event lost, one mail apart from faults under a claim, every committed event is processed or dead-lettered |
| `busy_retried_after_lease` (violation) | same, 1 fault | finding 3 |
| `identity` | 2 requests at a time, 2 registrations, versions up to 2, 2 links, 1 seeding, 2 failures | sessions have customers, Banking is ahead by seedings only, one link and one change per password work, no user without a customer |
| `session_drift` (violation) | 1 registration, no links, no seedings, no failures | finding 4 |
| `customer_accounts` | 2 customers, 2 merchants, 2 accounts with numbers 8 and 87, 1 card, 2 tokens, 1 saved payee, 2 requests at a time, 2 names known and 8 typed | cards keep their account, tokens their card, cancellation is final, right payee verdicts, slips are caught |

Bounds. Three transactions are enough for an opening credit, a movement and its
reversal; two customers with a slot each let every ownership rule be broken. In
`payments` the ledger's other use cases have them to themselves while there is no
order; beside an order they make `MaxWork` transactions and audit rows
(`RoomForOrders`), so that there is one left for its booking. Slots and customers
are alike and never used again, so the constraint `FirstComeFirstNamed` keeps, of
behaviours that differ only in names, the one that begins with the first names
(TLC's own symmetry is not sound with liveness). One
order and two workers with two faults contain the double-claim race (claim, stall
past the stale time, recovery, second claim, both process) followed by a rolled
back booking. Orders share only the ledger and the batch a worker claims; the
theorems cover any number of them. `StaleAfter = 0` makes a claim stale one tick
after it was made. `MaxFaults` counts crashes, rolled back bookings and batches
that outlast the stale time. Three attempts have a first, a middle and a last
one. Standing orders share nothing with each other, so one is enough; the dates
are month ends around the February of a leap year and the spring of the year
after; two edits are a pause and a resumption, and a key of the owner's may be that of
any of the dates. In `checkout` two requests contain
every race for a key and for an intent, and two orders let both customers open
one for the same intent. The constraint `KindsThatMatter` has instant transfers
without a schedule only, and intents paid outside the bank: all approvals ask for
standard transfers, which have no kind to disagree about. Events share nothing but the batch a runner leases, so
one is enough. A publish lease of one tick can end under a live runner. The real
claim lasts 24 retry delays and a message is retried three times; the model keeps
that order with a lease of three and one retry. Three faults are, for example, a
lost confirmation, a crash under a claim and a lost connection.

In `identity` every promise is about two overlapping requests. Two registrations
let a command for a user that was undone arrive at its successor, two versions
let a change overtake another, two links let the first be replaced, and two
failures let a lost reply be followed by a compensation that fails; one seeding may
come before, between or after all of that. In
`customer_accounts` one card of an owner and two tokens let a token be replaced
or given to a second merchant, and a second account lets a card be issued for
one while the other is deleted. The IBANs of the account
numbers 8 and 87 have the largest and the smallest check digits, 98 and 02;
in each place of them every other character is tried, and every swap of
neighbours, and in two card numbers every other digit and all swaps but
that of 0 and 9, which no Luhn digit notices. There is one card: that a new token
spares the other cards of its merchant is left to the theorem `TokensLast`. The typed names lie on both
sides of each border of the rules: words in another order, a repeated, missing
or additional word, three and four errors in fifteen characters, no letter at all.

Deadlock is not checked where a bound (transactions, faults, versions) or the
end of a call stops the model. Requests, merchants, customers and account slots
are symmetric in the safety runs that say so in their configuration; runs with
liveness properties use no symmetry.

Fairness. `FairPaymentsSpec` assumes that time passes, that both schedulers keep
starting cycles (they are ticker loops that survive errors), that a running
worker takes its next step, and strong fairness of claiming for each order: an
order that is due again and again is claimed in the end, because its row lock is
held for one transaction only and claims take the oldest orders first. Nothing
is assumed of customers, nor that a taken key is ever let go: `DuePaymentsSettle` and
`DueOccurrencesHappen` promise what they do only for behaviours in which batches do
not fail again and again (`jammed`, `Jammed`), since after such a failure no cycle
claims anything. `FairStandingSpec` assumes that a due order nobody pauses
is claimed, because batches take the orders due longest first. `FairDeliverySpec`
assumes that time passes and that each runner and consumer, restarted when its
process dies, goes on with its loop. Faults are finite in number: with infinitely
many nothing could be promised. `BookingSpec` assumes only that the goroutine
runs. Identity, cards, payees and checkout are safety only: a request may stop at any
statement, and nothing takes it up again, so there is no progress to promise.

## 4. Findings

1. `businessErr` survives a rolled back attempt (`internal/payment/payments.go:247`):
   a call can return a rejection for an order that its next attempt booked.
2. `UpdateStandingOrder` (`internal/payment/standing_orders.go:123`) reopens a
   cancelled or completed order: it sets ACTIVE or PAUSED whatever the present
   status, so an update sent from a page loaded before the cancellation undoes it.
3. A busy event is not retried after the other consumer's lease
   (`platform/rabbitmq/rabbitmq.go:236`): its retries are used up long before a
   lease left behind by a crash ends, and the message is dead-lettered although
   nobody sends the mail.
4. `SetUserSessionVersion` (`platform/database/admin.go:142`) stores the version
   that arrives last: a login's command that is executed after a logout's takes
   Banking's copy back, and Banking accepts the ended session again.
   `src/docs/adr/architecture/current-architecture.md:248` promises that this does not
   drift. The owner's copy is never behind, seedings apart (`OwnerIsAhead`).
5. `ReconcileAccount` (`platform/database/ledger_repository.go:366`) reads the cached
   balance and the sum of the entries in two statements outside a transaction. A
   posting that commits in between is reported as a mismatch, which the comment at
   `ledger_repository.go:388` says "means denormalized cache drifted from ledger truth".
   The cache has not drifted (`CachedBalanceIsLedgerTruth`); a mismatch is reported
   exactly if the entries posted between the reads do not cancel out
   (`VerdictExplainedByRace`, proved).

None of them moves money twice: `RetriesPostOnce` and `BookedExactlyOnce` hold.
Finding 2 does pay what the customer had cancelled.

Met on the way, without a run of their own. The first four touch on a promise:

- a payment whose Idempotency-Key is that of the owner's own next occurrence,
  "standing:<id>:<time>", makes `materializeStandingOrders` fail in every cycle from the
  day it is due, and `RunDuePayments` returns before it claims any payment of any
  customer (`payment_worker.go:23`, `:99-116`), until the standing order is paused or
  cancelled. The comment above `RunDuePayments` has it materialise due occurrences and
  book what it claims; `DueOccurrencesHappen` and `DuePaymentsSettle` except this case;
- seeding the administrator counts up Banking's copy of a session version
  (`admin.go:50`), although `src/docs/security/phase-05-auth-session.md:34` says "Role
  changes do not mutate the Banking session generation because Identity is the
  generation owner."; Banking then refuses all of that user's sessions until the next
  command of Identity writes its version over it;
- a registration whose reply and compensation are both lost cannot be repeated with
  the same e-mail address: the user is there without a customer (`stranded`). Command
  and compensation use one request context (`identityapi/handler.go:144`), so a
  cancelled request loses both; `ADR-008:12` says that the workflow "is retried safely
  by the stable subject UUID", but no route retries it;
- the letter N typed for the third 9 of the bank code, or I for the fourth, is a valid
  IBAN for every account: `ValidateIBAN` accepts letters in a German BBAN
  (`iban.go:59`), and these change the number by a multiple of 97. No account of the
  bank has such an IBAN, so what is paid to it leaves the bank (`SlipsAreCaught` has
  exactly the letters MOD-97 cannot tell from a digit as its exceptions).

The rest is promised otherwise by nobody:

- the API's clock decides that a confirmed order is due and the database's that it is
  claimed; an order may be booked as much earlier as they differ (`NeverEarly`);

- a serialization failure of the first lookup in `ConfirmPayment` is answered as
  "payment not found" (`payments.go:250`), and one inside `bookPaymentTx` is handled
  as a rejection in a transaction that is already aborted (`payments.go:296`);
- an approval that ends after `LinkMerchantIntentPayment` leaves its intent
  PROCESSING, and no other call takes it up; the order of an approval that lost its
  intent can still be confirmed through the payments API;
- a login reads the session version in a statement after the one that verified
  the password, so a change in between gives it a session of the new version;
- a tokenization whose reply is lost has already replaced the merchant's former
  token, which is accepted no more;
- a card cancelled between `Authorize` and `Approve` still pays that once;
- a payee check of a BLOCKED account answers from the saved payee, and so does one
  whose account is opened after its first read;
- two different names of two letters are always a close match; the IBAN check
  digits 00, 01 and 99 are accepted beside the ones that are ever made;
- an event stream reads audit rows by a cursor on their id and may pass over a
  row that commits late; clients poll as well.

## 5. Proofs

The first part of `PaymentsProofs` proves for every set of accounts and customers and every bound:
`LedgerTypeOK`, `DoubleEntry`, `NoOverdraft`, `TransfersStayWithOwner` and
`CachedBalanceIsLedgerTruth` as invariants and `BlockedIsFrozen` and `HistoryKept`
as action properties of `LedgerSpec`. They rest on `LedgerAssumption` only.

The inductive invariant `LedgerInv` adds `AccountsSound` and `BalancesAddUp`: the
settlement account is the one system account and active, both cached figures
agree, and entries refer to existing accounts. Without the second conjunct
`NoOverdraft` is not inductive (withdrawals look at the balance, payments at the
available balance); without the third a new account could inherit entries and
`TransfersStayWithOwner` could break when a slot gets an owner. `PostKeepsInv`
does the work once for every posting; each use case then shows what it posts.
`BalancesAddUp` says that each balance is the sum (`Total`) of the account's entries;
a posting adds two entries that were not there, since its transaction id is new, and
`TotalAdds` gives the new sums. `EntrySumIsTotal` relates this sum to the fold by
which `CalculatedBalance` adds entries up.

For the reconciliation, `RaceExplainsVerdict` proves `VerdictExplainedByRace`. The
invariant `ReadSound` remembers for a first read that what it fetched is the sum of
the entries up to the transaction id seen then: later entries have higher ids, so the
difference of the two reads is the sum of the entries that came between them.

Its second part proves `BookedExactlyOnce`, `ConsentBeforeMoney`,
`ProcessingIsClaimed`, `TerminalIsFinal`, `NeverEarly` and `ClaimsLastUntilStale`
for every number of orders, workers, faults and ticks, and that `NoOverdraft`,
`CachedBalanceIsLedgerTruth` and `BlockedIsFrozen` survive payments (`LedgerAssumption` and `PaymentsAssumption`).
`PaymentsInv` carries `LedgerInv` along, because a booking is one more sound
posting. It adds two facts for each order. `MoneySound`: the entries of an order
are the booked pair if it is BOOKED and none otherwise; a new posting of an order
that is not BOOKED therefore adds the first pair. `RowSound`: a row has its ledger
transaction exactly if BOOKED, a PROCESSING row is due and has an age, consent
was given by the time a row is past its confirmation, only scheduled rows
wait. Without the last, the confirmation of an immediate payment could book a row that
still waits, and `NeverEarly` would not be inductive. A scheduled row is booked at its
confirmation only if it is due by the API's clock, which is ahead by `Skew` at most. Each action changes at most one row, or moves rows in a way a
lemma about that one row describes (`ClaimedRow`, `OlderRow`, `BookedRow`).

`OutcomeReportedOnce` needs more than the rows: `ReportInv` counts, for each order,
the audit rows that are written together with those a second transaction still
owes, and the events with their recipients. That a recipient can be named rests
on account ids never being used again (`OwnersStay`). `TypesInv` adds that every
existing customer account and every order has a customer as its owner and that
workers hold orders only; it gives `PaymentsTypeOK`.

The refinement `PaymentsKeepPromise` shows that `PaymentsSpec` implements
`PaymentPromise` under the mapping of `PaymentsRefinement`. The mapping reads the
money an order moved off its entries (`MovesOfLegs`); a booking takes a new
transaction id (`NewTxIsFresh`), so it adds to one order's entries and to no
other's. There is one lemma per action: creation is the abstract opening,
booking, failing and cancelling are the three abstract ends, and every claim,
recovery, crash, tick, audit row and other use of the ledger is a stutter.

For `BookingCall`, `PaymentsProofs` proves `RetriesPostOnce` and `AnswerTellsCommit`
for any number of attempts and rivals. `BookingInv` adds that the row an attempt has locked
stays as it was read (`LockHolds`), that an attempt that is about to commit has
written the outcome it will answer with (`OutcomeWritten`), and that a call that still
tries has committed nothing (`NothingCommittedYet`).

`EventDeliveryProofs` proves `DeliveryTypeOK`, `NoEventLost` and
`ProcessedMeansMailed` for every number of events, runners, consumers, retries,
faults and lease lengths (`DeliveryAssumption` only). That a published event is
kept somewhere is not inductive: `DeliveryInv` adds that a runner about to mark
a row has a confirmed copy behind it, that a consumer about to acknowledge has
seen the event processed, and that only committed events are in the queues. The
lemmas `CopyAddedKeeps`, `ConsumerStepKeeps` and `LettingGoKeeps` carry "kept
somewhere" over the three kinds of step; each action then shows which kind it is.
`MailInv` adds, for `MailsBounded`, an account per event: the mails sent, plus the
consumers that still owe one, plus one if the event can be claimed, are at most
one plus the faults that hit consumers under a claim. The sum of consumers needs
`Consumers` to be finite, as it is.

`CheckoutProofs` proves `CheckoutTypeOK`, `AnswersAgree`, `ApprovalPaysOnce`,
`IntentTellsPayment` and `IntentSettlesOnce` for any number of customers, keys,
intents and requests (`IntakeAssumption` and `CheckoutAssumption`).
`SetMerchantIntentStatus` has no guard, so nothing in the statement itself keeps
a settled intent settled. `CheckoutInv` says why it stays so: an answered request
names a row of its own key; an approval past the link is the only one that holds
its intent (`HeldByOne`) and finds it PROCESSING until it has recorded the outcome;
and every approved order is the one its intent is linked to.

`StandingOrdersProofs` proves that `nextStandingExecution` yields a day of the
calendar and a later one than it was given (`NextExecutionIsLater`), and with it
`LimitsKept`, that the key of the occurrence that is due is taken by no other
occurrence (`OnlyOwnersTakeKeys`: only a payment of the owner's own stops an order), and
that dates only rise. `StandingInv` says of
each order that its occurrences are in order and before its next execution and,
while nobody edited it, within its limits and ACTIVE or PAUSED exactly while
there is room left. It rests on `StandingOrdersAssumption`.

`ScheduleInv` adds the dates themselves: the occurrences of an order are the first
dates of its schedule, `nextStandingExecution` applied again and again to the start, and
the next execution is the one after them (`ScheduleSound`). From it follow
`OccurrencesFollowSchedule`; `NoPeriodSkipped`, where for months the invariant counts
periods from the first one (`PeriodSound`) and for weeks each step is seven days
whatever months it crosses (`OneMoreWeek`); and `DayIsShortestMonthSoFar`, where the
day of the next execution is the least of the start's and of the lengths of the months
passed so far (`DaySound`).

`IdentityProofs` proves `SessionHasCustomer`, `OwnerIsAhead`, `OnlyLastLinkWorks`,
`OneChangePerPassword` and `NoUserWithoutCustomer` for any number of requests,
registrations, versions, links and failures. None is inductive alone. `IInv`
follows a version through all the places that hold a copy of it (row, customer,
sessions, requests, late commands) and shows that each is at most the owner's, the
customer's after taking off what seedings added, as long as the ids agree (`RowsOK`, `CallsOK`, `TokensOK`, `LatesOK`); ids are
never drawn twice, so what is left of an undone user concerns no later one; and a
hash is known by a version no newer than its row, so a change that verified
one hash finds another after the first change.

`CardsProofs` proves `CardAccountStands`, `OneTokenAccepted`, `TokensOutliveOthers`
and `CancellationIsFinal` for any number of accounts, cards, tokens, merchants and
overlapping requests. `IInv` adds that row ids are fresh and unique, that a card
about to be created goes to the account's owner (the request read the account
earlier and the account may be gone: the foreign key stops that insert), and that
a merchant has one token row per card. The two action properties follow from
`CardsOnlyWane`, `PaidWithActiveCard` and `TokensAreSpared`. `PayeesLeaveCardsAlone`
says that `PayeesSpec` implements the specification of cards, so all of this
holds of it too.

`SlipsCaught` proves `SlipsAreCaught` for all account numbers and all digits a
card number is drawn from (`DrawnDigits`), not only those of the run. The state has
an easy part in it, `MeantOnly`; the check digits are the work. `Mod97Computed` and
`ModuloComputed` give the two computations the same form, remainders character by
character. `MadeIBAN` computes what the check digits do to the remainder that bank
code and account number leave: it becomes 1. `AfterInjective` says that one
character behind two different remainders leaves two different remainders, because
10 and 100 have inverses modulo 97, so a difference never goes away
(`DifferenceStays`); it remains that a wrong character makes one
(`WrongCharacterShows`) and that two characters of a kind in the wrong order do
(`SwapShows`). A digit in place of a country letter, or the other way round in the first
four places, the format refuses. A letter for a later digit multiplies what is in front of it by 100
instead of 10: `LetterForDigit` says that it passes exactly if it is one of `Unnoticed`,
and `MistypedIsRefused`, `SwappedIsRefused` and `UnnoticedPasses` together give
`Typed = MayPass`. An unnoticed letter is never in an IBAN of the bank, whose characters
behind the country are digits. MOD-97 takes the last check digit last and the first digit of the bank
code first; for these two `SwapAroundShows` follows the factor through all places in
between and uses that the bank code begins with a 9: after each place the two
remainders are `Apart` by a known multiple of the difference `d` of the two digits (a
digit takes it times 10, a letter times 100, which is 3), and at the end by 249 times
`d`, which 97 does not divide. For card numbers
`LuhnDifference` says that two numbers that differ at one place have sums that
differ by what that place counts, and `LuhnSwapped` that only 0 and 9 count the
same when swapped.

`VerdictsAreRight` proves `VerdictIsRight` for all names that customers type and the
bank knows (`NamesAreNames`: a name consists of blanks and of characters that have a
small letter). In the state there is little to show, `ChecksEvaluated`: an answer has
the verdict of `EvaluateVoP`, and a name is told only with a close match. The rest is
`VerdictsAgree` of `PayeeNamesProofs`: `EvaluateVoP` gives the verdict of the plain
definitions for any two names. It has three parts.

- `LevenshteinCountsErrors`: the last entry of the distance table is at most k exactly
  if k errors lead from one string to the other. That the table is not too large
  comes from what one error does: the two rows in which the strings still differ may
  be anything, but neighbours in a row differ by one at most (`TableSmooth`), so two
  strings with one error between them have rows that are near each other
  (`LeftOutNear`, `ReplacedNear`) and stay near behind it (`RowsStayNear`). A way of k
  errors therefore changes the distance by k at most (`WayBounds`). That it is not too
  small: every entry is a way of that many errors between two beginnings
  (`TableReached`). `ErrorsApart` lets both strings go half of the way, with letters of
  the two only; `ErrorsAreWay` shows that this is a way of k errors, since ways can be
  cut and reversed.
- `TokensRearranged`: lists with the same count of every token are rearrangements of
  each other: the places of each token in one list are matched with its places in the
  other.
- `NormalizedIs`: the normalized name is the words with one blank between two of them,
  and its fields are the words. `Reading` says what has been read after n characters:
  the runs of letters so far, in order (`Enumerates`), and a text that spells them
  (`Spelled`), with a blank behind it if the last run is over.

Sums, remainders and dates are recursive functions. The provers cannot use the
library's induction theorems, which take a formula as parameter; `FoldTheorems`
therefore states induction about sets: a set of numbers that has 0 and with each
number the next contains all of them (`NumberInduction`), proved from the library's
finite intervals and the well-foundedness of strict inclusion (`MinimalSubset`).
`RecurrenceExists` then gives the functions, and each proof names the set of numbers
for which its claim holds.

Every safety property of the runs is proved. Only model-checked is liveness:
`DuePaymentsSettle`, `DueOccurrencesHappen`, `EventsSettle`, `CallReturns` (fairness
and ENABLED are out of the prover's reach).

## 6. What is left

Row locks, to show which pairs of transactions PostgreSQL may abort with 40P01 and
that their callers are told; event streams, should they ever promise more than a
wake-up.

## 7. Not modelled

- Event streams (`payment/events.go`): a best-effort wake-up inside one process
  beside the client's polling; it promises nothing a property could be about.
- Gateway, SMTP and web mail, the notification API: stateless I/O. Frontend: no
  money state. Of the bootstrap the demo data, written once through the services' own
  operations; the seeding of the administrator is in `Identity`.
- Roles and the overviews of the administration: one transaction read by nothing
  else here, and read-only queries.
- Formatting and parsing of requests, rate limits, headers, telemetry, password
  hashing, encodings of tokens, encryption of card data: no state a property here
  could be about.
- PostgreSQL's serializable isolation is assumed: committed transactions behave
  as if they ran one after another. `BookingCall` looks at how one reaches its
  commit.
