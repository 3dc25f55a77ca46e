------------------------------- MODULE Ledger -------------------------------
(***************************************************************************)
(* The double-entry ledger of the Banking service: the accounts with their *)
(* cached balances, the immutable debit/credit entries, and the use cases  *)
(* that post to them.  Every use case runs in one SERIALIZABLE transaction *)
(* (Store.ExecTx), so each is one action; a use case that returns an error *)
(* rolls back and is a step that does not happen.  All accounts are EUR    *)
(* accounts: no code path creates another currency.                        *)
(***************************************************************************)
EXTENDS Integers, Sequences, FiniteSetsExt

CONSTANTS
  Accounts,        \* account ids, the settlement account included
  Settlement,      \* the one system account of type SETTLEMENT
  Customers,       \* user ids
  NoOwner,         \* owner_id IS NULL
  Orders,          \* payment order ids, referenced by entries
  NoOrder,         \* payment_order_id IS NULL
  Amounts,         \* amounts that pass ParseEURAmount, in cents
  OpeningBalance,  \* the signup credit
  MaxTx,           \* bound: ledger transactions
  MaxAudit         \* bound: admin audit rows per account and column

ASSUME LedgerAssumption ==
  /\ Settlement \in Accounts
  /\ NoOwner \notin Customers
  /\ NoOrder \notin Orders
  /\ Amounts \subseteq Nat \ {0}
  /\ OpeningBalance \in Nat \ {0}
  /\ MaxTx \in Nat
  /\ MaxAudit \in Nat

VARIABLES
  accounts,        \* the accounts table
  entries,         \* the entries table, append-only
  lastTx,          \* transaction ids are fresh; they are numbered in commit order
  adminAudit       \* admin_audit_events, by target account

ledgerVars == <<accounts, entries, lastTx, adminAudit>>

AccountStatus == {"ABSENT", "ACTIVE", "BLOCKED", "DELETED"}

Account == [owner: Customers \union {NoOwner}, system: BOOLEAN,
            status: AccountStatus, balance: Int, available: Int]

Entry == [tx: Nat, account: Accounts, debit: Nat, credit: Nat,
          order: Orders \union {NoOrder}]

\* The audit rows that target one account, by the column they report on.
AuditTrail == [status: Seq([previous: AccountStatus, next: AccountStatus]),
               balance: Seq([previous: Int, next: Int])]

-----------------------------------------------------------------------------
(* Reading the tables *)

Exists(a) == accounts[a].status \in {"ACTIVE", "BLOCKED"}

EntriesOf(a) == {e \in entries : e.account = a}

\* GetAccountBalance: SUM(credit) - SUM(debit) over the account's entries.
CalculatedBalance(a) ==
  MapThenSumSet(LAMBDA e : e.credit - e.debit, EntriesOf(a))

CustomerCanOperate(customer, a) ==
  accounts[a].owner = customer /\ customer # NoOwner /\ ~accounts[a].system

-----------------------------------------------------------------------------
(* Posting *)

UpdateAccountBalance(table, a, n) ==
  LET row == table[a] IN
  [table EXCEPT ![a] = [row EXCEPT !.balance = row.balance + n,
                                   !.available = row.available + n]]

\* Mutant: the cached balance of the credited account is forgotten.
PostWithoutCredit(table, debited, credited, amount, order) ==
  /\ lastTx < MaxTx
  /\ lastTx' = lastTx + 1
  /\ entries' = entries \union
       {[tx |-> lastTx', account |-> debited, debit |-> amount, credit |-> 0,
         order |-> order],
        [tx |-> lastTx', account |-> credited, debit |-> 0, credit |-> amount,
         order |-> order]}
  /\ accounts' = UpdateAccountBalance(table, debited, -amount)

\* Mutant: the posting loses its credit leg.
PostHalf(table, debited, credited, amount, order) ==
  /\ lastTx < MaxTx
  /\ lastTx' = lastTx + 1
  /\ entries' = entries \union
       {[tx |-> lastTx', account |-> debited, debit |-> amount, credit |-> 0,
         order |-> order]}
  /\ accounts' = UpdateAccountBalance(
                   UpdateAccountBalance(table, debited, -amount),
                   credited, amount)

\* One transaction id, a debit entry, an opposite credit entry, and the two
\* cached balances: the body shared by depositTx, withdrawTx, Transfer and
\* bookPaymentTx.
PostOn(table, debited, credited, amount, order) ==
  /\ lastTx < MaxTx
  /\ lastTx' = lastTx + 1
  /\ entries' = entries \union
       {[tx |-> lastTx', account |-> debited, debit |-> amount, credit |-> 0,
         order |-> order],
        [tx |-> lastTx', account |-> credited, debit |-> 0, credit |-> amount,
         order |-> order]}
  /\ accounts' = UpdateAccountBalance(
                   UpdateAccountBalance(table, debited, -amount),
                   credited, amount)

Post(debited, credited, amount, order) ==
  PostOn(accounts, debited, credited, amount, order)

\* The rules of a customer debit, in the order the code applies them.
\* "owned" (RequireOwnership) and "system" (AllowSystem) are the TransferPolicy.
PlanCustomerTransfer(customer, source, destination, available, amount, owned, system) ==
  IF amount <= 0 THEN "INVALID_AMOUNT"
  ELSE IF source = destination THEN "SAME_ACCOUNT"
  ELSE IF ~CustomerCanOperate(customer, source) THEN "UNAUTHORIZED"
  ELSE IF accounts[destination].system /\ ~system THEN "UNAUTHORIZED"
  ELSE IF owned /\ ~CustomerCanOperate(customer, destination)
       THEN "UNAUTHORIZED"
  ELSE IF {accounts[source].status, accounts[destination].status} # {"ACTIVE"}
       THEN "BLOCKED"
  ELSE IF available < amount THEN "INSUFFICIENT_FUNDS"
  ELSE "OK"

\* Mutant: the status of the account is not looked at.
CanAdjustAnyStatus(a) == a # Settlement /\ Exists(a)

CanAdjust(a) == a # Settlement /\ accounts[a].status = "ACTIVE"

DepositTx(a, amount) == CanAdjust(a) /\ Post(Settlement, a, amount, NoOrder)

\* Mutant: the funds are not checked.
WithdrawUnchecked(a, amount) ==
  CanAdjust(a) /\ Post(a, Settlement, amount, NoOrder)

WithdrawTx(a, amount) ==
  /\ CanAdjust(a)
  /\ accounts[a].balance >= amount
  /\ Post(a, Settlement, amount, NoOrder)

-----------------------------------------------------------------------------
(* Use cases *)

\* A customer account row as CreateAccount inserts it.
NewAccount(customer) ==
  [owner |-> customer, system |-> FALSE, status |-> "ACTIVE",
   balance |-> 0, available |-> 0]

\* Registration: user, default account and signup credit in one transaction.
\* A customer is registered when an account row carries (or carried) its id.
CreateFundedCustomer(customer, a) ==
  /\ accounts[a].status = "ABSENT"
  /\ \A b \in Accounts : accounts[b].owner # customer
  /\ PostOn([accounts EXCEPT ![a] = NewAccount(customer)],
            Settlement, a, OpeningBalance, NoOrder)
  /\ UNCHANGED adminAudit

\* A registered customer opens a further, empty account.
CreateAccount(customer, a) ==
  /\ accounts[a].status = "ABSENT"
  /\ \E b \in Accounts : accounts[b].owner = customer
  /\ accounts' = [accounts EXCEPT ![a] = NewAccount(customer)]
  /\ UNCHANGED <<entries, lastTx, adminAudit>>

\* Mutant: an emptied account is deleted with its history.
DeleteEmptiedAccount(customer, a) ==
  /\ Exists(a)
  /\ CustomerCanOperate(customer, a)
  /\ accounts[a].balance = 0
  /\ accounts' = [accounts EXCEPT ![a].status = "DELETED"]
  /\ UNCHANGED <<entries, lastTx, adminAudit>>

\* The handler's own checks repeat the WHERE clause of this DELETE; foreign keys
\* keep an account that audit rows name.  The row's id is never used again and
\* its owner is kept only to know who registered.
DeleteAccount(customer, a) ==
  /\ Exists(a)
  /\ CustomerCanOperate(customer, a)
  /\ accounts[a].balance = 0
  /\ EntriesOf(a) = {}
  /\ adminAudit[a] = [status |-> << >>, balance |-> << >>]
  /\ accounts' = [accounts EXCEPT ![a].status = "DELETED"]
  /\ UNCHANGED <<entries, lastTx, adminAudit>>

\* The service's own deposit and withdrawal, which the demo bootstrap calls; the
\* HTTP handlers of that name are not routed.
Deposit(a, amount) == DepositTx(a, amount) /\ UNCHANGED adminAudit

Withdraw(a, amount) == WithdrawTx(a, amount) /\ UNCHANGED adminAudit

Transfer(customer, source, destination, amount) ==
  /\ source # destination
  /\ Exists(source) /\ Exists(destination)
  /\ PlanCustomerTransfer(customer, source, destination,
                          accounts[source].balance, amount, TRUE, FALSE) = "OK"
  /\ Post(source, destination, amount, NoOrder)
  /\ UNCHANGED adminAudit

RecordStatusAudit(a, previous, next) ==
  /\ Len(adminAudit[a].status) < MaxAudit
  /\ adminAudit' = [adminAudit EXCEPT
       ![a].status = Append(@, [previous |-> previous, next |-> next])]

RecordBalanceAudit(a, previous, next) ==
  /\ Len(adminAudit[a].balance) < MaxAudit
  /\ adminAudit' = [adminAudit EXCEPT
       ![a].balance = Append(@, [previous |-> previous, next |-> next])]

\* The ledger mutation and its audit row, in one transaction.
AdjustBalanceAsAdmin(a, operation, amount) ==
  /\ \/ operation = "DEPOSIT" /\ DepositTx(a, amount)
     \/ operation = "WITHDRAW" /\ WithdrawTx(a, amount)
  /\ RecordBalanceAudit(a, accounts[a].balance, accounts'[a].balance)

UpdateAdminAccountStatus(a, status) ==
  /\ Exists(a) /\ ~accounts[a].system
  /\ status \in {"ACTIVE", "BLOCKED"}
  /\ accounts' = [accounts EXCEPT ![a].status = status]
  /\ RecordStatusAudit(a, accounts[a].status, status)
  /\ UNCHANGED <<entries, lastTx>>

-----------------------------------------------------------------------------

\* The migrated database: the settlement account and nothing else.
LedgerInit ==
  /\ accounts = [a \in Accounts |->
       [owner |-> NoOwner, system |-> a = Settlement,
        status |-> IF a = Settlement THEN "ACTIVE" ELSE "ABSENT",
        balance |-> 0, available |-> 0]]
  /\ entries = {}
  /\ lastTx = 0
  /\ adminAudit = [a \in Accounts |-> [status |-> << >>, balance |-> << >>]]

CustomerStep(customer) ==
  \E a \in Accounts :
    \/ CreateFundedCustomer(customer, a)
    \/ CreateAccount(customer, a)
    \/ DeleteAccount(customer, a)
    \/ \E b \in Accounts, n \in Amounts : Transfer(customer, a, b, n)

OperatorStep ==
  \E a \in Accounts :
    \/ \E n \in Amounts : Deposit(a, n) \/ Withdraw(a, n)
    \/ \E n \in Amounts, op \in {"DEPOSIT", "WITHDRAW"} :
         AdjustBalanceAsAdmin(a, op, n)
    \/ \E status \in {"ACTIVE", "BLOCKED"} : UpdateAdminAccountStatus(a, status)

LedgerNext == OperatorStep \/ \E customer \in Customers : CustomerStep(customer)

LedgerSpec == LedgerInit /\ [][LedgerNext]_ledgerVars

-----------------------------------------------------------------------------
(* Properties *)

\* Type correctness of the four tables.
LedgerTypeOK ==
  /\ accounts \in [Accounts -> Account]
  /\ entries \subseteq Entry
  /\ lastTx \in Nat
  /\ adminAudit \in [Accounts -> AuditTrail]

\* What the account rows keep to and the proofs build on: the settlement
\* account is the only system account and always active, both cached figures of
\* an account agree, and entries only refer to accounts that exist, so that the
\* parties of a posting can be told for ever.
AccountsSound ==
  /\ accounts[Settlement].status = "ACTIVE"
  /\ \A a \in Accounts :
       /\ accounts[a].system <=> a = Settlement
       /\ accounts[a].available = accounts[a].balance
  /\ \A e \in entries : Exists(e.account)

\* The cached balance of every account is the sum of its entries, and the
\* available balance never drifts from it: what ReconcileAccount checks.
CachedBalanceIsLedgerTruth ==
  \A a \in Accounts :
    accounts[a].balance = CalculatedBalance(a)
      /\ accounts[a].available = accounts[a].balance

\* Two entries form a balanced posting: one debit leg, one credit leg, equal
\* amounts, different accounts (Posting.Balanced).
Balanced(d, c) ==
  /\ d.debit > 0 /\ d.credit = 0
  /\ c.debit = 0 /\ c.credit = d.debit
  /\ d.account # c.account
  /\ d.order = c.order

\* Every transaction id that was ever used names exactly one balanced pair of
\* entries: no half of a posting is ever committed, and ids are not shared.
DoubleEntry ==
  /\ \A e \in entries : e.tx \in 1..lastTx
  /\ \A t \in 1..lastTx :
       \E d, c \in entries : /\ Balanced(d, c)
                             /\ {e \in entries : e.tx = t} = {d, c}

\* No use case overdraws a customer account, whichever of balance and
\* available balance it consults.
NoOverdraft ==
  \A a \in Accounts \ {Settlement} :
    accounts[a].balance >= 0 /\ accounts[a].available >= 0

\* Money moves between two customer accounts outside a payment order only
\* when one customer owns both: the legacy transfer endpoint cannot bypass
\* payee verification and confirmation.
TransfersStayWithOwner ==
  \A d, c \in entries :
    /\ d.tx = c.tx
    /\ d.order = NoOrder
    /\ Settlement \notin {d.account, c.account}
    => accounts[d.account].owner = accounts[c.account].owner

\* A blocked (or deleted) customer account is frozen: no step posts to it.
BlockedIsFrozen ==
  [][\A a \in Accounts :
       accounts[a].status \in {"BLOCKED", "DELETED"} =>
         /\ accounts'[a].balance = accounts[a].balance
         /\ EntriesOf(a)' = EntriesOf(a)]_ledgerVars

\* History is append-only: entries are never changed or removed, and an
\* account that has entries can never be deleted.
HistoryKept ==
  [][/\ entries \subseteq entries'
     /\ \A e \in entries : accounts'[e.account].status # "DELETED"]_ledgerVars
=============================================================================
