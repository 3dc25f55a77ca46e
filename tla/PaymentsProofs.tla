--------------------------- MODULE PaymentsProofs ---------------------------
(***************************************************************************)
(* Safety of the ledger, of its reconciliation and of payment orders, for    *)
(* every set of accounts, customers, orders and workers and every bound.    *)
(*                                                                          *)
(* The ledger: LedgerInv is inductive, and every account row has the balance *)
(* its entries give.                                                        *)
(*                                                                          *)
(* Payment orders: money moves once and with consent, final states are      *)
(* final, no order is early, every outcome is reported once, all is well    *)
(* typed, and the whole implements PaymentPromise.  What payment orders do   *)
(* to the ledger is a sound posting of the ledger, or nothing.  The last     *)
(* part is about one call that books an order, statement by statement, for  *)
(* any number of attempts and of rivals.                                    *)
(***************************************************************************)
EXTENDS PaymentsRefinement, Reconciliation, FoldTheorems, BookingCall

-----------------------------------------------------------------------------
(* The ledger, and its reconciliation.                                      *)

\* What each entry adds to the balance of its account.
Change == [e \in Entry |-> e.credit - e.debit]

\* Every account row has the balance its entries give, and there are only
\* finitely many of them to add up.
BalancesAddUp ==
  /\ IsFiniteSet(entries)
  /\ \A a \in Accounts : accounts[a].balance = Total(Change, EntriesOf(a))

\* The inductive invariant: NoOverdraft needs the two cached figures to agree,
\* DoubleEntry needs transaction ids to be fresh (it says so itself), and
\* TransfersStayWithOwner needs accounts with entries to keep their owner.
LedgerInv ==
  /\ LedgerTypeOK
  /\ AccountsSound
  /\ NoOverdraft
  /\ DoubleEntry
  /\ TransfersStayWithOwner
  /\ BalancesAddUp

USE DEF AccountStatus

-----------------------------------------------------------------------------
(* Lemmas about the operators *)

\* The same of one account row.
LEMMA RowAfterUpdate ==
  ASSUME NEW row \in Account, NEW n \in Int,
         NEW r, r = [row EXCEPT !.balance = row.balance + n,
                             !.available = row.available + n]
  PROVE  /\ r \in Account
         /\ r.owner = row.owner
         /\ r.system = row.system
         /\ r.status = row.status
         /\ r.balance = row.balance + n
         /\ r.available = row.available + n
<1>1. r = [owner |-> row.owner, system |-> row.system, status |-> row.status,
           balance |-> row.balance + n, available |-> row.available + n]
  BY DEF Account
<1>2. /\ row.owner \in Customers \union {NoOwner}
      /\ row.system \in BOOLEAN
      /\ row.status \in AccountStatus
      /\ row.balance + n \in Int
      /\ row.available + n \in Int
  BY DEF Account
<1> QED BY <1>1, <1>2 DEF Account

\* An update changes the two cached figures of one account.
LEMMA BalanceAfterUpdate ==
  ASSUME NEW table \in [Accounts -> Account], NEW a \in Accounts, NEW n \in Int,
         NEW t, t = UpdateAccountBalance(table, a, n)
  PROVE  /\ t \in [Accounts -> Account]
         /\ \A b \in Accounts \ {a} : t[b] = table[b]
         /\ t[a].owner = table[a].owner
         /\ t[a].system = table[a].system
         /\ t[a].status = table[a].status
         /\ t[a].balance = table[a].balance + n
         /\ t[a].available = table[a].available + n
<1> DEFINE r == [table[a] EXCEPT !.balance = table[a].balance + n,
                                !.available = table[a].available + n]
<1>1. t = [table EXCEPT ![a] = r]
  BY DEF UpdateAccountBalance
<1>2. table[a] \in Account
  OBVIOUS
<1>3. /\ r \in Account
      /\ r.owner = table[a].owner
      /\ r.system = table[a].system
      /\ r.status = table[a].status
      /\ r.balance = table[a].balance + n
      /\ r.available = table[a].available + n
  BY <1>2, RowAfterUpdate
<1> HIDE DEF r
<1> QED BY <1>1, <1>3

\* A posting moves the amount from one account to the other in both cached
\* figures and leaves every other field and account alone.
LEMMA BalancesAfterPost ==
  ASSUME NEW table \in [Accounts -> Account],
         NEW d \in Accounts, NEW c \in Accounts, d # c, NEW n \in Nat,
         NEW t, t = UpdateAccountBalance(UpdateAccountBalance(table, d, -n), c, n)
  PROVE  /\ t \in [Accounts -> Account]
         /\ \A a \in Accounts : /\ t[a].owner = table[a].owner
                                /\ t[a].system = table[a].system
                                /\ t[a].status = table[a].status
         /\ t[d].balance = table[d].balance - n
         /\ t[d].available = table[d].available - n
         /\ t[c].balance = table[c].balance + n
         /\ t[c].available = table[c].available + n
         /\ \A a \in Accounts \ {d, c} : t[a] = table[a]
<1> DEFINE s == UpdateAccountBalance(table, d, -n)
<1>1. /\ s \in [Accounts -> Account]
      /\ \A a \in Accounts \ {d} : s[a] = table[a]
      /\ s[d].owner = table[d].owner
      /\ s[d].system = table[d].system
      /\ s[d].status = table[d].status
      /\ s[d].balance = table[d].balance + (-n)
      /\ s[d].available = table[d].available + (-n)
  BY BalanceAfterUpdate
<1>2. t = UpdateAccountBalance(s, c, n)
  OBVIOUS
<1> HIDE DEF s
<1>3. /\ t \in [Accounts -> Account]
      /\ \A a \in Accounts \ {c} : t[a] = s[a]
      /\ t[c].owner = s[c].owner
      /\ t[c].system = s[c].system
      /\ t[c].status = s[c].status
      /\ t[c].balance = s[c].balance + n
      /\ t[c].available = s[c].available + n
  BY <1>1, <1>2, BalanceAfterUpdate
<1>4. table[d].balance \in Int /\ table[d].available \in Int
  BY DEF Account
<1> QED BY <1>1, <1>3, <1>4

\* What the verdict OK guarantees about the two parties of a debit.
LEMMA PlannedTransfer ==
  ASSUME NEW customer, NEW source \in Accounts, NEW destination \in Accounts,
         NEW available, NEW amount,
         NEW requireOwnership \in BOOLEAN, NEW allowSystem \in BOOLEAN,
         PlanCustomerTransfer(customer, source, destination, available, amount,
                              requireOwnership, allowSystem) = "OK"
  PROVE  /\ ~(amount <= 0) /\ source # destination
         /\ CustomerCanOperate(customer, source)
         /\ accounts[destination].system => allowSystem
         /\ requireOwnership => CustomerCanOperate(customer, destination)
         /\ accounts[source].status = "ACTIVE"
         /\ accounts[destination].status = "ACTIVE"
         /\ ~(available < amount)
BY DEF PlanCustomerTransfer

-----------------------------------------------------------------------------
(* Sums of entries *)

\* The sum of the source is Total, whatever order the entries are taken in.
LEMMA EntrySumIsTotal ==
  ASSUME NEW S \in SUBSET Entry, IsFiniteSet(S)
  PROVE  MapThenSumSet(LAMBDA e : e.credit - e.debit, S) = Total(Change, S)
<1> DEFINE First(V) == CHOOSE x \in V : TRUE
           Adds(sums) ==
             sums = [V \in SUBSET S |->
                       IF V = {} THEN 0
                       ELSE (First(V).credit - First(V).debit) + sums[V \ {First(V)}]]
           chosen == CHOOSE sums : Adds(sums)
<1>1. MapThenSumSet(LAMBDA e : e.credit - e.debit, S) = chosen[S]
  BY DEF MapThenSumSet, MapThenFoldSet
<1>2. ASSUME NEW sums
      PROVE  Adds(sums) <=> SumsOver(Change, S, sums)
  <2>1. \A V \in SUBSET S :
          V # {} => Change[Picked(V)] = First(V).credit - First(V).debit
    BY PickedIsMember DEF Change, Picked
  <2>2. [V \in SUBSET S |->
           IF V = {} THEN 0
           ELSE (First(V).credit - First(V).debit) + sums[V \ {First(V)}]]
        = [V \in SUBSET S |->
             IF V = {} THEN 0 ELSE Change[Picked(V)] + sums[V \ {Picked(V)}]]
    BY <2>1 DEF Picked
  <2> QED BY <2>2 DEF SumsOver
<1> HIDE DEF Adds
<1>3. \A e \in S : Change[e] \in Int
  BY DEF Change, Entry
<1>4. PICK sums : Sums(Change, S, sums)
  BY <1>3, SumsExist
<1>5. SumsOver(Change, S, sums)
  BY <1>4 DEF Sums, SumsOver
<1>6. Adds(chosen)
  BY <1>2, <1>5
<1> HIDE DEF chosen
<1>7. SumsOver(Change, S, chosen)
  BY <1>2, <1>6
<1>8. chosen[S] = Total(Change, S)
  BY <1>3, <1>7, SumsOverIsTotal
<1> QED BY <1>1, <1>8

\* Accounts without entries have nothing to add up.
LEMMA NoEntriesNoBalance ==
  ASSUME LedgerInv, NEW a \in Accounts, ~Exists(a)
  PROVE  EntriesOf(a) = {} /\ accounts[a].balance = 0
<1>1. EntriesOf(a) = {}
  BY DEF LedgerInv, AccountsSound, EntriesOf
<1> QED BY <1>1, TotalOfNothing DEF LedgerInv, BalancesAddUp

-----------------------------------------------------------------------------
(* What a posting preserves *)

\* A table a posting may start from: the accounts table itself, or the table
\* with a new account in it.
SoundTable(table) ==
  /\ table \in [Accounts -> Account]
  /\ table[Settlement].status = "ACTIVE"
  /\ \A a \in Accounts :
       /\ table[a].system <=> a = Settlement
       /\ table[a].available = table[a].balance
       /\ a # Settlement => table[a].balance >= 0
       /\ table[a].balance = accounts[a].balance
       /\ Exists(a) => /\ table[a].owner = accounts[a].owner
                       /\ table[a].status = accounts[a].status

\* The parties of a posting that may be made on a table.
SoundPosting(table, d, c, n, o) ==
  /\ d # c
  /\ table[d].status = "ACTIVE" /\ table[c].status = "ACTIVE"
  /\ d = Settlement \/ table[d].balance >= n
  /\ o = NoOrder /\ Settlement \notin {d, c} => table[d].owner = table[c].owner

\* The accounts after a posting.
LEMMA AccountsAfterPost ==
  ASSUME LedgerAssumption, NEW table, SoundTable(table),
         NEW d \in Accounts, NEW c \in Accounts, NEW n \in Nat \ {0},
         NEW o \in Orders \union {NoOrder},
         SoundPosting(table, d, c, n, o), PostOn(table, d, c, n, o)
  PROVE  /\ accounts' \in [Accounts -> Account]
         /\ \A a \in Accounts : /\ accounts'[a].owner = table[a].owner
                                /\ accounts'[a].system = table[a].system
                                /\ accounts'[a].status = table[a].status
                                /\ accounts'[a].available = accounts'[a].balance
         /\ \A a \in Accounts \ {Settlement} : accounts'[a].balance >= 0
         /\ \A a \in Accounts \ {d, c} : accounts'[a] = table[a]
<1>1. /\ table \in [Accounts -> Account] /\ d # c
      /\ accounts' = UpdateAccountBalance(UpdateAccountBalance(table, d, -n), c, n)
  BY DEF SoundTable, SoundPosting, PostOn
<1>2. /\ accounts' \in [Accounts -> Account]
      /\ \A a \in Accounts : /\ accounts'[a].owner = table[a].owner
                             /\ accounts'[a].system = table[a].system
                             /\ accounts'[a].status = table[a].status
      /\ accounts'[d].balance = table[d].balance - n
      /\ accounts'[d].available = table[d].available - n
      /\ accounts'[c].balance = table[c].balance + n
      /\ accounts'[c].available = table[c].available + n
      /\ \A a \in Accounts \ {d, c} : accounts'[a] = table[a]
  BY <1>1, BalancesAfterPost
<1>3. \A a \in Accounts : /\ table[a].balance \in Int
                          /\ table[a].available = table[a].balance
                          /\ a # Settlement => table[a].balance >= 0
  BY DEF SoundTable, Account
<1>4. d = Settlement \/ table[d].balance >= n
  BY DEF SoundPosting
<1>5. \A a \in Accounts : accounts'[a].available = accounts'[a].balance
  BY <1>2, <1>3
<1>6. \A a \in Accounts \ {Settlement} : accounts'[a].balance >= 0
  <2> SUFFICES ASSUME NEW a \in Accounts \ {Settlement} PROVE accounts'[a].balance >= 0
    OBVIOUS
  <2>1. CASE a = d BY <1>2, <1>3, <1>4, <2>1
  <2>2. CASE a = c BY <1>2, <1>3, <2>2
  <2>3. CASE a \notin {d, c} BY <1>2, <1>3, <2>3
  <2> QED BY <2>1, <2>2, <2>3
<1> QED BY <1>2, <1>5, <1>6

\* The entries after a posting: one balanced pair with a fresh id.
LEMMA EntriesAfterPost ==
  ASSUME LedgerTypeOK, DoubleEntry, NEW table,
         NEW d \in Accounts, NEW c \in Accounts, NEW n \in Nat \ {0},
         NEW o \in Orders \union {NoOrder},
         d # c, PostOn(table, d, c, n, o)
  PROVE  /\ entries' \subseteq Entry
         /\ lastTx' \in Nat
         /\ DoubleEntry'
         /\ entries \subseteq entries'
         /\ \A e \in entries' \ entries :
              e.tx = lastTx' /\ e.order = o /\ e.account \in {d, c}
         /\ \A e \in entries : e.tx # lastTx'
<1> DEFINE x == [tx |-> lastTx', account |-> d, debit |-> n, credit |-> 0, order |-> o]
           y == [tx |-> lastTx', account |-> c, debit |-> 0, credit |-> n, order |-> o]
<1>1. lastTx \in Nat /\ lastTx' = lastTx + 1 /\ entries \subseteq Entry
  BY DEF LedgerTypeOK, PostOn
<1>2. entries' = entries \union {x, y}
  BY DEF PostOn
<1>3. x \in Entry /\ y \in Entry
  BY <1>1 DEF Entry
<1>4. \A e \in entries : e.tx \in 1..lastTx
  BY DEF DoubleEntry
<1>5. Balanced(x, y)
  BY DEF Balanced
<1>6. x.tx = lastTx' /\ y.tx = lastTx'
  OBVIOUS
<1>7. \A e \in entries : e.tx # lastTx'
  BY <1>1, <1>4
<1>8. /\ x.order = o /\ x.account = d
      /\ y.order = o /\ y.account = c
  OBVIOUS
<1> HIDE DEF x, y
<1>9. \A e \in entries' : e.tx \in 1..lastTx'
  BY <1>1, <1>2, <1>4, <1>6
<1>10. ASSUME NEW t \in 1..lastTx'
       PROVE  \E p, q \in entries' : /\ Balanced(p, q)
                                     /\ {e \in entries' : e.tx = t} = {p, q}
  <2>1. CASE t = lastTx'
    <3>1. {e \in entries' : e.tx = t} = {x, y}
      BY <1>2, <1>6, <1>7, <2>1
    <3> QED BY <1>2, <1>5, <3>1
  <2>2. CASE t # lastTx'
    <3>1. t \in 1..lastTx
      BY <1>1, <2>2
    <3>2. PICK p, q \in entries : /\ Balanced(p, q)
                                  /\ {e \in entries : e.tx = t} = {p, q}
      BY <3>1 DEF DoubleEntry
    <3>3. {e \in entries' : e.tx = t} = {e \in entries : e.tx = t}
      BY <1>2, <1>6, <2>2
    <3> QED BY <1>2, <3>2, <3>3
  <2> QED BY <2>1, <2>2
<1>11. DoubleEntry'
  BY <1>9, <1>10 DEF DoubleEntry, Balanced
<1> QED BY <1>1, <1>2, <1>3, <1>6, <1>7, <1>8, <1>11

\* A posting adds one entry to each of its two accounts and none to any other.
LEMMA BalancesAfterPosting ==
  ASSUME LedgerAssumption, LedgerInv, NEW table, SoundTable(table),
         NEW d \in Accounts, NEW c \in Accounts, NEW n \in Nat \ {0},
         NEW o \in Orders \union {NoOrder},
         SoundPosting(table, d, c, n, o), PostOn(table, d, c, n, o)
  PROVE  BalancesAddUp'
<1> DEFINE x == [tx |-> lastTx', account |-> d, debit |-> n, credit |-> 0, order |-> o]
           y == [tx |-> lastTx', account |-> c, debit |-> 0, credit |-> n, order |-> o]
<1>1. /\ lastTx \in Nat /\ lastTx' = lastTx + 1 /\ entries \subseteq Entry
      /\ entries' = entries \union {x, y}
      /\ accounts' = UpdateAccountBalance(UpdateAccountBalance(table, d, -n), c, n)
      /\ d # c /\ table \in [Accounts -> Account]
      /\ \A a \in Accounts : table[a].balance = accounts[a].balance
  BY DEF LedgerInv, LedgerTypeOK, PostOn, SoundPosting, SoundTable
<1>2. x \in Entry /\ y \in Entry /\ Change[x] = -n /\ Change[y] = n
  <2>1. x \in Entry /\ y \in Entry
    BY <1>1 DEF Entry
  <2> QED BY <2>1 DEF Change
<1>3. x.account = d /\ y.account = c
  OBVIOUS
<1>4. x \notin entries /\ y \notin entries
  <2>1. \A e \in entries : e.tx # lastTx'
    BY <1>1 DEF LedgerInv, DoubleEntry
  <2> QED BY <2>1
<1>5. /\ accounts'[d].balance = table[d].balance - n
      /\ accounts'[c].balance = table[c].balance + n
      /\ \A a \in Accounts \ {d, c} : accounts'[a] = table[a]
  BY <1>1, BalancesAfterPost
<1> HIDE DEF x, y
<1>6. /\ EntriesOf(d)' = EntriesOf(d) \union {x} /\ x \notin EntriesOf(d)
      /\ EntriesOf(c)' = EntriesOf(c) \union {y} /\ y \notin EntriesOf(c)
      /\ \A a \in Accounts \ {d, c} : EntriesOf(a)' = EntriesOf(a)
  BY <1>1, <1>3, <1>4 DEF EntriesOf
<1>7. ASSUME NEW a \in Accounts
      PROVE  /\ IsFiniteSet(EntriesOf(a))
             /\ \A e \in EntriesOf(a) : Change[e] \in Int
  <2>1. EntriesOf(a) \in SUBSET entries
    BY DEF EntriesOf
  <2>2. \A e \in Entry : Change[e] \in Int
    BY DEF Change, Entry
  <2> QED BY <1>1, <2>1, <2>2, FS_Subset DEF LedgerInv, BalancesAddUp
<1>8. ASSUME NEW a \in Accounts
      PROVE  accounts[a].balance = Total(Change, EntriesOf(a)) /\ accounts[a].balance \in Int
  BY DEF LedgerInv, LedgerTypeOK, Account, BalancesAddUp
<1>9. Total(Change, EntriesOf(d)') = Total(Change, EntriesOf(d)) + -n
  BY <1>2, <1>6, <1>7, TotalAdds
<1>10. Total(Change, EntriesOf(c)') = Total(Change, EntriesOf(c)) + n
  BY <1>2, <1>6, <1>7, TotalAdds
<1>11. ASSUME NEW a \in Accounts
       PROVE  accounts'[a].balance = Total(Change, EntriesOf(a)')
  <2>1. CASE a = d
    BY <1>1, <1>5, <1>8, <1>9, <2>1
  <2>2. CASE a = c
    BY <1>1, <1>5, <1>8, <1>10, <2>2
  <2>3. CASE a \notin {d, c}
    BY <1>1, <1>5, <1>6, <1>8, <2>3
  <2> QED BY <2>1, <2>2, <2>3
<1>12. IsFiniteSet(entries')
  <2>1. IsFiniteSet(entries \union {x})
    BY FS_AddElement DEF LedgerInv, BalancesAddUp
  <2>2. entries' = (entries \union {x}) \union {y}
    BY <1>1
  <2> QED BY <2>1, <2>2, FS_AddElement
<1> QED BY <1>11, <1>12 DEF BalancesAddUp

\* Every posting preserves the invariant.
LEMMA PostKeepsInv ==
  ASSUME LedgerAssumption, LedgerInv, NEW table, SoundTable(table),
         NEW d \in Accounts, NEW c \in Accounts, NEW n \in Nat \ {0},
         NEW o \in Orders \union {NoOrder},
         SoundPosting(table, d, c, n, o), PostOn(table, d, c, n, o),
         adminAudit' \in [Accounts -> AuditTrail]
  PROVE  LedgerInv'
<1>1. /\ accounts' \in [Accounts -> Account]
      /\ \A a \in Accounts : /\ accounts'[a].owner = table[a].owner
                             /\ accounts'[a].system = table[a].system
                             /\ accounts'[a].status = table[a].status
                             /\ accounts'[a].available = accounts'[a].balance
      /\ \A a \in Accounts \ {Settlement} : accounts'[a].balance >= 0
  BY AccountsAfterPost
<1>2. d # c
  BY DEF SoundPosting
<1>3. /\ entries' \subseteq Entry
      /\ lastTx' \in Nat
      /\ DoubleEntry'
      /\ entries \subseteq entries'
      /\ \A e \in entries' \ entries :
           e.tx = lastTx' /\ e.order = o /\ e.account \in {d, c}
      /\ \A e \in entries : e.tx # lastTx'
  BY <1>2, EntriesAfterPost DEF LedgerInv
<1>4. LedgerTypeOK'
  BY <1>1, <1>3 DEF LedgerTypeOK
<1>5. /\ \A a \in Accounts : Exists(a) => Exists(a)' /\ accounts'[a].owner = accounts[a].owner
      /\ Exists(d)' /\ Exists(c)'
  BY <1>1 DEF SoundTable, SoundPosting, Exists
<1>6. \A e \in entries : e.account \in Accounts /\ Exists(e.account)
  BY DEF LedgerInv, AccountsSound, LedgerTypeOK, Entry
<1>7. AccountsSound'
  <2>1. accounts'[Settlement].status = "ACTIVE"
    BY <1>1 DEF SoundTable, LedgerAssumption
  <2>2. \A a \in Accounts : (accounts'[a].system <=> a = Settlement)
    BY <1>1 DEF SoundTable
  <2>3. \A e \in entries' : Exists(e.account)'
    BY <1>3, <1>5, <1>6 DEF Exists
  <2> QED BY <1>1, <2>1, <2>2, <2>3 DEF AccountsSound, Exists
<1>8. NoOverdraft'
  BY <1>1 DEF NoOverdraft
<1>9. TransfersStayWithOwner'
  <2> SUFFICES ASSUME NEW p \in entries', NEW q \in entries', p.tx = q.tx,
                      p.order = NoOrder, Settlement \notin {p.account, q.account}
               PROVE  accounts'[p.account].owner = accounts'[q.account].owner
    BY DEF TransfersStayWithOwner
  <2>1. CASE p \in entries /\ q \in entries
    BY <1>5, <1>6, <2>1 DEF LedgerInv, TransfersStayWithOwner
  <2>2. CASE p \notin entries /\ q \notin entries
    <3>1. o = NoOrder /\ p.account \in {d, c} /\ q.account \in {d, c}
      BY <1>3, <2>2
    <3>2. CASE p.account = q.account
      BY <3>2
    <3>3. CASE p.account # q.account
      BY <1>1, <3>1, <3>3 DEF SoundPosting
    <3> QED BY <3>2, <3>3
  <2> QED BY <1>3, <2>1, <2>2
<1>10. BalancesAddUp'
  BY BalancesAfterPosting
<1> QED BY <1>3, <1>4, <1>7, <1>8, <1>9, <1>10 DEF LedgerInv

\* What one step may do to accounts out of use and to the history: the bodies
\* of BlockedIsFrozen and HistoryKept.
FrozenStep ==
  \A a \in Accounts :
    accounts[a].status \in {"BLOCKED", "DELETED"} =>
      /\ accounts'[a].balance = accounts[a].balance
      /\ EntriesOf(a)' = EntriesOf(a)

HistoryStep ==
  /\ entries \subseteq entries'
  /\ \A e \in entries : accounts'[e.account].status # "DELETED"

\* Every posting satisfies both, if its table changed no account out of use.
LEMMA PostKeepsHistory ==
  ASSUME LedgerAssumption, LedgerInv, NEW table, SoundTable(table),
         NEW d \in Accounts, NEW c \in Accounts, NEW n \in Nat \ {0},
         NEW o \in Orders \union {NoOrder},
         SoundPosting(table, d, c, n, o), PostOn(table, d, c, n, o),
         \A a \in Accounts : accounts[a].status # "ABSENT" => table[a] = accounts[a]
  PROVE  FrozenStep /\ HistoryStep
<1>1. /\ \A a \in Accounts : accounts'[a].status = table[a].status
      /\ \A a \in Accounts \ {d, c} : accounts'[a] = table[a]
  BY AccountsAfterPost
<1>2. d # c /\ table[d].status = "ACTIVE" /\ table[c].status = "ACTIVE"
  BY DEF SoundPosting
<1>3. /\ entries \subseteq entries'
      /\ \A e \in entries' \ entries : e.account \in {d, c}
  BY <1>2, EntriesAfterPost DEF LedgerInv
<1>4. FrozenStep
  <2> SUFFICES ASSUME NEW a \in Accounts, accounts[a].status \in {"BLOCKED", "DELETED"}
               PROVE  /\ accounts'[a].balance = accounts[a].balance
                      /\ EntriesOf(a)' = EntriesOf(a)
    BY DEF FrozenStep
  <2>1. table[a] = accounts[a] /\ a \notin {d, c}
    BY <1>2
  <2> QED BY <1>1, <1>3, <2>1 DEF EntriesOf
<1>5. HistoryStep
  <2>1. \A e \in entries : e.account \in Accounts /\ Exists(e.account)
    BY DEF LedgerInv, AccountsSound, LedgerTypeOK, Entry
  <2>2. \A a \in Accounts : Exists(a) => accounts'[a].status # "DELETED"
    BY <1>1 DEF Exists
  <2> QED BY <1>3, <2>1, <2>2 DEF HistoryStep
<1> QED BY <1>4, <1>5

\* The accounts table is one a posting may start from.
LEMMA CurrentTable ==
  ASSUME LedgerAssumption, LedgerInv
  PROVE  SoundTable(accounts)
BY DEF LedgerInv, LedgerTypeOK, AccountsSound, NoOverdraft, SoundTable, LedgerAssumption

\* The case of the two lemmas that everything but a registration needs.
LEMMA PlainPost ==
  ASSUME LedgerAssumption, LedgerInv,
         NEW d \in Accounts, NEW c \in Accounts, NEW n \in Nat \ {0},
         NEW o \in Orders \union {NoOrder},
         SoundPosting(accounts, d, c, n, o), Post(d, c, n, o),
         adminAudit' \in [Accounts -> AuditTrail]
  PROVE  LedgerInv' /\ FrozenStep /\ HistoryStep
<1>1. SoundTable(accounts) /\ PostOn(accounts, d, c, n, o)
  BY CurrentTable DEF Post
<1>2. LedgerInv'
  BY <1>1, PostKeepsInv
<1>3. FrozenStep /\ HistoryStep
  BY <1>1, PostKeepsHistory
<1> QED BY <1>2, <1>3

-----------------------------------------------------------------------------
(* The use cases *)

\* Audit rows of the right kind keep the audit trails well-typed.
LEMMA StatusAuditTyped ==
  ASSUME adminAudit \in [Accounts -> AuditTrail], NEW a \in Accounts,
         NEW previous \in AccountStatus, NEW next \in AccountStatus,
         RecordStatusAudit(a, previous, next)
  PROVE  adminAudit' \in [Accounts -> AuditTrail]
<1> DEFINE row == [previous |-> previous, next |-> next]
           rows == Append(adminAudit[a].status, row)
           new == [adminAudit[a] EXCEPT !.status = rows]
<1>1. adminAudit[a] \in AuditTrail
  OBVIOUS
<1>2. rows \in Seq([previous: AccountStatus, next: AccountStatus])
  BY <1>1 DEF AuditTrail
<1>3. adminAudit' = [adminAudit EXCEPT ![a] = new]
  BY DEF RecordStatusAudit
<1> HIDE DEF rows
<1>4. new \in AuditTrail
  BY <1>1, <1>2 DEF AuditTrail
<1> HIDE DEF new
<1> QED BY <1>3, <1>4

\* A new audit row has its type.
LEMMA BalanceAuditTyped ==
  ASSUME adminAudit \in [Accounts -> AuditTrail], NEW a \in Accounts,
         NEW previous \in Int, NEW next \in Int,
         RecordBalanceAudit(a, previous, next)
  PROVE  adminAudit' \in [Accounts -> AuditTrail]
<1> DEFINE row == [previous |-> previous, next |-> next]
           rows == Append(adminAudit[a].balance, row)
           new == [adminAudit[a] EXCEPT !.balance = rows]
<1>1. adminAudit[a] \in AuditTrail
  OBVIOUS
<1>2. rows \in Seq([previous: Int, next: Int])
  BY <1>1 DEF AuditTrail
<1>3. adminAudit' = [adminAudit EXCEPT ![a] = new]
  BY DEF RecordBalanceAudit
<1> HIDE DEF rows
<1>4. new \in AuditTrail
  BY <1>1, <1>2 DEF AuditTrail
<1> HIDE DEF new
<1> QED BY <1>3, <1>4

\* A deposit, by whoever makes it, is a sound posting from the settlement
\* account.
LEMMA DepositSound ==
  ASSUME LedgerAssumption, LedgerInv, NEW a \in Accounts, NEW n \in Amounts,
         DepositTx(a, n), adminAudit' \in [Accounts -> AuditTrail]
  PROVE  LedgerInv' /\ FrozenStep /\ HistoryStep
<1>1. n \in Nat \ {0} /\ Settlement \in Accounts /\ NoOrder \in Orders \union {NoOrder}
  BY DEF LedgerAssumption
<1>2. Post(Settlement, a, n, NoOrder)
  BY DEF DepositTx
<1>3. SoundPosting(accounts, Settlement, a, n, NoOrder)
  BY DEF DepositTx, CanAdjust, LedgerInv, AccountsSound, SoundPosting
<1> QED BY <1>1, <1>2, <1>3, PlainPost

\* A withdrawal is a sound posting to it.
LEMMA WithdrawSound ==
  ASSUME LedgerAssumption, LedgerInv, NEW a \in Accounts, NEW n \in Amounts,
         WithdrawTx(a, n), adminAudit' \in [Accounts -> AuditTrail]
  PROVE  LedgerInv' /\ FrozenStep /\ HistoryStep
<1>1. n \in Nat \ {0} /\ Settlement \in Accounts /\ NoOrder \in Orders \union {NoOrder}
  BY DEF LedgerAssumption
<1>2. Post(a, Settlement, n, NoOrder)
  BY DEF WithdrawTx
<1>3. SoundPosting(accounts, a, Settlement, n, NoOrder)
  BY DEF WithdrawTx, CanAdjust, LedgerInv, AccountsSound, SoundPosting
<1> QED BY <1>1, <1>2, <1>3, PlainPost

\* A transfer preserves the ledger's invariant.
LEMMA TransferSound ==
  ASSUME LedgerAssumption, LedgerInv, NEW customer \in Customers,
         NEW a \in Accounts, NEW b \in Accounts, NEW n \in Amounts,
         Transfer(customer, a, b, n)
  PROVE  LedgerInv' /\ FrozenStep /\ HistoryStep
<1>1. n \in Nat \ {0} /\ NoOrder \in Orders \union {NoOrder}
  BY DEF LedgerAssumption
<1>2. /\ Post(a, b, n, NoOrder)
      /\ adminAudit' \in [Accounts -> AuditTrail]
      /\ PlanCustomerTransfer(customer, a, b, accounts[a].balance, n, TRUE, FALSE) = "OK"
  BY DEF Transfer, LedgerInv, LedgerTypeOK
<1>3. /\ a # b
      /\ CustomerCanOperate(customer, a) /\ CustomerCanOperate(customer, b)
      /\ accounts[a].status = "ACTIVE" /\ accounts[b].status = "ACTIVE"
      /\ ~(accounts[a].balance < n)
  BY <1>2, PlannedTransfer
<1>4. accounts[a].balance \in Int
  BY DEF LedgerInv, LedgerTypeOK, Account
<1>5. SoundPosting(accounts, a, b, n, NoOrder)
  BY <1>1, <1>3, <1>4 DEF SoundPosting, CustomerCanOperate
<1> QED BY <1>1, <1>2, <1>5, PlainPost

\* Registration posts on the table with the new account in it.
LEMMA RegistrationSound ==
  ASSUME LedgerAssumption, LedgerInv, NEW customer \in Customers,
         NEW a \in Accounts, CreateFundedCustomer(customer, a)
  PROVE  LedgerInv' /\ FrozenStep /\ HistoryStep
<1> DEFINE table == [accounts EXCEPT ![a] = NewAccount(customer)]
<1>1. /\ OpeningBalance \in Nat \ {0} /\ Settlement \in Accounts
      /\ NoOrder \in Orders \union {NoOrder}
  BY DEF LedgerAssumption
<1>2. /\ accounts[a].status = "ABSENT" /\ ~Exists(a)
      /\ PostOn(table, Settlement, a, OpeningBalance, NoOrder)
      /\ adminAudit' \in [Accounts -> AuditTrail]
  BY DEF CreateFundedCustomer, Exists, LedgerInv, LedgerTypeOK
<1>3. a # Settlement
  BY <1>2 DEF LedgerInv, AccountsSound
<1>4. accounts[a].balance = 0
  BY <1>2, NoEntriesNoBalance
<1>5. /\ table \in [Accounts -> Account]
      /\ table[a] = NewAccount(customer)
      /\ \A b \in Accounts \ {a} : table[b] = accounts[b]
  BY DEF NewAccount, Account, LedgerInv, LedgerTypeOK
<1>6. SoundTable(table)
  BY <1>1, <1>2, <1>3, <1>4, <1>5, CurrentTable DEF SoundTable, NewAccount
<1>7. SoundPosting(table, Settlement, a, OpeningBalance, NoOrder)
  BY <1>3, <1>5, <1>6 DEF SoundPosting, SoundTable, NewAccount
<1>8. \A b \in Accounts : accounts[b].status # "ABSENT" => table[b] = accounts[b]
  BY <1>2, <1>5
<1> HIDE DEF table
<1>9. LedgerInv'
  BY <1>1, <1>2, <1>6, <1>7, PostKeepsInv
<1>10. FrozenStep /\ HistoryStep
  BY <1>1, <1>2, <1>6, <1>7, <1>8, PostKeepsHistory
<1> QED BY <1>9, <1>10

\* A step that posts nothing keeps everything said about entries, if accounts
\* in use keep owner, balances and kind, and no account with entries leaves.
LEMMA QuietStep ==
  ASSUME LedgerAssumption, LedgerInv,
         accounts' \in [Accounts -> Account], adminAudit' \in [Accounts -> AuditTrail],
         UNCHANGED <<entries, lastTx>>,
         accounts'[Settlement].status = "ACTIVE",
         \A a \in Accounts :
           /\ accounts'[a].system <=> a = Settlement
           /\ accounts'[a].available = accounts'[a].balance
           /\ a # Settlement => accounts'[a].balance >= 0
           /\ Exists(a) => /\ accounts'[a].owner = accounts[a].owner
                           /\ Exists(a)' \/ EntriesOf(a) = {}
           /\ accounts'[a].balance = accounts[a].balance
  PROVE  LedgerInv' /\ FrozenStep /\ HistoryStep
<1>1. \A e \in entries : e.account \in Accounts /\ Exists(e.account)
  BY DEF LedgerInv, AccountsSound, LedgerTypeOK, Entry
<1>2. \A e \in entries : /\ Exists(e.account)'
                         /\ accounts'[e.account].owner = accounts[e.account].owner
  BY <1>1 DEF EntriesOf
<1>3. LedgerTypeOK'
  BY DEF LedgerInv, LedgerTypeOK
<1>4. AccountsSound'
  BY <1>2 DEF AccountsSound, Exists, LedgerAssumption
<1>5. NoOverdraft' /\ DoubleEntry'
  BY DEF LedgerInv, NoOverdraft, DoubleEntry, Balanced
<1>6. TransfersStayWithOwner'
  BY <1>2 DEF LedgerInv, TransfersStayWithOwner
<1>7. FrozenStep
  BY DEF FrozenStep, EntriesOf
<1>8. HistoryStep
  BY <1>2 DEF HistoryStep, Exists
<1>9. BalancesAddUp'
  BY DEF LedgerInv, BalancesAddUp, EntriesOf
<1> QED BY <1>3, <1>4, <1>5, <1>6, <1>7, <1>8, <1>9 DEF LedgerInv

\* A new account preserves the ledger's invariant.
LEMMA CreateAccountSound ==
  ASSUME LedgerAssumption, LedgerInv, NEW customer \in Customers,
         NEW a \in Accounts, CreateAccount(customer, a)
  PROVE  LedgerInv' /\ FrozenStep /\ HistoryStep
<1>1. /\ accounts[a].status = "ABSENT" /\ ~Exists(a)
      /\ accounts' = [accounts EXCEPT ![a] = NewAccount(customer)]
      /\ UNCHANGED <<entries, lastTx>>
      /\ adminAudit' \in [Accounts -> AuditTrail]
  BY DEF CreateAccount, Exists, LedgerInv, LedgerTypeOK
<1>2. a # Settlement
  BY <1>1 DEF LedgerInv, AccountsSound
<1>3. /\ accounts' \in [Accounts -> Account]
      /\ accounts'[a] = NewAccount(customer)
      /\ \A b \in Accounts \ {a} : accounts'[b] = accounts[b]
  BY <1>1 DEF NewAccount, Account, LedgerInv, LedgerTypeOK
<1>4. accounts'[Settlement].status = "ACTIVE"
  BY <1>2, <1>3 DEF LedgerInv, AccountsSound, LedgerAssumption
<1>5. \A b \in Accounts :
           /\ accounts'[b].system <=> b = Settlement
           /\ accounts'[b].available = accounts'[b].balance
           /\ b # Settlement => accounts'[b].balance >= 0
           /\ Exists(b) => /\ accounts'[b].owner = accounts[b].owner
                           /\ Exists(b)' \/ EntriesOf(b) = {}
           /\ accounts'[b].balance = accounts[b].balance
  <2> SUFFICES ASSUME NEW b \in Accounts
               PROVE  /\ accounts'[b].system <=> b = Settlement
                      /\ accounts'[b].available = accounts'[b].balance
                      /\ b # Settlement => accounts'[b].balance >= 0
                      /\ Exists(b) => /\ accounts'[b].owner = accounts[b].owner
                                      /\ Exists(b)' \/ EntriesOf(b) = {}
                      /\ accounts'[b].balance = accounts[b].balance
    OBVIOUS
  <2>1. CASE b = a
    BY <1>1, <1>2, <1>3, <2>1, NoEntriesNoBalance DEF NewAccount
  <2>2. CASE b # a
    BY <1>3, <2>2 DEF LedgerInv, AccountsSound, NoOverdraft, Exists
  <2> QED BY <2>1, <2>2
<1> QED BY <1>1, <1>3, <1>4, <1>5, QuietStep

\* Deleting and blocking change the status of one customer account.
LEMMA StatusStep ==
  ASSUME LedgerAssumption, LedgerInv, NEW a \in Accounts, a # Settlement,
         NEW status \in AccountStatus,
         accounts' = [accounts EXCEPT ![a].status = status],
         UNCHANGED <<entries, lastTx>>, adminAudit' \in [Accounts -> AuditTrail],
         status \in {"ACTIVE", "BLOCKED"} \/ EntriesOf(a) = {}
  PROVE  LedgerInv' /\ FrozenStep /\ HistoryStep
<1>1. accounts[a] \in Account
  BY DEF LedgerInv, LedgerTypeOK
<1> DEFINE row == [accounts[a] EXCEPT !.status = status]
<1>2. row = [owner |-> accounts[a].owner, system |-> accounts[a].system,
             status |-> status, balance |-> accounts[a].balance,
             available |-> accounts[a].available]
  BY <1>1 DEF Account
<1>3. accounts' = [accounts EXCEPT ![a] = row]
  OBVIOUS
<1> HIDE DEF row
<1>4. row \in Account
  BY <1>1, <1>2 DEF Account
<1>5. /\ accounts' \in [Accounts -> Account]
      /\ accounts'[a] = row
      /\ \A b \in Accounts \ {a} : accounts'[b] = accounts[b]
  BY <1>3, <1>4 DEF LedgerInv, LedgerTypeOK
<1>6. accounts'[Settlement].status = "ACTIVE"
  BY <1>5 DEF LedgerInv, AccountsSound, LedgerAssumption
<1>7. \A b \in Accounts :
        /\ accounts'[b].owner = accounts[b].owner
        /\ accounts'[b].system <=> b = Settlement
        /\ accounts'[b].balance = accounts[b].balance
        /\ accounts'[b].available = accounts'[b].balance
        /\ b # Settlement => accounts'[b].balance >= 0
  <2> SUFFICES ASSUME NEW b \in Accounts
               PROVE  /\ accounts'[b].owner = accounts[b].owner
                      /\ accounts'[b].system = accounts[b].system
                      /\ accounts'[b].balance = accounts[b].balance
                      /\ accounts'[b].available = accounts[b].available
    BY DEF LedgerInv, AccountsSound, NoOverdraft
  <2>1. CASE b = a
    BY ONLY <1>2, <1>5, <2>1
  <2>2. CASE b # a
    BY ONLY <1>5, <2>2, b \in Accounts
  <2> QED BY <2>1, <2>2
<1>8. \A b \in Accounts : Exists(b) => Exists(b)' \/ EntriesOf(b) = {}
  BY <1>2, <1>5 DEF Exists
<1> QED BY <1>5, <1>6, <1>7, <1>8, QuietStep

\* A deleted account preserves the ledger's invariant.
LEMMA DeleteAccountSound ==
  ASSUME LedgerAssumption, LedgerInv, NEW customer \in Customers,
         NEW a \in Accounts, DeleteAccount(customer, a)
  PROVE  LedgerInv' /\ FrozenStep /\ HistoryStep
<1>1. /\ accounts' = [accounts EXCEPT ![a].status = "DELETED"]
      /\ EntriesOf(a) = {}
      /\ UNCHANGED <<entries, lastTx>>
      /\ adminAudit' \in [Accounts -> AuditTrail]
  BY DEF DeleteAccount, LedgerInv, LedgerTypeOK
<1>2. a # Settlement
  BY DEF DeleteAccount, CustomerCanOperate, LedgerInv, AccountsSound
<1> QED BY <1>1, <1>2, StatusStep

\* A change of status preserves the ledger's invariant.
LEMMA UpdateStatusSound ==
  ASSUME LedgerAssumption, LedgerInv, NEW a \in Accounts,
         NEW status \in {"ACTIVE", "BLOCKED"}, UpdateAdminAccountStatus(a, status)
  PROVE  LedgerInv' /\ FrozenStep /\ HistoryStep
<1>1. /\ accounts' = [accounts EXCEPT ![a].status = status]
      /\ UNCHANGED <<entries, lastTx>>
      /\ RecordStatusAudit(a, accounts[a].status, status)
      /\ a # Settlement
  BY DEF UpdateAdminAccountStatus, LedgerInv, AccountsSound
<1>2. adminAudit \in [Accounts -> AuditTrail] /\ accounts[a].status \in AccountStatus
  BY DEF LedgerInv, LedgerTypeOK, Account
<1>3. adminAudit' \in [Accounts -> AuditTrail]
  BY <1>1, <1>2, StatusAuditTyped
<1> QED BY <1>1, <1>3, StatusStep

\* An admin adjustment preserves the ledger's invariant.
LEMMA AdjustSound ==
  ASSUME LedgerAssumption, LedgerInv, NEW a \in Accounts, NEW n \in Amounts,
         NEW operation, AdjustBalanceAsAdmin(a, operation, n)
  PROVE  LedgerInv' /\ FrozenStep /\ HistoryStep
<1>1. /\ DepositTx(a, n) \/ WithdrawTx(a, n)
      /\ RecordBalanceAudit(a, accounts[a].balance, accounts'[a].balance)
  BY DEF AdjustBalanceAsAdmin
<1>2. n \in Nat /\ Settlement \in Accounts
  BY DEF LedgerAssumption
<1>3. accounts \in [Accounts -> Account] /\ a # Settlement
  BY <1>1 DEF LedgerInv, LedgerTypeOK, DepositTx, WithdrawTx, CanAdjust
<1>4. accounts' \in [Accounts -> Account]
  <2>1. CASE DepositTx(a, n)
    BY <1>2, <1>3, <2>1, BalancesAfterPost DEF DepositTx, Post, PostOn
  <2>2. CASE WithdrawTx(a, n)
    BY <1>2, <1>3, <2>2, BalancesAfterPost DEF WithdrawTx, Post, PostOn
  <2> QED BY <1>1, <2>1, <2>2
<1>5. /\ adminAudit \in [Accounts -> AuditTrail]
      /\ accounts[a].balance \in Int /\ accounts'[a].balance \in Int
  BY <1>3, <1>4 DEF LedgerInv, LedgerTypeOK, Account
<1>6. adminAudit' \in [Accounts -> AuditTrail]
  BY <1>1, <1>5, BalanceAuditTyped
<1> QED BY <1>1, <1>6, DepositSound, WithdrawSound

\* Every use case of the ledger keeps the invariant, freezes what is blocked
\* and keeps the history.
LEMMA LedgerNextSound ==
  ASSUME LedgerAssumption, LedgerInv, LedgerNext
  PROVE  LedgerInv' /\ FrozenStep /\ HistoryStep
<1>1. CASE \E customer \in Customers : CustomerStep(customer)
  <2> PICK customer \in Customers, a \in Accounts :
        \/ CreateFundedCustomer(customer, a)
        \/ CreateAccount(customer, a)
        \/ DeleteAccount(customer, a)
        \/ \E b \in Accounts, n \in Amounts : Transfer(customer, a, b, n)
    BY <1>1 DEF CustomerStep
  <2> QED BY RegistrationSound, CreateAccountSound, DeleteAccountSound, TransferSound
<1>2. CASE OperatorStep
  <2> PICK a \in Accounts :
        \/ \E n \in Amounts : Deposit(a, n) \/ Withdraw(a, n)
        \/ \E n \in Amounts, op \in {"DEPOSIT", "WITHDRAW"} : AdjustBalanceAsAdmin(a, op, n)
        \/ \E status \in {"ACTIVE", "BLOCKED"} : UpdateAdminAccountStatus(a, status)
    BY <1>2 DEF OperatorStep
  <2>1. ASSUME NEW n \in Amounts, Deposit(a, n) \/ Withdraw(a, n)
        PROVE  LedgerInv' /\ FrozenStep /\ HistoryStep
    <3>1. DepositTx(a, n) \/ WithdrawTx(a, n)
      BY <2>1 DEF Deposit, Withdraw
    <3>2. adminAudit' \in [Accounts -> AuditTrail]
      BY <2>1 DEF Deposit, Withdraw, LedgerInv, LedgerTypeOK
    <3> QED BY <3>1, <3>2, DepositSound, WithdrawSound
  <2> QED BY <2>1, AdjustSound, UpdateStatusSound
<1> QED BY <1>1, <1>2 DEF LedgerNext

\* A stuttering step trivially does.
LEMMA LedgerStutterSound ==
  ASSUME LedgerInv, UNCHANGED ledgerVars
  PROVE  LedgerInv' /\ FrozenStep /\ HistoryStep
<1>1. LedgerInv'
  BY DEF LedgerInv, ledgerVars, LedgerTypeOK, AccountsSound, Exists, NoOverdraft,
         DoubleEntry, Balanced, TransfersStayWithOwner, BalancesAddUp, EntriesOf
<1>2. \A e \in entries : accounts[e.account].status # "DELETED"
  BY DEF LedgerInv, AccountsSound, Exists
<1>3. FrozenStep /\ HistoryStep
  BY <1>2 DEF FrozenStep, HistoryStep, EntriesOf, ledgerVars
<1> QED BY <1>1, <1>3

\* The inductive invariant holds in the initial state.
LEMMA LedgerInitSound ==
  ASSUME LedgerAssumption, LedgerInit
  PROVE  LedgerInv
<1>1. accounts \in [Accounts -> Account]
  BY DEF LedgerInit, Account
<1>2. adminAudit \in [Accounts -> AuditTrail]
  BY DEF LedgerInit, AuditTrail
<1>3. LedgerTypeOK
  BY <1>1, <1>2 DEF LedgerInit, LedgerTypeOK
<1>4. \A a \in Accounts :
        /\ accounts[a].status = IF a = Settlement THEN "ACTIVE" ELSE "ABSENT"
        /\ accounts[a].balance = 0 /\ accounts[a].available = 0
  BY DEF LedgerInit
<1>5. \A a \in Accounts : accounts[a].system <=> a = Settlement
  BY Zenon DEF LedgerInit
<1>6. NoOverdraft
  BY <1>4 DEF NoOverdraft
<1>7. AccountsSound
  BY <1>4, <1>5 DEF LedgerInit, AccountsSound, LedgerAssumption
<1>8. DoubleEntry /\ TransfersStayWithOwner
  BY DEF LedgerInit, DoubleEntry, TransfersStayWithOwner
<1>9. BalancesAddUp
  BY <1>4, FS_EmptySet, TotalOfNothing DEF LedgerInit, BalancesAddUp, EntriesOf
<1> QED BY <1>3, <1>6, <1>7, <1>8, <1>9 DEF LedgerInv

-----------------------------------------------------------------------------
(* Theorems *)

\* LedgerInv is an invariant of the ledger.
THEOREM LedgerInvariant == LedgerSpec => []LedgerInv
<1>1. LedgerInit => LedgerInv
  BY LedgerAssumption, LedgerInitSound
<1>2. LedgerInv /\ [LedgerNext]_ledgerVars => LedgerInv'
  BY LedgerAssumption, LedgerNextSound, LedgerStutterSound
<1> QED BY <1>1, <1>2, PTL DEF LedgerSpec

\* Whatever customers and operators do, the four tables keep their types.
THEOREM LedgerTypes == LedgerSpec => []LedgerTypeOK
<1>1. LedgerInv => LedgerTypeOK
  BY DEF LedgerInv
<1> QED BY <1>1, LedgerInvariant, PTL

\* The invariant gives every cached balance the value a reconciliation computes.
LEMMA BalancesAreTruth ==
  ASSUME LedgerInv
  PROVE  CachedBalanceIsLedgerTruth
<1>1. ASSUME NEW a \in Accounts
      PROVE  CalculatedBalance(a) = Total(Change, EntriesOf(a))
  <2>1. EntriesOf(a) \in SUBSET entries /\ entries \subseteq Entry
    BY DEF EntriesOf, LedgerInv, LedgerTypeOK
  <2>2. IsFiniteSet(EntriesOf(a))
    BY <2>1, FS_Subset DEF LedgerInv, BalancesAddUp
  <2>3. EntriesOf(a) \in SUBSET Entry
    BY <2>1
  <2> HIDE DEF EntriesOf
  <2> QED BY <2>2, <2>3, EntrySumIsTotal DEF CalculatedBalance
<1> QED BY <1>1 DEF LedgerInv, BalancesAddUp, AccountsSound, CachedBalanceIsLedgerTruth

\* The cached balance of every account is the sum of its entries, for every use
\* case that posts and whatever their number (ledger_repository.go,
\* ReconcileAccount).
THEOREM BalancesAreLedgerTruth == LedgerSpec => []CachedBalanceIsLedgerTruth
<1>1. LedgerInv => CachedBalanceIsLedgerTruth
  BY BalancesAreTruth
<1> QED BY <1>1, LedgerInvariant, PTL

\* Every ledger transaction is one balanced pair of entries (posting.go).
THEOREM PostingsBalance == LedgerSpec => []DoubleEntry
<1>1. LedgerInv => DoubleEntry
  BY DEF LedgerInv
<1> QED BY <1>1, LedgerInvariant, PTL

\* No customer account is ever overdrawn, in either cached figure.
THEOREM NoAccountOverdrawn == LedgerSpec => []NoOverdraft
<1>1. LedgerInv => NoOverdraft
  BY DEF LedgerInv
<1> QED BY <1>1, LedgerInvariant, PTL

\* Without a payment order no money passes between two customers.
THEOREM TransfersWithinOwner == LedgerSpec => []TransfersStayWithOwner
<1>1. LedgerInv => TransfersStayWithOwner
  BY DEF LedgerInv
<1> QED BY <1>1, LedgerInvariant, PTL

\* No step posts to a blocked or deleted account.
THEOREM BlockedAccountsFrozen == LedgerSpec => BlockedIsFrozen
<1>1. LedgerInv /\ [LedgerNext]_ledgerVars =>
        [\A a \in Accounts :
           accounts[a].status \in {"BLOCKED", "DELETED"} =>
             /\ accounts'[a].balance = accounts[a].balance
             /\ EntriesOf(a)' = EntriesOf(a)]_ledgerVars
  BY LedgerAssumption, LedgerNextSound DEF FrozenStep
<1> QED BY <1>1, LedgerInvariant, PTL DEF LedgerSpec, BlockedIsFrozen

\* Entries are only ever added, and their accounts never deleted.
THEOREM HistoryIsKept == LedgerSpec => HistoryKept
<1>1. LedgerInv /\ [LedgerNext]_ledgerVars =>
        [/\ entries \subseteq entries'
         /\ \A e \in entries : accounts'[e.account].status # "DELETED"]_ledgerVars
  BY LedgerAssumption, LedgerNextSound DEF HistoryStep
<1> QED BY <1>1, LedgerInvariant, PTL DEF LedgerSpec, HistoryKept
-----------------------------------------------------------------------------
(* Reconciliation beside the running ledger *)

\* The entries of the account under reconciliation that were committed when its
\* cached balance was read.
SeenEntries == {e \in EntriesOf(check.account) : e.tx <= check.seen}

\* What the first read has fetched is the sum of the entries of that moment,
\* whatever was posted since.
ReadSound ==
  /\ check \in [phase: Phases, account: Accounts, stored: Int, seen: Nat]
  /\ check.phase = "read" =>
       check.seen <= lastTx /\ check.stored = Total(Change, SeenEntries)

\* New entries carry new transaction ids.
LEMMA LedgerNumbersUpwards ==
  ASSUME LedgerInv, [LedgerNext]_ledgerVars
  PROVE  /\ lastTx' \in Nat /\ lastTx <= lastTx'
         /\ entries \subseteq entries'
         /\ \A e \in entries' \ entries : e.tx > lastTx
<1>1. \/ UNCHANGED <<entries, lastTx>>
      \/ \E table, d, c, n : PostOn(table, d, c, n, NoOrder)
  BY DEF LedgerNext, OperatorStep, CustomerStep, Deposit, Withdraw, DepositTx, WithdrawTx,
       AdjustBalanceAsAdmin, UpdateAdminAccountStatus, CreateFundedCustomer,
       CreateAccount, DeleteAccount, Transfer, Post, ledgerVars
<1>2. lastTx \in Nat
  BY DEF LedgerInv, LedgerTypeOK
<1>3. CASE UNCHANGED <<entries, lastTx>>
  BY <1>2, <1>3
<1>4. ASSUME NEW table, NEW d, NEW c, NEW n, PostOn(table, d, c, n, NoOrder)
      PROVE  /\ lastTx' = lastTx + 1
             /\ entries \subseteq entries'
             /\ \A e \in entries' \ entries : e.tx = lastTx + 1
  BY <1>4 DEF PostOn
<1> QED BY <1>1, <1>2, <1>3, <1>4

\* The sums of an account's entries, taken whole or in part, are sums of Change.
LEMMA AccountSums ==
  ASSUME LedgerInv, NEW a \in Accounts, NEW S \in SUBSET EntriesOf(a)
  PROVE  /\ IsFiniteSet(S) /\ \A e \in S : Change[e] \in Int
         /\ MapThenSumSet(LAMBDA e : e.credit - e.debit, S) = Total(Change, S)
         /\ Total(Change, S) \in Int
<1>1. S \in SUBSET entries /\ S \in SUBSET Entry
  BY DEF EntriesOf, LedgerInv, LedgerTypeOK
<1>2. IsFiniteSet(S)
  BY <1>1, FS_Subset DEF LedgerInv, BalancesAddUp
<1>3. \A e \in S : Change[e] \in Int
  BY <1>1 DEF Change, Entry
<1> QED BY <1>1, <1>2, <1>3, EntrySumIsTotal, TotalTyped

\* Postings do not disturb what was read before them.
LEMMA LedgerKeepsRead ==
  ASSUME LedgerAssumption, LedgerInv, ReadSound, [LedgerNext]_ledgerVars, UNCHANGED check
  PROVE  ReadSound'
<1>1. /\ lastTx' \in Nat /\ lastTx <= lastTx'
      /\ entries \subseteq entries'
      /\ \A e \in entries' \ entries : e.tx > lastTx
  BY LedgerNumbersUpwards
<1>2. lastTx \in Nat /\ check.seen \in Nat
  BY DEF LedgerInv, LedgerTypeOK, ReadSound
<1>3. LedgerInv'
  BY LedgerNextSound, LedgerStutterSound
<1>4. \A e \in entries' : e.tx \in Nat
  BY <1>3 DEF LedgerInv, LedgerTypeOK, Entry
<1>5. CASE check.phase = "read"
  <2>1. check.seen <= lastTx /\ check.seen <= lastTx'
    BY <1>1, <1>2, <1>5 DEF ReadSound
  <2>2. SeenEntries' = SeenEntries
    <3>1. ASSUME NEW e \in entries'
          PROVE  e.tx <= check.seen => e \in entries
      BY <1>1, <1>2, <1>4, <2>1
    <3> QED BY <1>1, <3>1 DEF SeenEntries, EntriesOf
  <2> QED BY <1>5, <2>1, <2>2 DEF ReadSound
<1>6. CASE check.phase # "read"
  BY <1>6 DEF ReadSound
<1> QED BY <1>5, <1>6

\* The first read fetches the sum of all entries of the account.
LEMMA FirstReadSound ==
  ASSUME LedgerInv, NEW customer, NEW a \in Accounts, ReadStoredBalance(customer, a)
  PROVE  ReadSound'
<1>1. /\ accounts[a].balance \in Int /\ lastTx \in Nat
      /\ accounts[a].balance = Total(Change, EntriesOf(a))
      /\ \A e \in entries : e.tx <= lastTx
  BY DEF LedgerInv, LedgerTypeOK, Account, BalancesAddUp, DoubleEntry
<1>2. /\ check' = [phase |-> "read", account |-> a,
                   stored |-> accounts[a].balance, seen |-> lastTx]
      /\ UNCHANGED <<entries, lastTx>>
  BY DEF ReadStoredBalance, ledgerVars
<1>3. SeenEntries' = EntriesOf(a)
  BY <1>1, <1>2 DEF SeenEntries, EntriesOf
<1>4. check' \in [phase: Phases, account: Accounts, stored: Int, seen: Nat]
  BY <1>1, <1>2 DEF Phases
<1> QED BY <1>1, <1>2, <1>3, <1>4 DEF ReadSound

\* What is posted between the reads is what the verdict depends on.
LEMMA VerdictTellsPostings ==
  ASSUME LedgerInv, ReadSound, CompareWithEntries
  PROVE  /\ ReadSound'
         /\ check'.phase = "MISMATCH" <=>
              MapThenSumSet(LAMBDA e : e.credit - e.debit, PostedBetween) # 0
<1> DEFINE a == check.account
           between == PostedBetween
           seen == SeenEntries
<1>1. /\ a \in Accounts /\ check.stored \in Int /\ check.seen \in Nat
      /\ check.stored = Total(Change, seen)
      /\ check \in [phase: Phases, account: Accounts, stored: Int, seen: Nat]
  BY DEF ReadSound, CompareWithEntries
<1>2. \A e \in entries : e.tx \in Nat
  BY DEF LedgerInv, LedgerTypeOK, Entry
<1>3. /\ between \in SUBSET EntriesOf(a) /\ seen \in SUBSET EntriesOf(a)
      /\ seen \cap between = {} /\ EntriesOf(a) = seen \union between
      /\ EntriesOf(a) \in SUBSET EntriesOf(a)
  BY <1>1, <1>2 DEF PostedBetween, SeenEntries, EntriesOf
<1>4. /\ IsFiniteSet(seen) /\ \A e \in seen : Change[e] \in Int
      /\ IsFiniteSet(between) /\ \A e \in between : Change[e] \in Int
      /\ MapThenSumSet(LAMBDA e : e.credit - e.debit, between) = Total(Change, between)
      /\ Total(Change, between) \in Int
      /\ CalculatedBalance(a) = Total(Change, EntriesOf(a))
  <2> HIDE DEF between, seen, a
  <2>1. /\ IsFiniteSet(seen) /\ \A e \in seen : Change[e] \in Int
    BY <1>1, <1>3, AccountSums
  <2>2. /\ IsFiniteSet(between) /\ \A e \in between : Change[e] \in Int
        /\ MapThenSumSet(LAMBDA e : e.credit - e.debit, between) = Total(Change, between)
        /\ Total(Change, between) \in Int
    BY <1>1, <1>3, AccountSums
  <2>3. CalculatedBalance(a) = Total(Change, EntriesOf(a))
    BY <1>1, <1>3, AccountSums DEF CalculatedBalance
  <2> QED BY <2>1, <2>2, <2>3
<1>5. CalculatedBalance(a) = check.stored + Total(Change, between)
  <2> HIDE DEF between, seen, a
  <2>1. seen \cap between = {} /\ EntriesOf(a) = seen \union between
    BY <1>3
  <2>2. /\ IsFiniteSet(seen) /\ \A e \in seen : Change[e] \in Int
        /\ IsFiniteSet(between) /\ \A e \in between : Change[e] \in Int
    BY <1>4
  <2>3. Total(Change, seen \union between) = Total(Change, seen) + Total(Change, between)
    BY <2>1, <2>2, TotalOfUnion
  <2> QED BY <1>1, <1>4, <2>1, <2>3
<1>6. check'.phase = IF CalculatedBalance(a) = check.stored THEN "MATCHED" ELSE "MISMATCH"
  BY <1>1 DEF CompareWithEntries
<1>7. ReadSound'
  BY <1>1 DEF CompareWithEntries, ReadSound, Phases
<1> HIDE DEF a, between
<1>8. check'.phase = "MISMATCH" <=> Total(Change, between) # 0
  <2>1. check.stored \in Int /\ Total(Change, between) \in Int
    BY <1>1, <1>4
  <2>2. CalculatedBalance(a) = check.stored <=> Total(Change, between) = 0
    BY <1>5, <2>1
  <2> QED BY <1>6, <2>2
<1> QED BY <1>4, <1>7, <1>8 DEF between

\* The ledger under reconciliation stays sound, and so does what was read.
LEMMA ReconciliationStep ==
  ASSUME LedgerAssumption, LedgerInv, ReadSound,
         [ReconciliationNext]_reconciliationVars
  PROVE  LedgerInv' /\ ReadSound'
<1>1. [LedgerNext]_ledgerVars
  BY DEF ReconciliationNext, reconciliationVars, ledgerVars, ReadStoredBalance,
       CompareWithEntries, Answer
<1>2. LedgerInv'
  BY <1>1, LedgerNextSound, LedgerStutterSound
<1>3. CASE UNCHANGED check
  BY <1>1, <1>2, <1>3, LedgerKeepsRead
<1>4. CASE \E customer \in Customers, a \in Accounts : ReadStoredBalance(customer, a)
  BY <1>2, <1>4, FirstReadSound
<1>5. CASE CompareWithEntries
  BY <1>2, <1>5, VerdictTellsPostings
<1>6. CASE Answer
  BY <1>2, <1>6 DEF Answer, ReadSound, Idle, Phases, LedgerAssumption
<1>7. UNCHANGED reconciliationVars => UNCHANGED check
  BY DEF reconciliationVars
<1> QED BY <1>2, <1>3, <1>4, <1>5, <1>6, <1>7 DEF ReconciliationNext

\* ReconcileAccount (ledger_repository.go) answers MISMATCH exactly when the
\* entries that commit between its two statements do not cancel out: a quiet
\* account is never reported, and no difference from before the request is hidden.
THEOREM RaceExplainsVerdict == ReconciliationSpec => VerdictExplainedByRace
<1>1. ReconciliationInit => LedgerInv /\ ReadSound
  <2>1. LedgerInit => LedgerInv
    BY LedgerAssumption, LedgerInitSound
  <2>2. check = Idle => ReadSound
    BY LedgerAssumption DEF Idle, ReadSound, Phases
  <2> QED BY <2>1, <2>2 DEF ReconciliationInit
<1>2. LedgerInv /\ ReadSound /\ [ReconciliationNext]_reconciliationVars
        => LedgerInv' /\ ReadSound'
  BY LedgerAssumption, ReconciliationStep
<1>3. ASSUME LedgerInv, ReadSound, [ReconciliationNext]_reconciliationVars, Verdict
      PROVE  check'.phase = "MISMATCH" <=>
               MapThenSumSet(LAMBDA e : e.credit - e.debit, PostedBetween) # 0
  <2>1. CompareWithEntries
    BY <1>3 DEF Verdict, ReconciliationNext, reconciliationVars, ReadStoredBalance, Answer
  <2> QED BY <1>3, <2>1, VerdictTellsPostings
<1> QED BY <1>1, <1>2, <1>3, PTL DEF ReconciliationSpec, VerdictExplainedByRace

-----------------------------------------------------------------------------
(* Payment orders.                                                          *)

\* What the customer has decided, if there was anything to decide.
Consented(p) ==
  p.decided /\ (p.vop # "MATCH" => p.overridden /\ p.accepted)

\* A row of payment_orders, taken by itself.
RowSound(p) ==
  /\ p.status # "NONE" => p.source \in Accounts
  /\ p.schedule # "SCHEDULED" => p.wait <= 0
  /\ p.status \in {"SCHEDULED", "PROCESSING", "BOOKED"} /\ p.schedule # "STANDING"
       => Consented(p)
  /\ p.status = "PROCESSING" => p.age >= 0 /\ p.wait <= 0
  /\ p.status = "BOOKED" <=> p.ledgerTx # 0

\* The row and the ledger.
MoneySound(o) ==
  EntriesFor(o) = IF orders[o].status = "BOOKED" THEN BookedPair(orders[o], o) ELSE {}

\* The inductive invariant.
PaymentsInv ==
  /\ LedgerInv
  /\ orders \in [Orders -> Order]
  /\ outbox = [o \in Orders |-> outbox[o]]
  /\ \A o \in Orders : RowSound(orders[o]) /\ MoneySound(o)

\* An order that is settled waits no longer than this.
LatestWait(p) == IF p.status = "PROCESSING" THEN 0 ELSE Skew

\* What a step may do to the row of an order.
RowStep(p, r) ==
  /\ p.status \in Terminal => r.status = p.status
  /\ r.status # p.status =>
       /\ r.status = "PROCESSING" => p.wait <= 0
       /\ r.status \in {"BOOKED", "FAILED"} => p.wait <= LatestWait(p)
  /\ p.status = "PROCESSING" /\ r.status = "SCHEDULED" => p.age > StaleAfter

\* What a step may do to an order, its entries and its events.
OrderStep(o) ==
  /\ RowStep(orders[o], orders'[o])
  /\ orders[o].status \in Terminal =>
       EntriesFor(o)' = EntriesFor(o) /\ outbox'[o] = outbox[o]

PaymentStepSound ==
  PaymentsInv' /\ FrozenStep /\ \A o \in Orders : OrderStep(o)

USE DEF PaymentStatus, Terminal

-----------------------------------------------------------------------------
(* The ledger *)

\* A posting for nobody's order.
LEMMA PostedForNoOrder ==
  ASSUME LedgerAssumption, NEW table, NEW d, NEW c, NEW n,
         PostOn(table, d, c, n, NoOrder), NEW o \in Orders
  PROVE  EntriesFor(o)' = EntriesFor(o)
BY DEF PostOn, EntriesFor, LedgerAssumption

\* The ledger's own use cases post for no order.
LEMMA LedgerPostsForNoOrder ==
  ASSUME LedgerAssumption, LedgerNext, NEW o \in Orders
  PROVE  EntriesFor(o)' = EntriesFor(o)
<1>1. \/ UNCHANGED entries
      \/ \E table, d, c, n : PostOn(table, d, c, n, NoOrder)
  BY DEF LedgerNext, OperatorStep, CustomerStep, Deposit, Withdraw, DepositTx, WithdrawTx,
       AdjustBalanceAsAdmin, UpdateAdminAccountStatus, CreateFundedCustomer,
       CreateAccount, DeleteAccount, Transfer, Post
<1> QED BY <1>1, PostedForNoOrder DEF EntriesFor

\* A use case of the ledger leaves payment orders alone.
LEMMA LedgerStepSound ==
  ASSUME LedgerAssumption, PaymentsInv, LedgerStep
  PROVE  PaymentStepSound
<1>1. LedgerInv' /\ FrozenStep
  BY LedgerNextSound DEF LedgerStep, PaymentsInv
<1>2. \A o \in Orders : EntriesFor(o)' = EntriesFor(o)
  BY LedgerPostsForNoOrder DEF LedgerStep
<1>3. orders' = orders /\ outbox' = outbox
  BY DEF LedgerStep, paymentVars
<1>4. \A o \in Orders : RowSound(orders'[o]) /\ MoneySound(o)'
  BY <1>2, <1>3 DEF PaymentsInv, MoneySound, BookedPair, Destination
<1> QED BY <1>1, <1>2, <1>3, <1>4 DEF PaymentStepSound, PaymentsInv, OrderStep, RowStep

-----------------------------------------------------------------------------
(* Steps that post nothing *)

\* What it takes: rows stay sound and what was paid is not touched.
QuietRow(p, r) ==
  /\ RowSound(r)
  /\ RowStep(p, r)
  /\ r.status = "BOOKED" => p.status = "BOOKED"
  /\ p.status = "BOOKED" =>
       /\ r.ledgerTx = p.ledgerTx /\ r.source = p.source
       /\ r.beneficiary = p.beneficiary /\ r.amount = p.amount

\* A step that posts nothing and reports nothing.
LEMMA QuietPaymentStep ==
  ASSUME PaymentsInv, UNCHANGED <<ledgerVars, outbox>>, orders' \in [Orders -> Order],
         \A o \in Orders : QuietRow(orders[o], orders'[o])
  PROVE  PaymentStepSound
<1>1. LedgerInv' /\ FrozenStep
  BY LedgerStutterSound DEF PaymentsInv
<1>2. \A o \in Orders : EntriesFor(o)' = EntriesFor(o)
  BY DEF EntriesFor, ledgerVars
<1>3. ASSUME NEW o \in Orders
      PROVE  MoneySound(o)'
  BY <1>2, <1>3 DEF PaymentsInv, MoneySound, QuietRow, RowStep, BookedPair, Destination
<1> QED BY <1>1, <1>2, <1>3 DEF PaymentStepSound, PaymentsInv, OrderStep, QuietRow

\* A step that leaves the orders alone, too.
LEMMA NoOrderStep ==
  ASSUME PaymentsInv, UNCHANGED <<ledgerVars, orders, outbox>>
  PROVE  PaymentStepSound
BY QuietPaymentStep DEF PaymentsInv, QuietRow, RowStep

\* A step that changes one row.
LEMMA OneRowStep ==
  ASSUME PaymentsInv, UNCHANGED <<ledgerVars, outbox>>, NEW o \in Orders, NEW r \in Order,
         orders' = [orders EXCEPT ![o] = r], QuietRow(orders[o], r)
  PROVE  PaymentStepSound
BY QuietPaymentStep DEF PaymentsInv, QuietRow, RowStep

-----------------------------------------------------------------------------
(* Rows *)

\* A row with another status.
LEMMA StatusRow ==
  ASSUME NEW p \in Order, NEW s \in PaymentStatus, NEW r, r = [p EXCEPT !.status = s]
  PROVE  /\ r \in Order
         /\ r.status = s /\ r.owner = p.owner /\ r.source = p.source
         /\ r.beneficiary = p.beneficiary /\ r.amount = p.amount
         /\ r.schedule = p.schedule /\ r.wait = p.wait /\ r.vop = p.vop
         /\ r.decided = p.decided /\ r.overridden = p.overridden
         /\ r.accepted = p.accepted /\ r.ledgerTx = p.ledgerTx /\ r.age = p.age
BY DEF Order

\* A row with another status and age.
Claimed(p, s, n) == [p EXCEPT !.status = s, !.age = n]

\* It is well typed, and says the same otherwise.
LEMMA ClaimedRow ==
  ASSUME PaymentsAssumption, NEW p \in Order, NEW s \in PaymentStatus,
         NEW n \in -1..StaleAfter + 1, NEW r, r = Claimed(p, s, n)
  PROVE  /\ r \in Order
         /\ r.status = s /\ r.owner = p.owner /\ r.source = p.source
         /\ r.beneficiary = p.beneficiary /\ r.amount = p.amount
         /\ r.schedule = p.schedule /\ r.wait = p.wait /\ r.vop = p.vop
         /\ r.decided = p.decided /\ r.overridden = p.overridden
         /\ r.accepted = p.accepted /\ r.ledgerTx = p.ledgerTx /\ r.age = n
BY DEF Order, Claimed

\* A row with another wait and age.
Older(p, m, n) == [p EXCEPT !.wait = m, !.age = n]

\* It is well typed, and says the same otherwise.
LEMMA OlderRow ==
  ASSUME PaymentsAssumption, NEW p \in Order, NEW m \in -Skew..MaxWait,
         NEW n \in -1..StaleAfter + 1, NEW r, r = Older(p, m, n)
  PROVE  /\ r \in Order
         /\ r.status = p.status /\ r.owner = p.owner /\ r.source = p.source
         /\ r.beneficiary = p.beneficiary /\ r.amount = p.amount
         /\ r.schedule = p.schedule /\ r.wait = m /\ r.vop = p.vop
         /\ r.decided = p.decided /\ r.overridden = p.overridden
         /\ r.accepted = p.accepted /\ r.ledgerTx = p.ledgerTx /\ r.age = n
BY DEF Order, Older

\* A row that has been booked is well typed, and says the same otherwise.
LEMMA BookedRow ==
  ASSUME NEW p \in Order, NEW t \in Nat,
         NEW r, r = MarkPaymentBooked(p, t)
  PROVE  /\ r \in Order
         /\ r.status = "BOOKED" /\ r.owner = p.owner /\ r.source = p.source
         /\ r.beneficiary = p.beneficiary /\ r.amount = p.amount
         /\ r.schedule = p.schedule /\ r.wait = p.wait /\ r.vop = p.vop
         /\ (r.decided <=> p.decided) /\ (r.overridden <=> p.overridden)
         /\ (r.accepted <=> p.accepted) /\ r.ledgerTx = t
BY DEF Order, MarkPaymentBooked

\* A new row, written out.
FreshRow(s, u, a, b, n, k, m, v) ==
  [status |-> s, owner |-> u, source |-> a, beneficiary |-> b, amount |-> n,
   schedule |-> k, wait |-> m, vop |-> v, decided |-> FALSE,
   overridden |-> FALSE, accepted |-> FALSE, ledgerTx |-> 0, age |-> -1]

\* Such a row is well typed.
LEMMA FreshRowTyped ==
  ASSUME PaymentsAssumption, NEW s \in PaymentStatus, NEW u \in Customers \union {NoOwner},
         NEW a \in Accounts, NEW b \in Payees, NEW n \in Nat, NEW k \in Schedule,
         NEW m \in -Skew..MaxWait, NEW v \in VoPResult
  PROVE  FreshRow(s, u, a, b, n, k, m, v) \in Order
<1>1. -1 \in -1..StaleAfter + 1
  BY DEF PaymentsAssumption
<1>2. a \in Accounts \union {NoAccount} /\ b \in Accounts \union {NoAccount}
  BY DEF Payees
<1> QED BY <1>1, <1>2 DEF Order, FreshRow

\* What such a row says.
LEMMA FreshRowFields ==
  ASSUME NEW s, NEW u, NEW a, NEW b, NEW n, NEW k, NEW m, NEW v
  PROVE  LET r == FreshRow(s, u, a, b, n, k, m, v) IN
         r.status = s /\ r.source = a /\ r.schedule = k /\ r.wait = m /\ r.ledgerTx = 0
BY DEF FreshRow

-----------------------------------------------------------------------------
(* Customers *)

\* CreatePayment inserts a row that waits for its confirmation.
LEMMA CreatePaymentSound ==
  ASSUME LedgerAssumption, PaymentsAssumption, PaymentsInv, NEW u \in Customers,
         NEW o \in Orders, NEW a \in Accounts, NEW b \in Payees, NEW n \in Amounts,
         NEW k \in {"IMMEDIATE", "SCHEDULED"}, NEW m \in -Skew..MaxWait, NEW v \in VoPResult,
         CreatePayment(u, o, a, b, n, k, m, v)
  PROVE  PaymentStepSound
<1>1. PICK r : r = [Unused EXCEPT !.status = "AWAITING_CONFIRMATION", !.owner = u,
                       !.source = a, !.beneficiary = b, !.amount = n, !.schedule = k,
                       !.wait = m, !.vop = v]
  OBVIOUS
<1>2. r = FreshRow("AWAITING_CONFIRMATION", u, a, b, n, k, m, v)
  BY <1>1 DEF Unused, FreshRow
<1>3. orders' = [orders EXCEPT ![o] = r] /\ orders[o].status = "NONE"
      /\ (k = "IMMEDIATE" => m = -Skew) /\ UNCHANGED <<ledgerVars, outbox>>
  BY <1>1 DEF CreatePayment, PayeeFound
<1>4. r \in Order /\ r.status = "AWAITING_CONFIRMATION" /\ r.source = a
      /\ r.schedule = k /\ r.wait = m /\ r.ledgerTx = 0
  <2>1. n \in Nat /\ k \in Schedule
    BY DEF LedgerAssumption, Schedule
  <2> QED BY <1>2, <2>1, FreshRowTyped, FreshRowFields
<1>5. QuietRow(orders[o], r)
  BY <1>3, <1>4 DEF QuietRow, RowSound, RowStep
<1> QED BY <1>3, <1>4, <1>5, OneRowStep

\* CancelPayment ends what is not claimed.
LEMMA CancelPaymentSound ==
  ASSUME PaymentsInv, NEW u \in Customers, NEW o \in Orders, CancelPayment(u, o)
  PROVE  PaymentStepSound
<1> DEFINE p == orders[o]
           r == [p EXCEPT !.status = "CANCELLED"]
<1>1. orders' = [orders EXCEPT ![o] = r] /\ UNCHANGED <<ledgerVars, outbox>>
      /\ p.status \in {"DRAFT", "AWAITING_CONFIRMATION", "SCHEDULED"}
  BY DEF CancelPayment, CancelPaymentOrder
<1>2. p \in Order /\ RowSound(p)
  BY DEF PaymentsInv
<1> HIDE DEF p, r
<1>3. r \in Order /\ r.status = "CANCELLED" /\ r.source = p.source
      /\ r.schedule = p.schedule /\ r.wait = p.wait /\ r.ledgerTx = p.ledgerTx
  BY <1>2, StatusRow DEF r
<1>4. QuietRow(p, r)
  BY <1>1, <1>2, <1>3 DEF QuietRow, RowSound, RowStep
<1> QED BY <1>1, <1>3, <1>4, OneRowStep DEF p

-----------------------------------------------------------------------------
(* The worker and time *)

\* RecoverStalePayments puts stale claims back.
LEMMA RecoverSound ==
  ASSUME PaymentsAssumption, PaymentsInv, NEW w \in Workers, RecoverStalePayments(w)
  PROVE  PaymentStepSound
<1>1. UNCHANGED <<ledgerVars, outbox>>
  BY DEF RecoverStalePayments
<1>2. ASSUME NEW o \in Orders
      PROVE  orders'[o] \in Order /\ QuietRow(orders[o], orders'[o])
  <2> DEFINE p == orders[o]
  <2>1. p \in Order /\ RowSound(p)
    BY DEF PaymentsInv
  <2>2. CASE Stale(p)
    <3> DEFINE r == Claimed(p, "SCHEDULED", -1)
    <3>1. orders'[o] = r /\ p.status = "PROCESSING" /\ p.age > StaleAfter
      BY <2>2 DEF RecoverStalePayments, Stale, Claimed
    <3> HIDE DEF p, r
    <3>2. -1 \in -1..StaleAfter + 1
      BY DEF PaymentsAssumption
    <3>3. /\ r \in Order /\ r.status = "SCHEDULED" /\ r.source = p.source
          /\ r.schedule = p.schedule /\ r.wait = p.wait /\ r.vop = p.vop
          /\ r.decided = p.decided /\ r.overridden = p.overridden
          /\ r.accepted = p.accepted /\ r.ledgerTx = p.ledgerTx
      BY <2>1, <3>2, ClaimedRow DEF r
    <3>4. QuietRow(p, r)
      BY <2>1, <3>1, <3>3 DEF QuietRow, RowSound, RowStep, Consented
    <3> QED BY <3>1, <3>3, <3>4 DEF p
  <2>3. CASE ~Stale(p)
    <3>1. orders'[o] = p
      BY <2>3 DEF RecoverStalePayments
    <3> QED BY <2>1, <3>1 DEF QuietRow, RowStep
  <2> QED BY <2>2, <2>3
<1>3. orders' \in [Orders -> Order]
  BY <1>2 DEF RecoverStalePayments
<1> QED BY <1>1, <1>2, <1>3, QuietPaymentStep

\* An occurrence of a standing order is due and needs nobody's consent.
LEMMA MaterializeSound ==
  ASSUME LedgerAssumption, PaymentsAssumption, PaymentsInv, NEW w \in Workers,
         NEW o \in Orders, NEW a \in Accounts, NEW b \in Payees, NEW n \in Amounts,
         MaterializeOccurrence(w, o, a, b, n)
  PROVE  PaymentStepSound
<1> DEFINE v == IF b = NoAccount THEN "OTHER" ELSE "MATCH"
<1>1. PICK r : r = [Unused EXCEPT !.status = "SCHEDULED", !.owner = accounts[a].owner,
                       !.source = a, !.beneficiary = b, !.amount = n,
                       !.schedule = "STANDING", !.vop = v]
  OBVIOUS
<1>2. r = FreshRow("SCHEDULED", accounts[a].owner, a, b, n, "STANDING", -Skew, v)
  BY <1>1 DEF Unused, FreshRow
<1>3. orders' = [orders EXCEPT ![o] = r] /\ orders[o].status = "NONE"
      /\ UNCHANGED <<ledgerVars, outbox>>
  BY <1>1 DEF MaterializeOccurrence, PayeeFound
<1>4. r \in Order /\ r.status = "SCHEDULED" /\ r.source = a
      /\ r.schedule = "STANDING" /\ r.wait = -Skew /\ r.ledgerTx = 0
  <2>1. /\ n \in Nat /\ "STANDING" \in Schedule /\ v \in VoPResult /\ -Skew \in -Skew..MaxWait
        /\ accounts[a].owner \in Customers \union {NoOwner}
    BY DEF LedgerAssumption, PaymentsAssumption, Schedule, VoPResult, PaymentsInv,
           LedgerInv, LedgerTypeOK, Account
  <2> HIDE DEF v
  <2> QED BY <1>2, <2>1, FreshRowTyped, FreshRowFields
<1>5. QuietRow(orders[o], r)
  BY <1>3, <1>4 DEF QuietRow, RowSound, RowStep
<1> QED BY <1>3, <1>4, <1>5, OneRowStep

\* ClaimDuePaymentOrders takes orders that are due.
LEMMA ClaimSound ==
  ASSUME PaymentsAssumption, PaymentsInv, NEW w \in Workers, NEW batch \in SUBSET Orders,
         ClaimDuePaymentOrders(w, batch)
  PROVE  PaymentStepSound
<1>1. UNCHANGED <<ledgerVars, outbox>>
  BY DEF ClaimDuePaymentOrders
<1>2. ASSUME NEW o \in Orders
      PROVE  orders'[o] \in Order /\ QuietRow(orders[o], orders'[o])
  <2> DEFINE p == orders[o]
  <2>1. p \in Order /\ RowSound(p)
    BY DEF PaymentsInv
  <2>2. CASE o \in batch
    <3> DEFINE r == Claimed(p, "PROCESSING", 0)
    <3>1. orders'[o] = r /\ p.status = "SCHEDULED" /\ p.wait <= 0
      BY <2>2 DEF ClaimDuePaymentOrders, Due, Claimed
    <3> HIDE DEF p, r
    <3>2. 0 \in -1..StaleAfter + 1
      BY DEF PaymentsAssumption
    <3>3. /\ r \in Order /\ r.status = "PROCESSING" /\ r.source = p.source
          /\ r.schedule = p.schedule /\ r.wait = p.wait /\ r.vop = p.vop
          /\ r.decided = p.decided /\ r.overridden = p.overridden
          /\ r.accepted = p.accepted /\ r.ledgerTx = p.ledgerTx /\ r.age = 0
      BY <2>1, <3>2, ClaimedRow DEF r
    <3>4. QuietRow(p, r)
      BY <2>1, <3>1, <3>3 DEF QuietRow, RowSound, RowStep, Consented
    <3> QED BY <3>1, <3>3, <3>4 DEF p
  <2>3. CASE o \notin batch
    <3>1. orders'[o] = p
      BY <2>3 DEF ClaimDuePaymentOrders
    <3> QED BY <2>1, <3>1 DEF QuietRow, RowStep
  <2> QED BY <2>2, <2>3
<1>3. orders' \in [Orders -> Order]
  BY <1>2 DEF ClaimDuePaymentOrders
<1> QED BY <1>1, <1>2, <1>3, QuietPaymentStep

\* Time changes nothing but waits and ages.
LEMMA TickSound ==
  ASSUME PaymentsAssumption, PaymentsInv, Tick
  PROVE  PaymentStepSound
<1>1. UNCHANGED <<ledgerVars, outbox>>
  BY DEF Tick
<1>2. ASSUME NEW o \in Orders
      PROVE  orders'[o] \in Order /\ QuietRow(orders[o], orders'[o])
  <2> DEFINE p == orders[o]
             m == IF Waiting(o) /\ p.wait > -Skew THEN p.wait - 1 ELSE p.wait
             n == IF p.age \in 0..StaleAfter THEN p.age + 1 ELSE p.age
             r == Older(p, m, n)
  <2>1. p \in Order /\ RowSound(p)
    BY DEF PaymentsInv
  <2>2. orders'[o] = r
    BY DEF Tick, Older
  <2>3. /\ p.wait \in -Skew..MaxWait /\ p.age \in -1..StaleAfter + 1
        /\ MaxWait \in Nat /\ Skew \in Nat /\ StaleAfter \in Nat
    BY <2>1 DEF Order, PaymentsAssumption
  <2>4. /\ m \in -Skew..MaxWait /\ n \in -1..StaleAfter + 1
        /\ m <= p.wait
        /\ p.age >= 0 => n >= 0
    BY <2>3
  <2> HIDE DEF p, m, n, r
  <2>5. /\ r \in Order
        /\ r.status = p.status /\ r.source = p.source /\ r.beneficiary = p.beneficiary
        /\ r.amount = p.amount /\ r.schedule = p.schedule /\ r.wait = m /\ r.vop = p.vop
        /\ r.decided = p.decided /\ r.overridden = p.overridden
        /\ r.accepted = p.accepted /\ r.ledgerTx = p.ledgerTx /\ r.age = n
    BY <2>1, <2>4, OlderRow DEF r
  <2>6. QuietRow(p, r)
    <3>1. p.wait \in Int /\ m \in Int /\ m <= p.wait
      BY <2>3, <2>4
    <3> QED BY <2>1, <2>4, <2>5, <3>1 DEF QuietRow, RowSound, RowStep, Consented
  <2> QED BY <2>2, <2>5, <2>6 DEF p
<1>3. orders' \in [Orders -> Order]
  BY <1>2 DEF Tick
<1> QED BY <1>1, <1>2, <1>3, QuietPaymentStep

-----------------------------------------------------------------------------
(* Booking *)

\* An order that may be settled: it is due and consented to, and nobody has
\* settled it before.
MaySettle(o, p) ==
  /\ p \in Order
  /\ p.source \in Accounts
  /\ p.status = "PROCESSING" /\ p.ledgerTx = 0
  /\ p.schedule # "SCHEDULED" => p.wait <= 0
  /\ p.schedule # "STANDING" => Consented(p)
  /\ orders[o].status \notin Terminal /\ orders[o].wait <= LatestWait(orders[o])

\* bookPaymentTx makes a sound posting.
LEMMA BookPostsSoundly ==
  ASSUME LedgerAssumption, PaymentsInv, NEW o \in Orders, NEW p, MaySettle(o, p), Book(o, p)
  PROVE  LedgerInv' /\ FrozenStep
<1>0. Destination(p) \in Accounts /\ p.source \in Accounts
  BY DEF LedgerAssumption, Destination, MaySettle, Order
<1>1. p.amount \in Nat
  BY DEF MaySettle, Order
<1>2. /\ ~(p.amount <= 0) /\ p.source # Destination(p)
      /\ CustomerCanOperate(p.owner, p.source)
      /\ accounts[p.source].status = "ACTIVE"
      /\ accounts[Destination(p)].status = "ACTIVE"
      /\ ~(accounts[p.source].available < p.amount)
  <2>1. PlanCustomerTransfer(p.owner, p.source, Destination(p),
                             accounts[p.source].available, p.amount, FALSE, TRUE) = "OK"
    BY DEF Book, BookingVerdict, CreatePaymentEntries
  <2> QED BY <2>1 DEF PlanCustomerTransfer
<1>3. /\ accounts[p.source].available = accounts[p.source].balance
      /\ accounts[p.source].balance \in Int
      /\ adminAudit \in [Accounts -> AuditTrail]
  BY <1>0 DEF PaymentsInv, LedgerInv, AccountsSound, LedgerTypeOK, Account
<1>4. SoundPosting(accounts, p.source, Destination(p), p.amount, o)
  BY <1>0, <1>1, <1>2, <1>3 DEF SoundPosting, LedgerAssumption
<1>5. /\ Post(p.source, Destination(p), p.amount, o) /\ adminAudit' = adminAudit
      /\ p.amount \in Nat \ {0} /\ o \in Orders \union {NoOrder} /\ LedgerInv
  BY <1>1, <1>2 DEF Book, PaymentsInv, CreatePaymentEntries
<1> QED BY <1>0, <1>3, <1>4, <1>5, PlainPost

\* A booking: the row and the two entries tell the same.
LEMMA BookSound ==
  ASSUME LedgerAssumption, PaymentsInv, NEW o \in Orders, NEW p, MaySettle(o, p), Book(o, p)
  PROVE  PaymentStepSound
<1> DEFINE r == MarkPaymentBooked(p, lastTx')
<1>1. LedgerInv' /\ FrozenStep
  BY BookPostsSoundly
<1>2. /\ orders' = [orders EXCEPT ![o] = r]
      /\ outbox' = [outbox EXCEPT ![o] = outbox[o] \o BookedEvents(p)]
  BY DEF Book, Enqueue, MarkPaymentBooked, CreatePaymentEntries
<1>3. lastTx \in Nat /\ lastTx' = lastTx + 1
  BY DEF Book, Post, PostOn, PaymentsInv, LedgerInv, LedgerTypeOK, CreatePaymentEntries
<1> HIDE DEF r
<1>4. /\ r \in Order
      /\ r.status = "BOOKED" /\ r.source = p.source /\ r.beneficiary = p.beneficiary
      /\ r.amount = p.amount /\ r.schedule = p.schedule /\ r.wait = p.wait
      /\ r.vop = p.vop /\ (r.decided <=> p.decided)
      /\ (r.overridden <=> p.overridden) /\ (r.accepted <=> p.accepted)
      /\ r.ledgerTx = lastTx'
  BY <1>3, BookedRow DEF r, MaySettle
<1>5. RowSound(r)
  BY <1>3, <1>4 DEF RowSound, MaySettle, Consented
<1>6. entries' = entries \union BookedPair(r, o)
  BY <1>4 DEF Book, Post, PostOn, BookedPair, Destination, CreatePaymentEntries
<1>7. EntriesFor(o) = {}
  BY DEF PaymentsInv, MoneySound, MaySettle
<1>8. EntriesFor(o)' = BookedPair(r, o)
  BY <1>6, <1>7 DEF EntriesFor, BookedPair
<1>9. \A q \in Orders \ {o} : EntriesFor(q)' = EntriesFor(q)
  BY <1>6 DEF EntriesFor, BookedPair
<1>10. orders \in [Orders -> Order] /\ outbox = [q \in Orders |-> outbox[q]]
  BY DEF PaymentsInv
<1>11. /\ orders' \in [Orders -> Order] /\ orders'[o] = r
       /\ outbox' = [q \in Orders |-> outbox'[q]]
       /\ \A q \in Orders \ {o} : orders'[q] = orders[q] /\ outbox'[q] = outbox[q]
  BY <1>2, <1>4, <1>10
<1>12. ASSUME NEW q \in Orders
       PROVE  RowSound(orders'[q]) /\ MoneySound(q)' /\ OrderStep(q)
  <2>1. CASE q = o
    BY <1>4, <1>5, <1>8, <1>11, <2>1
       DEF MoneySound, BookedPair, Destination, OrderStep, RowStep, MaySettle
  <2>2. CASE q # o
    BY <1>9, <1>11, <2>2
       DEF PaymentsInv, MoneySound, BookedPair, Destination, OrderStep, RowStep
  <2> QED BY <2>1, <2>2
<1> QED BY <1>1, <1>11, <1>12 DEF PaymentStepSound, PaymentsInv

\* A rejection moves no money.
LEMMA FailSound ==
  ASSUME LedgerAssumption, PaymentsInv, NEW o \in Orders, NEW p, MaySettle(o, p), Fail(o, p)
  PROVE  PaymentStepSound
<1> DEFINE r == [p EXCEPT !.status = "FAILED"]
<1>1. /\ orders' = [orders EXCEPT ![o] = r]
      /\ outbox' = [outbox EXCEPT ![o] = outbox[o] \o FailedEvents(p)]
      /\ UNCHANGED ledgerVars
  BY DEF Fail, Enqueue, MarkPaymentFailed
<1>2. LedgerInv' /\ FrozenStep
  BY <1>1, LedgerStutterSound DEF PaymentsInv
<1>3. r \in Order /\ r.status = "FAILED" /\ r.source = p.source /\ r.ledgerTx = 0
      /\ r.schedule = p.schedule /\ r.wait = p.wait
  BY StatusRow DEF MaySettle
<1> HIDE DEF r
<1>4. RowSound(r)
  BY <1>3 DEF RowSound, MaySettle
<1>5. \A q \in Orders : EntriesFor(q)' = EntriesFor(q)
  BY <1>1 DEF EntriesFor, ledgerVars
<1>6. orders \in [Orders -> Order] /\ outbox = [q \in Orders |-> outbox[q]]
  BY DEF PaymentsInv
<1>7. /\ orders' \in [Orders -> Order] /\ orders'[o] = r
      /\ outbox' = [q \in Orders |-> outbox'[q]]
      /\ \A q \in Orders \ {o} : orders'[q] = orders[q] /\ outbox'[q] = outbox[q]
  BY <1>1, <1>3, <1>6
<1>8. ASSUME NEW q \in Orders
      PROVE  RowSound(orders'[q]) /\ MoneySound(q)' /\ OrderStep(q)
  <2>1. CASE q = o
    BY <1>3, <1>4, <1>5, <1>7, <2>1
       DEF PaymentsInv, MoneySound, OrderStep, RowStep, MaySettle
  <2>2. CASE q # o
    BY <1>5, <1>7, <2>2
       DEF PaymentsInv, MoneySound, BookedPair, Destination, OrderStep, RowStep
  <2> QED BY <2>1, <2>2
<1> QED BY <1>2, <1>7, <1>8 DEF PaymentStepSound, PaymentsInv

\* ConfirmPayment schedules what is not due and settles what is.
LEMMA ConfirmPaymentSound ==
  ASSUME LedgerAssumption, PaymentsAssumption, PaymentsInv, NEW u \in Customers, NEW o \in Orders,
         NEW acceptMismatch \in BOOLEAN, NEW ahead \in -Skew..Skew,
         ConfirmPayment(u, o, acceptMismatch, ahead)
  PROVE  PaymentStepSound
<1> DEFINE p == orders[o]
           later == p.schedule = "SCHEDULED" /\ p.wait > ahead
           target == IF later THEN "SCHEDULED" ELSE "PROCESSING"
           override == p.vop # "MATCH"
           accepts == override /\ acceptMismatch
           r == ConfirmPaymentOrder(p, target, override, accepts)
<1>1. /\ p.status = "AWAITING_CONFIRMATION"
      /\ override => acceptMismatch
      /\ \/ later /\ orders' = [orders EXCEPT ![o] = r] /\ UNCHANGED <<ledgerVars, outbox>>
         \/ ~later /\ Settle(o, r)
  BY DEF ConfirmPayment, ConfirmPaymentOrder
<1>2. p \in Order /\ RowSound(p) /\ p.wait \in Int
  BY DEF PaymentsInv, Order
<1>3. target \in PaymentStatus /\ override \in BOOLEAN /\ accepts \in BOOLEAN
      /\ (acceptMismatch => (accepts <=> override))
  OBVIOUS
<1> HIDE DEF p, target, override, accepts, r
<1>4. /\ r \in Order
      /\ r.status = target /\ r.source = p.source /\ r.beneficiary = p.beneficiary
      /\ r.schedule = p.schedule /\ r.wait = p.wait /\ r.vop = p.vop
      /\ r.decided /\ (r.overridden <=> override)
      /\ (r.accepted <=> accepts) /\ r.ledgerTx = p.ledgerTx
  BY <1>2, <1>3 DEF r, ConfirmPaymentOrder, Order
<1>5. Consented(r) /\ r.source \in Accounts /\ r.ledgerTx = 0
  BY <1>1, <1>2, <1>3, <1>4 DEF Consented, RowSound, override
<1>6. CASE later
  <2>1. QuietRow(p, r)
    BY <1>1, <1>2, <1>4, <1>5, <1>6 DEF QuietRow, RowSound, RowStep, target
  <2> QED BY <1>1, <1>4, <1>6, <2>1, OneRowStep DEF p
<1>7. CASE ~later
  <2>1. MaySettle(o, r)
    BY <1>1, <1>2, <1>4, <1>5, <1>7 DEF MaySettle, RowSound, LatestWait, PaymentsAssumption, p, target
  <2> QED BY <1>1, <1>7, <2>1, BookSound, FailSound DEF Settle
<1> QED BY <1>6, <1>7

\* processClaimedPayment settles what is still claimed.
LEMMA ProcessSound ==
  ASSUME LedgerAssumption, PaymentsInv, NEW w \in Workers, NEW o \in Orders,
         ProcessClaimedPayment(w, o)
  PROVE  PaymentStepSound
<1>1. CASE orders[o].status = "PROCESSING" /\ orders[o].ledgerTx = 0
  <2>1. MaySettle(o, orders[o])
    BY <1>1 DEF MaySettle, PaymentsInv, RowSound, LatestWait
  <2>2. Settle(o, orders[o])
    BY <1>1 DEF ProcessClaimedPayment
  <2> QED BY <2>1, <2>2, BookSound, FailSound DEF Settle
<1>2. CASE ~(orders[o].status = "PROCESSING" /\ orders[o].ledgerTx = 0)
  BY <1>2, NoOrderStep DEF ProcessClaimedPayment
<1> QED BY <1>1, <1>2

-----------------------------------------------------------------------------
(* The theorems *)

\* The migrated database is sound.
LEMMA PaymentsInitSound ==
  ASSUME LedgerAssumption, PaymentsAssumption, PaymentsInit
  PROVE  PaymentsInv
<1>1. LedgerInv
  BY LedgerInitSound DEF PaymentsInit
<1>2. Unused \in Order
  <2>1. -1 \in -1..StaleAfter + 1 /\ -Skew \in -Skew..MaxWait
    BY DEF PaymentsAssumption
  <2> QED BY <2>1 DEF Unused, Order, Schedule, VoPResult
<1>3. \A o \in Orders : orders[o] = Unused
  BY DEF PaymentsInit
<1>4. \A o \in Orders : EntriesFor(o) = {}
  BY DEF PaymentsInit, LedgerInit, EntriesFor
<1>5. RowSound(Unused) /\ Unused.status = "NONE"
  BY DEF RowSound, Unused
<1>6. \A o \in Orders : RowSound(orders[o]) /\ MoneySound(o)
  BY <1>3, <1>4, <1>5 DEF MoneySound
<1> QED BY <1>1, <1>2, <1>6 DEF PaymentsInv, PaymentsInit

\* Every step is sound: one case per action.
LEMMA PaymentsNextSound ==
  ASSUME LedgerAssumption, PaymentsAssumption, PaymentsInv, [PaymentsNext]_vars
  PROVE  PaymentStepSound
<1>1. ASSUME NEW u \in Customers, NEW o \in Orders, CustomerPaymentStep(u, o)
      PROVE  PaymentStepSound
  BY <1>1, CreatePaymentSound, ConfirmPaymentSound, CancelPaymentSound
     DEF CustomerPaymentStep
<1>2. ASSUME NEW w \in Workers, WorkerStep(w)
      PROVE  PaymentStepSound
  <2>1. CASE RecoverStalePayments(w)
    BY <2>1, RecoverSound
  <2>2. CASE MaterializeNothing(w) \/ MaterializationFails(w)
    BY <2>2, NoOrderStep DEF MaterializeNothing, MaterializationFails
  <2>3. CASE \E o \in Orders, a \in Accounts, b \in Payees, n \in Amounts :
               MaterializeOccurrence(w, o, a, b, n)
    BY <2>3, MaterializeSound
  <2>4. CASE ClaimStep(w)
    BY <2>4, ClaimSound DEF ClaimStep
  <2>5. CASE \E o \in Orders : ProcessClaimedPayment(w, o)
    BY <2>5, ProcessSound
  <2>6. CASE \E o \in Orders : ProcessingRolledBack(w, o)
    BY <2>6, NoOrderStep DEF ProcessingRolledBack
  <2>7. CASE WorkerStops(w)
    BY <2>7, NoOrderStep DEF WorkerStops
  <2> QED BY <1>2, <2>1, <2>2, <2>3, <2>4, <2>5, <2>6, <2>7 DEF WorkerStep
<1>3. CASE AuditStep
  BY <1>3, NoOrderStep DEF AuditStep, WriteAudit, LoseAudit
<1>4. CASE Tick
  BY <1>4, TickSound
<1>5. CASE LedgerStep
  BY <1>5, LedgerStepSound
<1>6. CASE JamOrRelease \/ UNCHANGED vars
  BY <1>6, NoOrderStep DEF JamOrRelease, vars, paymentVars
<1> QED BY <1>1, <1>2, <1>3, <1>4, <1>5, <1>6 DEF PaymentsNext

\* The inductive invariant holds in every state.
THEOREM PaymentsInvariant == PaymentsSpec => []PaymentsInv
<1>1. PaymentsInit => PaymentsInv
  BY LedgerAssumption, PaymentsAssumption, PaymentsInitSound
<1>2. PaymentsInv /\ [PaymentsNext]_vars => PaymentsInv'
  BY LedgerAssumption, PaymentsAssumption, PaymentsNextSound DEF PaymentStepSound
<1> QED BY <1>1, <1>2, PTL DEF PaymentsSpec

\* Money moves for an order once, when it is booked: two workers, recovered
\* claims and cancellations included (bookPaymentTx, RunDuePayments).
THEOREM MoneyMovesOnce == PaymentsSpec => []BookedExactlyOnce
<1>1. PaymentsInv => BookedExactlyOnce
  BY DEF PaymentsInv, RowSound, MoneySound, BookedExactlyOnce
<1> QED BY <1>1, PaymentsInvariant, PTL

\* No money without the customer's decision (ConfirmPayment).
THEOREM MoneyNeedsConsent == PaymentsSpec => []ConsentBeforeMoney
<1>1. PaymentsInv => ConsentBeforeMoney
  BY DEF PaymentsInv, RowSound, MoneySound, Consented, ConsentBeforeMoney
<1> QED BY <1>1, PaymentsInvariant, PTL

\* What is claimed is due and consented to (ClaimDuePaymentOrders).
THEOREM ClaimedOrdersAreDue == PaymentsSpec => []ProcessingIsClaimed
<1>1. PaymentsInv => ProcessingIsClaimed
  BY DEF PaymentsInv, RowSound, Consented, ProcessingIsClaimed
<1> QED BY <1>1, PaymentsInvariant, PTL

\* Payment orders overdraw no customer account, though bookPaymentTx looks at
\* the available balance only.
THEOREM PaymentsNeverOverdraw == PaymentsSpec => []NoOverdraft
<1>1. PaymentsInv => NoOverdraft
  BY DEF PaymentsInv, LedgerInv
<1> QED BY <1>1, PaymentsInvariant, PTL

\* Payment orders, which lock the accounts and update both cached figures, leave
\* every cached balance the sum of its entries (bookPaymentTx).
THEOREM PaymentsKeepLedgerTruth == PaymentsSpec => []CachedBalanceIsLedgerTruth
<1>1. PaymentsInv => CachedBalanceIsLedgerTruth
  BY BalancesAreTruth DEF PaymentsInv
<1> QED BY <1>1, PaymentsInvariant, PTL

\* Orders that are booked, failed or cancelled stay so.
THEOREM FinalStatesAreFinal == PaymentsSpec => TerminalIsFinal
<1>1. PaymentsInv /\ [PaymentsNext]_vars =>
        [\A o \in Orders :
           orders[o].status \in Terminal =>
             /\ orders'[o].status = orders[o].status
             /\ EntriesFor(o)' = EntriesFor(o)
             /\ outbox'[o] = outbox[o]]_vars
  BY LedgerAssumption, PaymentsAssumption, PaymentsNextSound
     DEF PaymentStepSound, OrderStep, RowStep
<1> QED BY <1>1, PaymentsInvariant, PTL DEF PaymentsSpec, TerminalIsFinal

\* By the database's clock no order is claimed before its time, none that was
\* claimed is settled before it, and a confirmation is ahead of it by no more
\* than the clocks differ (ConfirmPayment, ClaimDuePaymentOrders).
THEOREM OrdersAreNeverEarly == PaymentsSpec => NeverEarly
<1>1. PaymentsInv /\ [PaymentsNext]_vars =>
        [\A o \in Orders :
           orders'[o].status # orders[o].status =>
             /\ orders'[o].status = "PROCESSING" => orders[o].wait <= 0
             /\ orders'[o].status \in {"BOOKED", "FAILED"} =>
                  orders[o].wait <= IF orders[o].status = "PROCESSING" THEN 0 ELSE Skew]_vars
  BY LedgerAssumption, PaymentsAssumption, PaymentsNextSound
     DEF PaymentStepSound, OrderStep, RowStep, LatestWait
<1> QED BY <1>1, PaymentsInvariant, PTL DEF PaymentsSpec, NeverEarly

\* RecoverStalePayments takes no claim that is not stale.
THEOREM ClaimsLast == PaymentsSpec => ClaimsLastUntilStale
<1>1. PaymentsInv /\ [PaymentsNext]_vars =>
        [\A o \in Orders :
           /\ orders[o].status = "PROCESSING"
           /\ orders'[o].status = "SCHEDULED"
           => orders[o].age > StaleAfter]_vars
  BY LedgerAssumption, PaymentsAssumption, PaymentsNextSound
     DEF PaymentStepSound, OrderStep, RowStep
<1> QED BY <1>1, PaymentsInvariant, PTL DEF PaymentsSpec, ClaimsLastUntilStale

\* Payment orders leave blocked accounts alone, too.
THEOREM PaymentsKeepBlockedFrozen == PaymentsSpec => BlockedIsFrozen
<1>1. PaymentsInv /\ [PaymentsNext]_vars =>
        [\A a \in Accounts :
           accounts[a].status \in {"BLOCKED", "DELETED"} =>
             /\ accounts'[a].balance = accounts[a].balance
             /\ EntriesOf(a)' = EntriesOf(a)]_ledgerVars
  BY LedgerAssumption, PaymentsAssumption, PaymentsNextSound
     DEF PaymentStepSound, FrozenStep
<1> QED BY <1>1, PaymentsInvariant, PTL DEF PaymentsSpec, BlockedIsFrozen

-----------------------------------------------------------------------------
(* Reports: the audit trail and the outbox *)

\* The audit rows t of an order with row p, when "created" and "cancelled" of
\* its rows are still to be written.
TrailSound(p, t, created, cancelled) ==
  /\ Occurrences(t, "PAYMENT_BOOKED") = IF p.status = "BOOKED" THEN 1 ELSE 0
  /\ Occurrences(t, "PAYMENT_FAILED") = IF p.status = "FAILED" THEN 1 ELSE 0
  /\ Occurrences(t, "PAYMENT_CANCELLED") + cancelled
       <= IF p.status = "CANCELLED" THEN 1 ELSE 0
  /\ Occurrences(t, "PAYMENT_CREATED") + created
       <= IF p.status = "NONE" \/ p.schedule = "STANDING" THEN 0 ELSE 1

Unwritten(o, type) == IF <<o, type>> \in pendingAudit THEN 1 ELSE 0

\* The audit rows of an order.
AuditSound(o) ==
  TrailSound(orders[o], auditTrail[o], Unwritten(o, "PAYMENT_CREATED"),
             Unwritten(o, "PAYMENT_CANCELLED"))

\* The events of an order, which name the owner of an account that was there
\* when the order was made.
EventsSound(o) ==
  LET p == orders[o] IN
  /\ outbox[o] = CASE p.status = "BOOKED" -> BookedEvents(p)
                   [] p.status = "FAILED" -> FailedEvents(p)
                   [] OTHER -> << >>
  /\ p.status # "NONE" /\ p.beneficiary # NoAccount =>
       p.beneficiary \in Accounts /\ accounts[p.beneficiary].status # "ABSENT"

\* The inductive invariant of OutcomeReportedOnce.
ReportInv ==
  /\ PaymentsInv
  /\ auditTrail \in [Orders -> Seq(AuditType)]
  /\ pendingAudit \subseteq Orders \X {"PAYMENT_CREATED", "PAYMENT_CANCELLED"}
  /\ \A o \in Orders : AuditSound(o) /\ EventsSound(o)

\* Account ids are never used again, so that an account keeps its owner.
OwnersStay ==
  \A a \in Accounts :
    accounts[a].status # "ABSENT" =>
      /\ accounts'[a].status # "ABSENT"
      /\ accounts'[a].owner = accounts[a].owner
      /\ accounts'[a].system = accounts[a].system

\* What a report step keeps.
ReportStepSound(o) == AuditSound(o)' /\ EventsSound(o)'

\* One row more in the trail.
LEMMA RowWritten ==
  ASSUME NEW S, NEW t \in Seq(S), NEW x \in S, NEW y
  PROVE  /\ Occurrences(t, y) \in Nat
         /\ Occurrences(Append(t, x), y) = Occurrences(t, y) + (IF x = y THEN 1 ELSE 0)
<1> DEFINE D == {i \in DOMAIN t : t[i] = y}
           n == Len(t) + 1
           E == {i \in DOMAIN Append(t, x) : Append(t, x)[i] = y}
<1>1. /\ Len(t) \in Nat /\ DOMAIN t = 1..Len(t)
      /\ DOMAIN Append(t, x) = 1..n
      /\ Append(t, x)[n] = x
      /\ \A i \in 1..Len(t) : Append(t, x)[i] = t[i]
  OBVIOUS
<1>2. IsFiniteSet(D) /\ Cardinality(D) \in Nat
  <2>1. IsFiniteSet(1..Len(t))
    BY <1>1, FS_Interval
  <2>2. D \subseteq 1..Len(t)
    BY <1>1
  <2>3. IsFiniteSet(D)
    BY <2>1, <2>2, FS_Subset
  <2> QED BY <2>3, FS_CardinalityType
<1>3. n \notin D
  BY <1>1
<1>4. CASE x = y
  <2>1. E = D \cup {n}
    BY <1>1, <1>4
  <2>2. Cardinality(D \cup {n}) = Cardinality(D) + 1
    BY <1>2, <1>3, FS_AddElement
  <2> QED BY <1>2, <1>4, <2>1, <2>2 DEF Occurrences
<1>5. CASE x # y
  <2>1. E = D
    BY <1>1, <1>5
  <2>2. Cardinality(E) = Cardinality(D)
    BY <2>1
  <2>3. Occurrences(t, y) = Cardinality(D) /\ Occurrences(Append(t, x), y) = Cardinality(E)
    BY DEF Occurrences
  <2> HIDE DEF D, E
  <2> QED BY <1>2, <1>5, <2>2, <2>3
<1> QED BY <1>4, <1>5

\* Nothing is written in an empty trail.
LEMMA NoRowWritten == ASSUME NEW y PROVE Occurrences(<< >>, y) = 0
<1>1. {i \in DOMAIN << >> : << >>[i] = y} = {}
  OBVIOUS
<1> QED BY <1>1, FS_EmptySet DEF Occurrences

-----------------------------------------------------------------------------
(* Accounts *)

\* A posting changes balances only.
LEMMA PostKeepsOwners ==
  ASSUME LedgerAssumption, NEW table \in [Accounts -> Account],
         NEW d \in Accounts, NEW c \in Accounts, d # c, NEW n \in Nat, NEW o,
         PostOn(table, d, c, n, o), NEW a \in Accounts
  PROVE  /\ accounts'[a].status = table[a].status
         /\ accounts'[a].owner = table[a].owner
         /\ accounts'[a].system = table[a].system
BY BalancesAfterPost DEF PostOn

\* No use case of the ledger gives an account another owner.
LEMMA LedgerKeepsOwners ==
  ASSUME LedgerAssumption, LedgerInv, LedgerNext
  PROVE  OwnersStay
<1>0. /\ accounts \in [Accounts -> Account] /\ Settlement \in Accounts
      /\ Amounts \subseteq Nat /\ OpeningBalance \in Nat
      /\ accounts[Settlement].status = "ACTIVE"
  BY DEF LedgerAssumption, LedgerInv, LedgerTypeOK, AccountsSound
<1>1. ASSUME NEW a \in Accounts, NEW n \in Amounts, DepositTx(a, n) \/ WithdrawTx(a, n)
      PROVE  OwnersStay
  BY <1>0, <1>1, PostKeepsOwners DEF DepositTx, WithdrawTx, Post, CanAdjust, OwnersStay
<1>2. ASSUME NEW a \in Accounts, NEW status,
             accounts' = [accounts EXCEPT ![a].status = status], status # "ABSENT"
      PROVE  OwnersStay
  BY <1>0, <1>2 DEF OwnersStay, Account
<1>3. CASE OperatorStep
  BY <1>1, <1>2, <1>3 DEF OperatorStep, Deposit, Withdraw, AdjustBalanceAsAdmin,
                          UpdateAdminAccountStatus
<1>4. ASSUME NEW u \in Customers, CustomerStep(u)
      PROVE  OwnersStay
  <2> PICK a \in Accounts :
        \/ CreateFundedCustomer(u, a)
        \/ CreateAccount(u, a)
        \/ DeleteAccount(u, a)
        \/ \E b \in Accounts, n \in Amounts : Transfer(u, a, b, n)
    BY <1>4 DEF CustomerStep
  <2>1. CASE CreateFundedCustomer(u, a)
    <3> DEFINE table == [accounts EXCEPT ![a] = NewAccount(u)]
    <3>1. NewAccount(u) \in Account
      BY DEF NewAccount, Account, AccountStatus
    <3>2. table \in [Accounts -> Account] /\ a # Settlement /\ accounts[a].status = "ABSENT"
          /\ PostOn(table, Settlement, a, OpeningBalance, NoOrder)
          /\ \A b \in Accounts \ {a} : table[b] = accounts[b]
      BY <1>0, <2>1, <3>1 DEF CreateFundedCustomer
    <3> HIDE DEF table
    <3> QED BY <1>0, <3>2, PostKeepsOwners DEF OwnersStay
  <2>2. CASE CreateAccount(u, a)
    BY <1>0, <2>2 DEF CreateAccount, OwnersStay
  <2>3. CASE DeleteAccount(u, a)
    BY <1>2, <2>3 DEF DeleteAccount
  <2>4. CASE \E b \in Accounts, n \in Amounts : Transfer(u, a, b, n)
    BY <1>0, <2>4, PostKeepsOwners DEF Transfer, Post, OwnersStay
  <2> QED BY <2>1, <2>2, <2>3, <2>4
<1> QED BY <1>3, <1>4 DEF LedgerNext

\* Nor does a booking.
LEMMA BookKeepsOwners ==
  ASSUME LedgerAssumption, PaymentsInv, NEW o \in Orders, NEW p, MaySettle(o, p), Book(o, p)
  PROVE  OwnersStay
<1>1. Destination(p) \in Accounts /\ p.source \in Accounts /\ p.amount \in Nat
  BY DEF LedgerAssumption, Destination, MaySettle, Order
<1>2. p.source # Destination(p)
  BY DEF Book, BookingVerdict, PlanCustomerTransfer, CreatePaymentEntries
<1>3. accounts \in [Accounts -> Account]
  BY DEF PaymentsInv, LedgerInv, LedgerTypeOK
<1> QED BY <1>1, <1>2, <1>3, PostKeepsOwners DEF Book, Post, OwnersStay, CreatePaymentEntries

-----------------------------------------------------------------------------
(* Steps that report nothing, and the others *)

\* A row that is reported as it was.
SameReport(p, r) ==
  /\ r.status = "BOOKED" <=> p.status = "BOOKED"
  /\ r.status = "FAILED" <=> p.status = "FAILED"
  /\ p.status = "CANCELLED" => r.status = "CANCELLED"
  /\ r.status = "NONE" \/ r.schedule = "STANDING" =>
       p.status = "NONE" \/ p.schedule = "STANDING"
  /\ p.status \in {"BOOKED", "FAILED"} =>
       r.owner = p.owner /\ r.beneficiary = p.beneficiary

\* Its payee has an account, or banks elsewhere.
PayeeExists(r) ==
  r.status # "NONE" /\ r.beneficiary # NoAccount =>
    r.beneficiary \in Accounts /\ accounts[r.beneficiary].status # "ABSENT"

\* Nothing is reported about an order.
LEMMA SilentOrder ==
  ASSUME ReportInv, OwnersStay, NEW o \in Orders,
         SameReport(orders[o], orders'[o]), PayeeExists(orders'[o]),
         auditTrail'[o] = auditTrail[o], outbox'[o] = outbox[o],
         \A x : <<o, x>> \in pendingAudit' => <<o, x>> \in pendingAudit
  PROVE  ReportStepSound(o)
<1> DEFINE p == orders[o]
           r == orders'[o]
<1>1. auditTrail[o] \in Seq(AuditType) /\ AuditSound(o) /\ EventsSound(o)
  BY DEF ReportInv
<1>2. AuditSound(o)'
  <2>1. ASSUME NEW y
        PROVE  Occurrences(auditTrail[o], y) \in Nat
    <3>1. "PAYMENT_BOOKED" \in AuditType
      BY ONLY DEF AuditType
    <3> QED BY ONLY <1>1, <3>1, RowWritten
  <2> QED BY <1>1, <2>1 DEF AuditSound, TrailSound, Unwritten, SameReport
<1>3. r.status # "NONE" /\ r.beneficiary # NoAccount =>
        r.beneficiary \in Accounts /\ accounts'[r.beneficiary].status # "ABSENT"
  BY DEF PayeeExists, OwnersStay
<1>4. CASE r.status = "BOOKED"
  <2>1. p.status = "BOOKED" /\ r.owner = p.owner /\ r.beneficiary = p.beneficiary
    BY <1>4 DEF SameReport
  <2>2. outbox[o] = BookedEvents(p)
    BY <1>1, <2>1 DEF EventsSound
  <2>3. p.beneficiary # NoAccount =>
          /\ accounts'[p.beneficiary].owner = accounts[p.beneficiary].owner
          /\ accounts'[p.beneficiary].system = accounts[p.beneficiary].system
    BY <1>1, <2>1 DEF EventsSound, OwnersStay
  <2>4. BookedEvents(orders[o])' = BookedEvents(p)
    BY <2>1, <2>3 DEF BookedEvents
  <2> QED BY <1>2, <1>3, <1>4, <2>2, <2>4 DEF ReportStepSound, EventsSound
<1>5. CASE r.status = "FAILED"
  <2>1. p.status = "FAILED" /\ r.owner = p.owner
    BY <1>5 DEF SameReport
  <2>2. outbox[o] = FailedEvents(p)
    BY <1>1, <2>1 DEF EventsSound
  <2>3. FailedEvents(orders[o])' = FailedEvents(p)
    BY <2>1 DEF FailedEvents
  <2> QED BY <1>2, <1>3, <1>5, <2>2, <2>3 DEF ReportStepSound, EventsSound
<1>6. CASE r.status \notin {"BOOKED", "FAILED"}
  <2>1. p.status \notin {"BOOKED", "FAILED"}
    BY <1>6 DEF SameReport
  <2>2. outbox[o] = << >>
    BY <1>1, <2>1 DEF EventsSound
  <2> QED BY <1>2, <1>3, <1>6, <2>2 DEF ReportStepSound, EventsSound
<1> QED BY <1>4, <1>5, <1>6

\* The other orders are left alone.
OthersSame(o) ==
  \A q \in Orders \ {o} :
    /\ orders'[q] = orders[q]
    /\ auditTrail'[q] = auditTrail[q]
    /\ outbox'[q] = outbox[q]
    /\ \A x : <<q, x>> \in pendingAudit' => <<q, x>> \in pendingAudit

ReportsTyped ==
  /\ auditTrail \in [Orders -> Seq(AuditType)]
  /\ pendingAudit \subseteq Orders \X {"PAYMENT_CREATED", "PAYMENT_CANCELLED"}

\* A step that reports nothing about any order.
LEMMA SilentStep ==
  ASSUME ReportInv, PaymentsInv', OwnersStay, UNCHANGED <<auditTrail, outbox>>,
         pendingAudit' \subseteq pendingAudit,
         \A o \in Orders : SameReport(orders[o], orders'[o]) /\ PayeeExists(orders'[o])
  PROVE  ReportInv'
<1>1. \A o \in Orders : ReportStepSound(o)
  BY SilentOrder
<1> QED BY <1>1 DEF ReportInv, ReportStepSound

\* An order that is what it was is reported as it was.
LEMMA SameOrder ==
  ASSUME ReportInv, NEW o \in Orders
  PROVE  SameReport(orders[o], orders[o]) /\ PayeeExists(orders[o])
BY DEF ReportInv, EventsSound, SameReport, PayeeExists

\* A step that leaves orders and reports alone.
LEMMA NoReportStep ==
  ASSUME ReportInv, PaymentsInv', OwnersStay, UNCHANGED <<orders, auditTrail, outbox>>,
         pendingAudit' \subseteq pendingAudit
  PROVE  ReportInv'
BY SameOrder, SilentStep

\* A step that reports something about one order.
LEMMA OneOrderReported ==
  ASSUME ReportInv, PaymentsInv', OwnersStay, ReportsTyped', NEW o \in Orders,
         OthersSame(o), ReportStepSound(o)
  PROVE  ReportInv'
<1>1. ASSUME NEW q \in Orders \ {o}
      PROVE  ReportStepSound(q)
  BY SameOrder, SilentOrder DEF OthersSame
<1> QED BY <1>1 DEF ReportInv, ReportsTyped, ReportStepSound

\* The numbers of its rows that are counted.
OrdersRows(o) ==
  /\ Occurrences(auditTrail[o], "PAYMENT_BOOKED") \in Nat
  /\ Occurrences(auditTrail[o], "PAYMENT_FAILED") \in Nat
  /\ Occurrences(auditTrail[o], "PAYMENT_CANCELLED") \in Nat
  /\ Occurrences(auditTrail[o], "PAYMENT_CREATED") \in Nat

\* What is said of one order before a step.
LEMMA OrderReported ==
  ASSUME ReportInv, NEW o \in Orders
  PROVE  /\ auditTrail[o] \in Seq(AuditType)
         /\ \A y : Occurrences(auditTrail[o], y) \in Nat
         /\ AuditSound(o) /\ EventsSound(o) /\ ReportsTyped
<1>1. auditTrail[o] \in Seq(AuditType) /\ AuditSound(o) /\ EventsSound(o) /\ ReportsTyped
  BY DEF ReportInv, ReportsTyped
<1> QED BY <1>1, RowWritten DEF AuditType

\* A row is written for one order.
LEMMA AuditWritten ==
  ASSUME ReportInv, NEW o \in Orders, NEW type \in AuditType, Audit(o, type)
  PROVE  /\ auditTrail' \in [Orders -> Seq(AuditType)]
         /\ \A q \in Orders \ {o} : auditTrail'[q] = auditTrail[q]
         /\ \A y : Occurrences(auditTrail'[o], y) =
                     Occurrences(auditTrail[o], y) + (IF type = y THEN 1 ELSE 0)
<1>1. auditTrail \in [Orders -> Seq(AuditType)]
  BY DEF ReportInv
<1>2. auditTrail' = [auditTrail EXCEPT ![o] = Append(auditTrail[o], type)]
  BY DEF Audit
<1>3. Append(auditTrail[o], type) \in Seq(AuditType)
  BY <1>1
<1>4. auditTrail'[o] = Append(auditTrail[o], type)
  BY <1>1, <1>2
<1> QED BY <1>1, <1>2, <1>3, <1>4, RowWritten

\* No events yet.
LEMMA FirstEvents ==
  ASSUME ReportInv, NEW o \in Orders, orders[o].status \notin {"BOOKED", "FAILED"},
         NEW S, NEW events \in Seq(S), Enqueue(o, events)
  PROVE  /\ outbox'[o] = events
         /\ \A q \in Orders \ {o} : outbox'[q] = outbox[q]
<1>1. outbox = [q \in Orders |-> outbox[q]] /\ outbox[o] = << >>
  BY DEF ReportInv, PaymentsInv, EventsSound
<1>2. << >> \o events = events
  OBVIOUS
<1> QED BY <1>1, <1>2 DEF Enqueue

-----------------------------------------------------------------------------
(* The actions *)

\* CreatePayment announces one row, of an order that had none.
LEMMA CreateReported ==
  ASSUME LedgerAssumption, ReportInv, PaymentsInv', NEW u \in Customers, NEW o \in Orders,
         NEW a \in Accounts, NEW b \in Payees, NEW n \in Amounts,
         NEW k \in {"IMMEDIATE", "SCHEDULED"}, NEW m \in -Skew..MaxWait, NEW v \in VoPResult,
         CreatePayment(u, o, a, b, n, k, m, v)
  PROVE  ReportInv'
<1> DEFINE r == orders'[o]
<1>1. /\ orders[o].status = "NONE" /\ UNCHANGED <<accounts, auditTrail, outbox>>
      /\ pendingAudit' = pendingAudit \union {<<o, "PAYMENT_CREATED">>}
      /\ b # NoAccount => Exists(b)
      /\ \A q \in Orders \ {o} : orders'[q] = orders[q]
  BY DEF CreatePayment, ledgerVars, ReportInv, PaymentsInv, PayeeFound
<1>2. r.status = "AWAITING_CONFIRMATION" /\ r.schedule = k /\ r.beneficiary = b
  BY DEF CreatePayment, ReportInv, PaymentsInv, Unused, PayeeFound
<1>3. OwnersStay
  BY <1>1 DEF OwnersStay
<1>4. ReportsTyped' /\ OthersSame(o)
  BY <1>1, OrderReported DEF ReportsTyped, OthersSame
<1> HIDE DEF r
<1>5. AuditSound(o)'
  <2>1. /\ Unwritten(o, "PAYMENT_CREATED")' = 1
        /\ Unwritten(o, "PAYMENT_CANCELLED")' = Unwritten(o, "PAYMENT_CANCELLED")
        /\ Unwritten(o, "PAYMENT_CREATED") \in {0, 1}
    BY <1>1 DEF Unwritten
  <2>2. TrailSound(orders[o], auditTrail[o], Unwritten(o, "PAYMENT_CREATED"),
                   Unwritten(o, "PAYMENT_CANCELLED"))
    BY OrderReported DEF AuditSound
  <2>3. OrdersRows(o)
    BY OrderReported DEF OrdersRows
  <2>4. auditTrail'[o] = auditTrail[o]
    BY <1>1
  <2> QED BY <1>1, <1>2, <2>1, <2>2, <2>3, <2>4 DEF AuditSound, TrailSound, OrdersRows, r
<1>6. EventsSound(o)'
  <2>1. outbox'[o] = << >>
    BY <1>1, OrderReported DEF EventsSound
  <2>2. b # NoAccount => b \in Accounts /\ accounts'[b].status # "ABSENT"
    BY <1>1 DEF Payees, Exists
  <2> QED BY <1>2, <2>1, <2>2 DEF EventsSound, r
<1> QED BY <1>3, <1>4, <1>5, <1>6, OneOrderReported DEF ReportStepSound

\* CancelPayment announces one row, of an order that was not cancelled before.
LEMMA CancelReported ==
  ASSUME ReportInv, PaymentsInv', NEW u \in Customers, NEW o \in Orders, CancelPayment(u, o)
  PROVE  ReportInv'
<1> DEFINE p == orders[o]
           r == orders'[o]
<1>1. /\ p.status \in {"DRAFT", "AWAITING_CONFIRMATION", "SCHEDULED"}
      /\ UNCHANGED <<accounts, auditTrail, outbox>>
      /\ pendingAudit' = pendingAudit \union {<<o, "PAYMENT_CANCELLED">>}
      /\ \A q \in Orders \ {o} : orders'[q] = orders[q]
      /\ r = [p EXCEPT !.status = "CANCELLED"] /\ p \in Order
  BY DEF CancelPayment, ledgerVars, ReportInv, PaymentsInv, CancelPaymentOrder
<1>2. r.status = "CANCELLED" /\ r.schedule = p.schedule /\ r.beneficiary = p.beneficiary
  BY <1>1, StatusRow
<1>3. OwnersStay
  BY <1>1 DEF OwnersStay
<1>4. ReportsTyped' /\ OthersSame(o)
  BY <1>1, OrderReported DEF ReportsTyped, OthersSame
<1> HIDE DEF p, r
<1>5. AuditSound(o)'
  <2>1. /\ Unwritten(o, "PAYMENT_CREATED")' = Unwritten(o, "PAYMENT_CREATED")
        /\ Unwritten(o, "PAYMENT_CANCELLED")' = 1
        /\ Unwritten(o, "PAYMENT_CANCELLED") \in {0, 1}
    BY <1>1 DEF Unwritten
  <2>2. TrailSound(p, auditTrail[o], Unwritten(o, "PAYMENT_CREATED"),
                   Unwritten(o, "PAYMENT_CANCELLED"))
    BY OrderReported DEF AuditSound, p
  <2>3. OrdersRows(o)
    BY OrderReported DEF OrdersRows
  <2>4. auditTrail'[o] = auditTrail[o]
    BY <1>1
  <2> QED BY <1>1, <1>2, <2>1, <2>2, <2>3, <2>4 DEF AuditSound, TrailSound, OrdersRows, r
<1>6. EventsSound(o)'
  <2>1. outbox'[o] = << >>
    BY <1>1, OrderReported DEF EventsSound, p
  <2> QED BY <1>1, <1>2, <2>1, OrderReported DEF EventsSound, p, r
<1> QED BY <1>3, <1>4, <1>5, <1>6, OneOrderReported DEF ReportStepSound

\* The announced row is written.
LEMMA WriteAuditReported ==
  ASSUME ReportInv, PaymentsInv', NEW o \in Orders, NEW type \in AuditType,
         WriteAudit(o, type)
  PROVE  ReportInv'
<1>1. /\ <<o, type>> \in pendingAudit /\ pendingAudit' = pendingAudit \ {<<o, type>>}
      /\ Audit(o, type) /\ UNCHANGED <<accounts, orders, outbox>>
  BY DEF WriteAudit, ledgerVars
<1>2. type \in {"PAYMENT_CREATED", "PAYMENT_CANCELLED"}
  BY <1>1, OrderReported DEF ReportsTyped
<1>3. OwnersStay
  BY <1>1 DEF OwnersStay
<1>4. ReportsTyped' /\ OthersSame(o)
  BY <1>1, AuditWritten, OrderReported DEF ReportsTyped, OthersSame
<1>5. AuditSound(o)'
  <2>1. /\ Unwritten(o, "PAYMENT_CREATED")' =
             Unwritten(o, "PAYMENT_CREATED") - (IF type = "PAYMENT_CREATED" THEN 1 ELSE 0)
        /\ Unwritten(o, "PAYMENT_CANCELLED")' =
             Unwritten(o, "PAYMENT_CANCELLED")
               - (IF type = "PAYMENT_CANCELLED" THEN 1 ELSE 0)
        /\ Unwritten(o, "PAYMENT_CREATED") \in {0, 1}
        /\ Unwritten(o, "PAYMENT_CANCELLED") \in {0, 1}
    BY <1>1, <1>2 DEF Unwritten
  <2>2. TrailSound(orders[o], auditTrail[o], Unwritten(o, "PAYMENT_CREATED"),
                   Unwritten(o, "PAYMENT_CANCELLED"))
    BY OrderReported DEF AuditSound
  <2>3. OrdersRows(o)
    BY OrderReported DEF OrdersRows
  <2>4. \A y : Occurrences(auditTrail'[o], y) =
               Occurrences(auditTrail[o], y) + (IF type = y THEN 1 ELSE 0)
    BY <1>1, AuditWritten
  <2> QED BY <1>1, <1>2, <2>1, <2>2, <2>3, <2>4 DEF AuditSound, TrailSound, OrdersRows
<1>6. EventsSound(o)'
  BY <1>1, OrderReported DEF EventsSound, BookedEvents, FailedEvents
<1> QED BY <1>3, <1>4, <1>5, <1>6, OneOrderReported DEF ReportStepSound

\* A settled order that was not settled before, and has its row and its events.
LEMMA SettlementReported ==
  ASSUME ReportInv, PaymentsInv', OwnersStay, NEW o \in Orders, NEW p, MaySettle(o, p),
         p.schedule = orders[o].schedule, orders[o].status # "NONE",
         p.owner = orders[o].owner, p.beneficiary = orders[o].beneficiary,
         NEW s \in {"BOOKED", "FAILED"}, NEW S,
         NEW events \in Seq(S),
         events = IF s = "BOOKED" THEN BookedEvents(p) ELSE FailedEvents(p),
         Enqueue(o, events),
         Audit(o, IF s = "BOOKED" THEN "PAYMENT_BOOKED" ELSE "PAYMENT_FAILED"),
         pendingAudit' = pendingAudit,
         \A q \in Orders \ {o} : orders'[q] = orders[q],
         orders'[o].status = s, orders'[o].schedule = p.schedule,
         orders'[o].owner = p.owner, orders'[o].beneficiary = p.beneficiary
  PROVE  ReportInv'
<1> DEFINE r == orders'[o]
           type == IF s = "BOOKED" THEN "PAYMENT_BOOKED" ELSE "PAYMENT_FAILED"
<1>1. orders[o] \in Order /\ orders[o].status \notin Terminal
  BY DEF ReportInv, PaymentsInv, MaySettle
<1>2. type \in AuditType
  BY DEF AuditType
<1>3. outbox'[o] = events /\ \A q \in Orders \ {o} : outbox'[q] = outbox[q]
  <2>1. orders[o].status \notin {"BOOKED", "FAILED"}
    BY <1>1
  <2> QED BY <2>1, FirstEvents
<1>4. /\ auditTrail' \in [Orders -> Seq(AuditType)]
      /\ \A q \in Orders \ {o} : auditTrail'[q] = auditTrail[q]
      /\ \A y : Occurrences(auditTrail'[o], y) =
                  Occurrences(auditTrail[o], y) + (IF type = y THEN 1 ELSE 0)
  BY <1>2, AuditWritten
<1>5. ReportsTyped' /\ OthersSame(o)
  BY <1>3, <1>4, OrderReported DEF ReportsTyped, OthersSame
<1>6. AuditSound(o)'
  <2>1. /\ Unwritten(o, "PAYMENT_CREATED")' = Unwritten(o, "PAYMENT_CREATED")
        /\ Unwritten(o, "PAYMENT_CANCELLED")' = Unwritten(o, "PAYMENT_CANCELLED")
        /\ Unwritten(o, "PAYMENT_CREATED") \in {0, 1}
        /\ Unwritten(o, "PAYMENT_CANCELLED") \in {0, 1}
    BY DEF Unwritten
  <2>2. TrailSound(orders[o], auditTrail[o], Unwritten(o, "PAYMENT_CREATED"),
                   Unwritten(o, "PAYMENT_CANCELLED"))
    BY OrderReported DEF AuditSound
  <2>3. OrdersRows(o)
    BY OrderReported DEF OrdersRows
  <2> QED BY <1>1, <1>4, <2>1, <2>2, <2>3 DEF AuditSound, TrailSound, OrdersRows
<1>7. p.beneficiary # NoAccount =>
        /\ p.beneficiary \in Accounts /\ accounts'[p.beneficiary].status # "ABSENT"
        /\ accounts'[p.beneficiary].owner = accounts[p.beneficiary].owner
        /\ accounts'[p.beneficiary].system = accounts[p.beneficiary].system
  BY OrderReported DEF EventsSound, OwnersStay
<1>8. EventsSound(o)'
  <2>1. BookedEvents(orders[o])' = BookedEvents(p)
    BY <1>7 DEF BookedEvents
  <2>2. FailedEvents(orders[o])' = FailedEvents(p)
    BY DEF FailedEvents
  <2> QED BY <1>3, <1>7, <2>1, <2>2 DEF EventsSound
<1> QED BY <1>5, <1>6, <1>8, OneOrderReported DEF ReportStepSound

\* A booking or a rejection is reported, its payee's account being what it was.
LEMMA SettleReported ==
  ASSUME LedgerAssumption, ReportInv, PaymentsInv', NEW o \in Orders, NEW p,
         MaySettle(o, p), p.schedule = orders[o].schedule, orders[o].status # "NONE",
         p.owner = orders[o].owner, p.beneficiary = orders[o].beneficiary,
         Settle(o, p), pendingAudit' = pendingAudit
  PROVE  ReportInv'
<1>1. PaymentsInv /\ orders \in [Orders -> Order] /\ p \in Order
  BY DEF ReportInv, PaymentsInv, MaySettle
<1>2. CASE Book(o, p)
  <2> DEFINE r == MarkPaymentBooked(p, lastTx')
  <2>1. OwnersStay
    BY <1>1, <1>2, BookKeepsOwners
  <2>2. lastTx' \in Nat
    BY DEF PaymentsInv, LedgerInv, LedgerTypeOK
  <2>3. /\ r.status = "BOOKED" /\ r.owner = p.owner /\ r.schedule = p.schedule
        /\ r.beneficiary = p.beneficiary
    BY <1>1, <2>2, BookedRow
  <2>4. orders' = [orders EXCEPT ![o] = r]
        /\ Enqueue(o, BookedEvents(p)) /\ Audit(o, "PAYMENT_BOOKED")
    BY <1>2 DEF Book, MarkPaymentBooked, CreatePaymentEntries
  <2> HIDE DEF r
  <2>5. orders'[o] = r /\ \A q \in Orders \ {o} : orders'[q] = orders[q]
    BY <1>1, <2>4
  <2>6. \E S : BookedEvents(p) \in Seq(S)
    <3> DEFINE sent == [kind |-> "SEPA_PAYMENT_SENT", recipient |-> p.owner]
               received == [kind |-> "SEPA_PAYMENT_RECEIVED",
                            recipient |-> accounts[p.beneficiary].owner]
    <3>1. BookedEvents(p) \in {<<sent>>, <<sent, received>>}
      BY DEF BookedEvents
    <3> HIDE DEF sent, received
    <3>2. <<sent>> \in Seq({sent, received}) /\ <<sent, received>> \in Seq({sent, received})
      OBVIOUS
    <3> QED BY <3>1, <3>2
  <2> QED BY <2>1, <2>3, <2>4, <2>5, <2>6, SettlementReported
<1>3. CASE Fail(o, p)
  <2> DEFINE r == [p EXCEPT !.status = "FAILED"]
  <2>1. OwnersStay
    BY <1>3 DEF Fail, ledgerVars, OwnersStay, MarkPaymentFailed
  <2>2. /\ r.status = "FAILED" /\ r.owner = p.owner /\ r.schedule = p.schedule
        /\ r.beneficiary = p.beneficiary
    BY <1>1, StatusRow
  <2>3. orders' = [orders EXCEPT ![o] = r]
        /\ Enqueue(o, FailedEvents(p)) /\ Audit(o, "PAYMENT_FAILED")
    BY <1>3 DEF Fail, MarkPaymentFailed
  <2> HIDE DEF r
  <2>4. orders'[o] = r /\ \A q \in Orders \ {o} : orders'[q] = orders[q]
    BY <1>1, <2>3
  <2>5. FailedEvents(p) \in Seq({[kind |-> "SEPA_PAYMENT_FAILED", recipient |-> p.owner]})
    BY DEF FailedEvents
  <2> QED BY <2>1, <2>2, <2>3, <2>4, <2>5, SettlementReported
<1> QED BY <1>2, <1>3 DEF Settle

\* ConfirmPayment reports the schedule or the settlement.
LEMMA ConfirmReported ==
  ASSUME LedgerAssumption, PaymentsAssumption, ReportInv, PaymentsInv', NEW u \in Customers, NEW o \in Orders,
         NEW acceptMismatch \in BOOLEAN, NEW ahead \in -Skew..Skew,
         ConfirmPayment(u, o, acceptMismatch, ahead)
  PROVE  ReportInv'
<1> DEFINE p == orders[o]
           later == p.schedule = "SCHEDULED" /\ p.wait > ahead
           target == IF later THEN "SCHEDULED" ELSE "PROCESSING"
           override == p.vop # "MATCH"
           accepts == override /\ acceptMismatch
           r == ConfirmPaymentOrder(p, target, override, accepts)
<1>1. /\ p.status = "AWAITING_CONFIRMATION"
      /\ override => acceptMismatch
      /\ \/ /\ later /\ orders' = [orders EXCEPT ![o] = r]
            /\ UNCHANGED <<ledgerVars, outbox>> /\ Audit(o, "PAYMENT_SCHEDULED")
         \/ ~later /\ Settle(o, r)
      /\ pendingAudit' = pendingAudit
  BY DEF ConfirmPayment, ConfirmPaymentOrder
<1>2. orders \in [Orders -> Order] /\ p \in Order /\ RowSound(p) /\ p.wait \in Int
  <2>1. orders \in [Orders -> Order] /\ RowSound(p)
    BY DEF ReportInv, PaymentsInv
  <2> QED BY <2>1 DEF Order, PaymentsAssumption
<1>3. target \in PaymentStatus /\ override \in BOOLEAN /\ accepts \in BOOLEAN
      /\ (acceptMismatch => (accepts <=> override))
  OBVIOUS
<1> HIDE DEF p, target, override, accepts, r
<1>4. /\ r \in Order
      /\ r.status = target /\ r.owner = p.owner /\ r.source = p.source
      /\ r.beneficiary = p.beneficiary
      /\ r.schedule = p.schedule /\ r.wait = p.wait /\ r.vop = p.vop
      /\ r.decided /\ (r.overridden <=> override)
      /\ (r.accepted <=> accepts) /\ r.ledgerTx = p.ledgerTx
  BY <1>2, <1>3 DEF r, ConfirmPaymentOrder, Order
<1>5. CASE later
  <2>1. orders' = [orders EXCEPT ![o] = r] /\ Audit(o, "PAYMENT_SCHEDULED")
        /\ outbox' = outbox /\ accounts' = accounts
    BY <1>1, <1>5 DEF ledgerVars
  <2>2. orders'[o] = r /\ r.status = "SCHEDULED"
        /\ \A q \in Orders \ {o} : orders'[q] = orders[q]
    BY <1>2, <1>4, <1>5, <2>1 DEF target
  <2>3. OwnersStay
    BY <2>1 DEF OwnersStay
  <2>4. "PAYMENT_SCHEDULED" \in AuditType
    BY DEF AuditType
  <2>5. /\ auditTrail' \in [Orders -> Seq(AuditType)]
        /\ \A q \in Orders \ {o} : auditTrail'[q] = auditTrail[q]
        /\ \A y : Occurrences(auditTrail'[o], y) =
                    Occurrences(auditTrail[o], y)
                      + (IF "PAYMENT_SCHEDULED" = y THEN 1 ELSE 0)
    BY <2>1, <2>4, AuditWritten
  <2>6. ReportsTyped' /\ OthersSame(o)
    BY <1>1, <2>1, <2>2, <2>5, OrderReported DEF ReportsTyped, OthersSame
  <2>7. AuditSound(o)'
    <3>1. /\ Unwritten(o, "PAYMENT_CREATED")' = Unwritten(o, "PAYMENT_CREATED")
          /\ Unwritten(o, "PAYMENT_CANCELLED")' = Unwritten(o, "PAYMENT_CANCELLED")
          /\ Unwritten(o, "PAYMENT_CREATED") \in {0, 1}
          /\ Unwritten(o, "PAYMENT_CANCELLED") \in {0, 1}
      BY <1>1 DEF Unwritten
    <3>2. TrailSound(p, auditTrail[o], Unwritten(o, "PAYMENT_CREATED"),
                     Unwritten(o, "PAYMENT_CANCELLED"))
      BY OrderReported DEF AuditSound, p
    <3>3. OrdersRows(o)
      BY OrderReported DEF OrdersRows
    <3> QED BY <1>1, <1>4, <2>2, <2>5, <3>1, <3>2, <3>3
            DEF AuditSound, TrailSound, OrdersRows
  <2>8. EventsSound(o)'
    <3>1. outbox'[o] = << >>
      BY <1>1, <2>1, OrderReported DEF EventsSound, p
    <3>2. PayeeExists(p) /\ p.status # "NONE"
      BY <1>1, OrderReported DEF EventsSound, PayeeExists, p
    <3> QED BY <1>4, <2>1, <2>2, <3>1, <3>2 DEF EventsSound, PayeeExists
  <2> QED BY <2>3, <2>6, <2>7, <2>8, OneOrderReported DEF ReportStepSound
<1>6. CASE ~later
  <2>1. Consented(r) /\ r.source \in Accounts /\ r.ledgerTx = 0
    BY <1>1, <1>2, <1>3, <1>4 DEF Consented, RowSound, override
  <2>2. MaySettle(o, r)
    BY <1>1, <1>2, <1>4, <1>6, <2>1 DEF MaySettle, RowSound, LatestWait, PaymentsAssumption, p, target
  <2> QED BY <1>1, <1>4, <1>6, <2>2, SettleReported DEF p
<1> QED BY <1>5, <1>6

\* processClaimedPayment reports what it settles.
LEMMA ProcessReported ==
  ASSUME LedgerAssumption, ReportInv, PaymentsInv', NEW w \in Workers, NEW o \in Orders,
         ProcessClaimedPayment(w, o)
  PROVE  ReportInv'
<1>1. CASE orders[o].status = "PROCESSING" /\ orders[o].ledgerTx = 0
  <2>1. MaySettle(o, orders[o])
    BY <1>1 DEF MaySettle, ReportInv, PaymentsInv, RowSound, LatestWait
  <2>2. Settle(o, orders[o]) /\ pendingAudit' = pendingAudit
    BY <1>1 DEF ProcessClaimedPayment
  <2> QED BY <1>1, <2>1, <2>2, SettleReported
<1>2. CASE ~(orders[o].status = "PROCESSING" /\ orders[o].ledgerTx = 0)
  <2>1. UNCHANGED <<ledgerVars, orders, auditTrail, outbox, pendingAudit>>
    BY <1>2 DEF ProcessClaimedPayment
  <2>2. OwnersStay
    BY <2>1 DEF ledgerVars, OwnersStay
  <2> QED BY <2>1, <2>2, NoReportStep
<1> QED BY <1>1, <1>2

\* The worker's other steps, and time, report nothing.
LEMMA RecoverReported ==
  ASSUME PaymentsAssumption, ReportInv, PaymentsInv', NEW w \in Workers,
         RecoverStalePayments(w)
  PROVE  ReportInv'
<1>1. UNCHANGED <<ledgerVars, auditTrail, outbox, pendingAudit>>
  BY DEF RecoverStalePayments
<1>2. OwnersStay
  BY <1>1 DEF OwnersStay, ledgerVars
<1>3. ASSUME NEW o \in Orders
      PROVE  SameReport(orders[o], orders'[o]) /\ PayeeExists(orders'[o])
  <2> DEFINE p == orders[o]
  <2>1. CASE Stale(p)
    <3> DEFINE r == Claimed(p, "SCHEDULED", -1)
    <3>1. orders'[o] = r /\ p.status = "PROCESSING" /\ p \in Order
      BY <2>1 DEF RecoverStalePayments, Stale, Claimed, ReportInv, PaymentsInv
    <3>2. -1 \in -1..StaleAfter + 1
      BY DEF PaymentsAssumption
    <3>3. PayeeExists(p)
      BY SameOrder
    <3> HIDE DEF p, r
    <3>4. /\ r.status = "SCHEDULED" /\ r.schedule = p.schedule
          /\ r.owner = p.owner /\ r.beneficiary = p.beneficiary
      <4>1. {"SCHEDULED", "PROCESSING"} \subseteq PaymentStatus
        OBVIOUS
      <4> QED BY <3>1, <3>2, <4>1, ClaimedRow DEF r
    <3> QED BY <3>1, <3>3, <3>4 DEF SameReport, PayeeExists, p
  <2>2. CASE ~Stale(p)
    BY <2>2, SameOrder DEF RecoverStalePayments
  <2> QED BY <2>1, <2>2
<1> QED BY <1>1, <1>2, <1>3, SilentStep

LEMMA ClaimReported ==
  ASSUME PaymentsAssumption, ReportInv, PaymentsInv', NEW w \in Workers,
         NEW batch \in SUBSET Orders, ClaimDuePaymentOrders(w, batch)
  PROVE  ReportInv'
<1>1. UNCHANGED <<ledgerVars, auditTrail, outbox, pendingAudit>>
  BY DEF ClaimDuePaymentOrders
<1>2. OwnersStay
  BY <1>1 DEF OwnersStay, ledgerVars
<1>3. ASSUME NEW o \in Orders
      PROVE  SameReport(orders[o], orders'[o]) /\ PayeeExists(orders'[o])
  <2> DEFINE p == orders[o]
  <2>1. CASE o \in batch
    <3> DEFINE r == Claimed(p, "PROCESSING", 0)
    <3>1. orders'[o] = r /\ p.status = "SCHEDULED" /\ p \in Order
      BY <2>1 DEF ClaimDuePaymentOrders, Due, Claimed, ReportInv, PaymentsInv
    <3>2. 0 \in -1..StaleAfter + 1
      BY DEF PaymentsAssumption
    <3>3. PayeeExists(p)
      BY SameOrder
    <3> HIDE DEF p, r
    <3>4. /\ r.status = "PROCESSING" /\ r.schedule = p.schedule
          /\ r.owner = p.owner /\ r.beneficiary = p.beneficiary
      <4>1. {"SCHEDULED", "PROCESSING"} \subseteq PaymentStatus
        OBVIOUS
      <4> QED BY <3>1, <3>2, <4>1, ClaimedRow DEF r
    <3> QED BY <3>1, <3>3, <3>4 DEF SameReport, PayeeExists, p
  <2>2. CASE o \notin batch
    BY <2>2, SameOrder DEF ClaimDuePaymentOrders
  <2> QED BY <2>1, <2>2
<1> QED BY <1>1, <1>2, <1>3, SilentStep

LEMMA MaterializeReported ==
  ASSUME LedgerAssumption, ReportInv, PaymentsInv', NEW w \in Workers,
         NEW o \in Orders, NEW a \in Accounts, NEW b \in Payees, NEW n \in Amounts,
         MaterializeOccurrence(w, o, a, b, n)
  PROVE  ReportInv'
<1>1. /\ UNCHANGED <<ledgerVars, auditTrail, outbox, pendingAudit>>
      /\ orders[o].status = "NONE" /\ (b # NoAccount => Exists(b))
      /\ \A q \in Orders \ {o} : orders'[q] = orders[q]
  BY DEF MaterializeOccurrence, ReportInv, PaymentsInv, PayeeFound
<1>2. OwnersStay
  BY <1>1 DEF OwnersStay, ledgerVars
<1>3. /\ orders'[o].status = "SCHEDULED" /\ orders'[o].schedule = "STANDING"
      /\ orders'[o].beneficiary = b
  BY DEF MaterializeOccurrence, ReportInv, PaymentsInv, Unused, PayeeFound
<1>4. SameReport(orders[o], orders'[o]) /\ PayeeExists(orders'[o])
  BY <1>1, <1>3 DEF SameReport, PayeeExists, Payees, Exists
<1>5. \A q \in Orders \ {o} : SameReport(orders[q], orders'[q]) /\ PayeeExists(orders'[q])
  BY <1>1, SameOrder
<1> QED BY <1>1, <1>2, <1>4, <1>5, SilentStep

LEMMA TickReported ==
  ASSUME PaymentsAssumption, ReportInv, PaymentsInv', Tick
  PROVE  ReportInv'
<1>1. UNCHANGED <<ledgerVars, auditTrail, outbox, pendingAudit>>
  BY DEF Tick
<1>2. OwnersStay
  BY <1>1 DEF OwnersStay, ledgerVars
<1>3. ASSUME NEW o \in Orders
      PROVE  SameReport(orders[o], orders'[o]) /\ PayeeExists(orders'[o])
  <2> DEFINE p == orders[o]
             m == IF Waiting(o) /\ p.wait > -Skew THEN p.wait - 1 ELSE p.wait
             n == IF p.age \in 0..StaleAfter THEN p.age + 1 ELSE p.age
             r == Older(p, m, n)
  <2>1. orders'[o] = r /\ p \in Order
    BY DEF Tick, Older, ReportInv, PaymentsInv
  <2>2. /\ p.wait \in -Skew..MaxWait /\ p.age \in -1..StaleAfter + 1
        /\ MaxWait \in Nat /\ Skew \in Nat /\ StaleAfter \in Nat
    BY <2>1 DEF Order, PaymentsAssumption
  <2>3. m \in -Skew..MaxWait /\ n \in -1..StaleAfter + 1
    BY <2>2
  <2>4. PayeeExists(p)
    BY SameOrder
  <2> HIDE DEF p, m, n, r
  <2>5. /\ r.status = p.status /\ r.schedule = p.schedule
        /\ r.owner = p.owner /\ r.beneficiary = p.beneficiary
    BY <2>1, <2>3, OlderRow DEF r
  <2> QED BY <2>1, <2>4, <2>5 DEF SameReport, PayeeExists, p
<1> QED BY <1>1, <1>2, <1>3, SilentStep

\* Every step reports as it should: one case per action.
LEMMA NextReported ==
  ASSUME LedgerAssumption, PaymentsAssumption, ReportInv, [PaymentsNext]_vars
  PROVE  ReportInv'
<1>0. PaymentsInv' /\ PaymentsInv
  BY PaymentsNextSound DEF ReportInv, PaymentStepSound
<1>1. ASSUME NEW u \in Customers, NEW o \in Orders, CustomerPaymentStep(u, o)
      PROVE  ReportInv'
  BY <1>0, <1>1, CreateReported, ConfirmReported, CancelReported DEF CustomerPaymentStep
<1>2. ASSUME UNCHANGED <<ledgerVars, orders, auditTrail, outbox>>,
             pendingAudit' \subseteq pendingAudit
      PROVE  ReportInv'
  BY <1>0, <1>2, NoReportStep DEF ledgerVars, OwnersStay
<1>3. ASSUME NEW w \in Workers, WorkerStep(w)
      PROVE  ReportInv'
  <2>1. CASE RecoverStalePayments(w)
    BY <1>0, <2>1, RecoverReported
  <2>2. CASE MaterializeNothing(w) \/ MaterializationFails(w)
    BY <1>2, <2>2 DEF MaterializeNothing, MaterializationFails
  <2>3. CASE \E o \in Orders, a \in Accounts, b \in Payees, n \in Amounts :
               MaterializeOccurrence(w, o, a, b, n)
    BY <1>0, <2>3, MaterializeReported
  <2>4. CASE ClaimStep(w)
    BY <1>0, <2>4, ClaimReported DEF ClaimStep
  <2>5. CASE \E o \in Orders : ProcessClaimedPayment(w, o)
    BY <1>0, <2>5, ProcessReported
  <2>6. CASE \E o \in Orders : ProcessingRolledBack(w, o)
    BY <1>2, <2>6 DEF ProcessingRolledBack
  <2>7. CASE WorkerStops(w)
    BY <1>2, <2>7 DEF WorkerStops
  <2> QED BY <1>3, <2>1, <2>2, <2>3, <2>4, <2>5, <2>6, <2>7 DEF WorkerStep
<1>4. CASE AuditStep
  <2> PICK o \in Orders, type \in AuditType : WriteAudit(o, type) \/ LoseAudit(o, type)
    BY <1>4 DEF AuditStep
  <2>1. CASE WriteAudit(o, type)
    BY <1>0, <2>1, WriteAuditReported
  <2>2. CASE LoseAudit(o, type)
    BY <1>2, <2>2 DEF LoseAudit
  <2> QED BY <2>1, <2>2
<1>5. CASE Tick
  BY <1>0, <1>5, TickReported
<1>6. CASE LedgerStep
  <2>1. OwnersStay
    BY <1>0, <1>6, LedgerKeepsOwners DEF LedgerStep, PaymentsInv
  <2>2. UNCHANGED <<orders, auditTrail, outbox, pendingAudit>>
    BY <1>6 DEF LedgerStep, paymentVars
  <2> QED BY <1>0, <2>1, <2>2, NoReportStep
<1>7. CASE JamOrRelease \/ UNCHANGED vars
  BY <1>2, <1>7 DEF JamOrRelease, vars, paymentVars
<1> QED BY <1>1, <1>3, <1>4, <1>5, <1>6, <1>7 DEF PaymentsNext

\* Nothing has happened that could be reported.
LEMMA InitReported ==
  ASSUME LedgerAssumption, PaymentsAssumption, PaymentsInit
  PROVE  ReportInv
<1>1. PaymentsInv
  BY PaymentsInitSound
<1>2. auditTrail \in [Orders -> Seq(AuditType)] /\ pendingAudit = {}
  BY DEF PaymentsInit
<1>3. ASSUME NEW o \in Orders
      PROVE  AuditSound(o) /\ EventsSound(o)
  <2>1. /\ orders[o].status = "NONE" /\ auditTrail[o] = << >> /\ outbox[o] = << >>
        /\ Unwritten(o, "PAYMENT_CREATED") = 0 /\ Unwritten(o, "PAYMENT_CANCELLED") = 0
    BY DEF PaymentsInit, Unused, Unwritten
  <2>2. AuditSound(o)
    BY <2>1, NoRowWritten DEF AuditSound, TrailSound
  <2>3. EventsSound(o)
    BY <2>1 DEF EventsSound
  <2> QED BY <2>2, <2>3
<1> QED BY <1>1, <1>2, <1>3 DEF ReportInv

\* Audit trail and outbox tell every order's outcome, once.
THEOREM OutcomesAreReportedOnce == PaymentsSpec => []OutcomeReportedOnce
<1>1. PaymentsInit => ReportInv
  BY LedgerAssumption, PaymentsAssumption, InitReported
<1>2. ReportInv /\ [PaymentsNext]_vars => ReportInv'
  BY LedgerAssumption, PaymentsAssumption, NextReported
<1>3. ReportInv => OutcomeReportedOnce
  <2> SUFFICES ASSUME ReportInv, NEW o \in Orders
               PROVE  LET p == orders[o]
                          rows(type) == Occurrences(auditTrail[o], type)
                      IN /\ rows("PAYMENT_BOOKED") = IF p.status = "BOOKED" THEN 1 ELSE 0
                         /\ rows("PAYMENT_FAILED") = IF p.status = "FAILED" THEN 1 ELSE 0
                         /\ rows("PAYMENT_CANCELLED") <= IF p.status = "CANCELLED" THEN 1 ELSE 0
                         /\ rows("PAYMENT_CREATED") <= IF p.schedule = "STANDING" THEN 0 ELSE 1
                         /\ outbox[o] = CASE p.status = "BOOKED" -> BookedEvents(p)
                                          [] p.status = "FAILED" -> FailedEvents(p)
                                          [] OTHER -> << >>
    BY DEF OutcomeReportedOnce
  <2>1. OrdersRows(o) /\ AuditSound(o) /\ EventsSound(o)
    BY OrderReported DEF OrdersRows
  <2>2. Unwritten(o, "PAYMENT_CREATED") \in {0, 1}
        /\ Unwritten(o, "PAYMENT_CANCELLED") \in {0, 1}
    BY DEF Unwritten
  <2>3. TrailSound(orders[o], auditTrail[o], Unwritten(o, "PAYMENT_CREATED"),
                   Unwritten(o, "PAYMENT_CANCELLED"))
    BY <2>1 DEF AuditSound
  <2> QED BY <2>1, <2>2, <2>3 DEF TrailSound, OrdersRows, EventsSound
<1> QED BY <1>1, <1>2, <1>3, PTL DEF PaymentsSpec

-----------------------------------------------------------------------------
(* Types *)

\* Who owns an account or an order is a customer.
OwnedAccounts ==
  \A a \in Accounts :
    accounts[a].status # "ABSENT" /\ ~accounts[a].system => accounts[a].owner \in Customers

OwnedOrders == \A o \in Orders : orders[o].status # "NONE" => orders[o].owner \in Customers

WorkersTyped ==
  worker \in [Workers -> Worker] /\ faults \in 0..MaxFaults /\ jammed \in BOOLEAN

\* The inductive invariant of PaymentsTypeOK.
TypesInv == ReportInv /\ OwnedAccounts /\ OwnedOrders /\ WorkersTyped

\* Use cases of the ledger open accounts for customers.
LEMMA LedgerOpensForCustomers ==
  ASSUME LedgerAssumption, LedgerInv, OwnedAccounts, LedgerNext
  PROVE  OwnedAccounts'
<1>0. /\ accounts \in [Accounts -> Account] /\ OwnersStay
      /\ Settlement \in Accounts /\ OpeningBalance \in Nat
  BY LedgerKeepsOwners DEF LedgerAssumption, LedgerInv, LedgerTypeOK
<1>1. ASSUME \A b \in Accounts : accounts[b].status = "ABSENT" => accounts'[b].status = "ABSENT"
      PROVE  OwnedAccounts'
  BY <1>0, <1>1 DEF OwnersStay, OwnedAccounts
<1>2. ASSUME NEW a \in Accounts, NEW u \in Customers, accounts[a].status = "ABSENT",
             accounts'[a].owner = u,
             \A b \in Accounts \ {a} :
               accounts[b].status = "ABSENT" => accounts'[b].status = "ABSENT"
      PROVE  OwnedAccounts'
  BY <1>0, <1>2 DEF OwnersStay, OwnedAccounts
<1>3. ASSUME NEW a \in Accounts, NEW n \in Amounts, DepositTx(a, n) \/ WithdrawTx(a, n)
      PROVE  OwnedAccounts'
  <2>1. n \in Nat /\ a # Settlement
    BY <1>3 DEF LedgerAssumption, DepositTx, WithdrawTx, CanAdjust
  <2>2. Post(Settlement, a, n, NoOrder) \/ Post(a, Settlement, n, NoOrder)
    BY <1>3 DEF DepositTx, WithdrawTx
  <2> QED BY <1>0, <1>1, <2>1, <2>2, PostKeepsOwners DEF Post
<1>4. ASSUME NEW a \in Accounts, NEW status, Exists(a),
             accounts' = [accounts EXCEPT ![a].status = status]
      PROVE  OwnedAccounts'
  BY <1>0, <1>1, <1>4 DEF Exists, Account
<1>5. CASE OperatorStep
  BY <1>3, <1>4, <1>5 DEF OperatorStep, Deposit, Withdraw, AdjustBalanceAsAdmin,
                          UpdateAdminAccountStatus
<1>6. ASSUME NEW u \in Customers, CustomerStep(u)
      PROVE  OwnedAccounts'
  <2> PICK a \in Accounts :
        \/ CreateFundedCustomer(u, a)
        \/ CreateAccount(u, a)
        \/ DeleteAccount(u, a)
        \/ \E b \in Accounts, n \in Amounts : Transfer(u, a, b, n)
    BY <1>6 DEF CustomerStep
  <2>1. CASE CreateFundedCustomer(u, a)
    <3> DEFINE table == [accounts EXCEPT ![a] = NewAccount(u)]
    <3>1. NewAccount(u) \in Account /\ NewAccount(u).owner = u
      BY DEF NewAccount, Account, AccountStatus
    <3>2. /\ table \in [Accounts -> Account] /\ accounts[a].status = "ABSENT"
          /\ PostOn(table, Settlement, a, OpeningBalance, NoOrder)
          /\ table[a].owner = u
          /\ \A b \in Accounts \ {a} : table[b] = accounts[b]
      BY <1>0, <2>1, <3>1 DEF CreateFundedCustomer
    <3>3. a # Settlement
      BY <3>2 DEF LedgerInv, AccountsSound
    <3> HIDE DEF table
    <3>4. /\ accounts'[a].owner = u
          /\ \A b \in Accounts \ {a} :
               accounts[b].status = "ABSENT" => accounts'[b].status = "ABSENT"
      BY <1>0, <3>2, <3>3, PostKeepsOwners
    <3> QED BY <1>2, <3>2, <3>4
  <2>2. CASE CreateAccount(u, a)
    BY <1>0, <1>2, <2>2 DEF CreateAccount, NewAccount
  <2>3. CASE DeleteAccount(u, a)
    BY <1>4, <2>3 DEF DeleteAccount
  <2>4. CASE \E b \in Accounts, n \in Amounts : Transfer(u, a, b, n)
    <3> PICK b \in Accounts, n \in Amounts : Transfer(u, a, b, n)
      BY <2>4
    <3>1. n \in Nat /\ a # b /\ Post(a, b, n, NoOrder)
      BY DEF LedgerAssumption, Transfer
    <3> QED BY <1>0, <1>1, <3>1, PostKeepsOwners DEF Post
  <2> QED BY <2>1, <2>2, <2>3, <2>4
<1> QED BY <1>5, <1>6 DEF LedgerNext

\* A settlement opens no account and gives no order away.
LEMMA SettleKeepsOwned ==
  ASSUME LedgerAssumption, TypesInv, NEW o \in Orders, NEW p, MaySettle(o, p),
         orders[o].status # "NONE", p.owner = orders[o].owner, Settle(o, p)
  PROVE  OwnedAccounts' /\ OwnedOrders'
<1>1. PaymentsInv /\ orders \in [Orders -> Order] /\ p \in Order
      /\ accounts \in [Accounts -> Account]
  BY DEF TypesInv, ReportInv, PaymentsInv, LedgerInv, LedgerTypeOK, MaySettle
<1>2. ASSUME NEW r, r.owner = p.owner, orders' = [orders EXCEPT ![o] = r]
      PROVE  OwnedOrders'
  BY <1>1, <1>2 DEF OwnedOrders, TypesInv
<1>3. CASE Book(o, p)
  <2> DEFINE r == MarkPaymentBooked(p, lastTx')
  <2>1. r.owner = p.owner
    BY <1>1 DEF MarkPaymentBooked, Order
  <2>2. orders' = [orders EXCEPT ![o] = r]
    BY <1>3 DEF Book
  <2> HIDE DEF r
  <2>3. Destination(p) \in Accounts /\ p.source \in Accounts /\ p.amount \in Nat
        /\ p.source # Destination(p)
    BY <1>3 DEF LedgerAssumption, Destination, MaySettle, Order, Book, BookingVerdict,
                PlanCustomerTransfer
  <2>4. \A a \in Accounts : /\ accounts'[a].status = accounts[a].status
                            /\ accounts'[a].owner = accounts[a].owner
                            /\ accounts'[a].system = accounts[a].system
    BY <1>1, <1>3, <2>3, PostKeepsOwners DEF Book, CreatePaymentEntries, Post
  <2>5. OwnedAccounts'
    BY <2>4 DEF OwnedAccounts, TypesInv
  <2> QED BY <1>2, <2>1, <2>2, <2>5
<1>4. CASE Fail(o, p)
  <2> DEFINE r == MarkPaymentFailed(p)
  <2>1. r.owner = p.owner
    BY <1>1 DEF MarkPaymentFailed, Order
  <2>2. orders' = [orders EXCEPT ![o] = r] /\ accounts' = accounts
    BY <1>4 DEF Fail, ledgerVars
  <2> HIDE DEF r
  <2> QED BY <1>2, <2>1, <2>2 DEF OwnedAccounts, TypesInv
<1> QED BY <1>3, <1>4 DEF Settle

\* A step that leaves the accounts, every order's owner and the unused rows alone.
OwnersOfOrdersStay ==
  \A o \in Orders :
    orders'[o].status # "NONE" =>
      orders[o].status # "NONE" /\ orders'[o].owner = orders[o].owner

LEMMA OwnedStay ==
  ASSUME TypesInv, UNCHANGED accounts, OwnersOfOrdersStay
  PROVE  OwnedAccounts' /\ OwnedOrders'
BY DEF TypesInv, OwnedAccounts, OwnedOrders, OwnersOfOrdersStay

\* A new order is its customer's.
LEMMA NewRowOwned ==
  ASSUME TypesInv, UNCHANGED accounts, NEW o \in Orders, NEW u \in Customers,
         orders'[o].owner = u, \A q \in Orders \ {o} : orders'[q] = orders[q]
  PROVE  OwnedAccounts' /\ OwnedOrders'
BY DEF TypesInv, OwnedAccounts, OwnedOrders

\* The customer's operations.
LEMMA CreateOwned ==
  ASSUME TypesInv, NEW u \in Customers, NEW o \in Orders,
         NEW a \in Accounts, NEW b \in Payees, NEW n \in Amounts,
         NEW k \in {"IMMEDIATE", "SCHEDULED"}, NEW m \in -Skew..MaxWait, NEW v \in VoPResult,
         CreatePayment(u, o, a, b, n, k, m, v)
  PROVE  OwnedAccounts' /\ OwnedOrders'
<1>1. orders \in [Orders -> Order] /\ accounts' = accounts
  BY DEF TypesInv, ReportInv, PaymentsInv, CreatePayment, ledgerVars
<1>2. orders'[o].owner = u /\ \A q \in Orders \ {o} : orders'[q] = orders[q]
  BY <1>1 DEF CreatePayment, Unused
<1> QED BY <1>1, <1>2, NewRowOwned

LEMMA ConfirmOwned ==
  ASSUME LedgerAssumption, PaymentsAssumption, TypesInv, NEW u \in Customers, NEW o \in Orders,
         NEW acceptMismatch \in BOOLEAN, NEW ahead \in -Skew..Skew,
         ConfirmPayment(u, o, acceptMismatch, ahead)
  PROVE  OwnedAccounts' /\ OwnedOrders'
<1> DEFINE p == orders[o]
           later == p.schedule = "SCHEDULED" /\ p.wait > ahead
           target == IF later THEN "SCHEDULED" ELSE "PROCESSING"
           override == p.vop # "MATCH"
           accepts == override /\ acceptMismatch
           r == ConfirmPaymentOrder(p, target, override, accepts)
<1>1. /\ p.status = "AWAITING_CONFIRMATION"
      /\ override => acceptMismatch
      /\ \/ later /\ orders' = [orders EXCEPT ![o] = r] /\ UNCHANGED ledgerVars
         \/ ~later /\ Settle(o, r)
  BY DEF ConfirmPayment
<1>2. orders \in [Orders -> Order] /\ p \in Order /\ RowSound(p) /\ p.wait \in Int
  <2>1. orders \in [Orders -> Order] /\ RowSound(p)
    BY DEF TypesInv, ReportInv, PaymentsInv
  <2> QED BY <2>1 DEF Order, PaymentsAssumption
<1>3. target \in PaymentStatus /\ override \in BOOLEAN /\ accepts \in BOOLEAN
      /\ (acceptMismatch => (accepts <=> override))
  OBVIOUS
<1> HIDE DEF p, target, override, accepts, r
<1>4. /\ r \in Order
      /\ r.status = target /\ r.owner = p.owner /\ r.source = p.source
      /\ r.schedule = p.schedule /\ r.wait = p.wait /\ r.vop = p.vop
      /\ r.decided /\ (r.overridden <=> override)
      /\ (r.accepted <=> accepts) /\ r.ledgerTx = p.ledgerTx
  BY <1>2, <1>3 DEF r, ConfirmPaymentOrder, Order
<1>5. CASE later
  <2>1. orders'[o] = r /\ \A q \in Orders \ {o} : orders'[q] = orders[q]
    BY <1>1, <1>2, <1>5
  <2> QED BY <1>1, <1>4, <1>5, <2>1, OwnedStay DEF OwnersOfOrdersStay, ledgerVars, p
<1>6. CASE ~later
  <2>1. Consented(r) /\ r.source \in Accounts /\ r.ledgerTx = 0
    BY <1>1, <1>2, <1>3, <1>4 DEF Consented, RowSound, override
  <2>2. MaySettle(o, r)
    BY <1>1, <1>2, <1>4, <1>6, <2>1 DEF MaySettle, RowSound, LatestWait, PaymentsAssumption, p, target
  <2> QED BY <1>1, <1>4, <1>6, <2>2, SettleKeepsOwned DEF p
<1> QED BY <1>5, <1>6

LEMMA CancelOwned ==
  ASSUME TypesInv, NEW u \in Customers, NEW o \in Orders, CancelPayment(u, o)
  PROVE  OwnedAccounts' /\ OwnedOrders'
<1>1. orders \in [Orders -> Order] /\ accounts' = accounts /\ orders[o].status # "NONE"
      /\ orders' = [orders EXCEPT ![o].status = "CANCELLED"]
  BY DEF TypesInv, ReportInv, PaymentsInv, CancelPayment, CancelPaymentOrder, ledgerVars
<1>2. orders'[o].owner = orders[o].owner /\ \A q \in Orders \ {o} : orders'[q] = orders[q]
  BY <1>1 DEF Order
<1> QED BY <1>1, <1>2, OwnedStay DEF OwnersOfOrdersStay

\* The worker's.
LEMMA RecoverOwned ==
  ASSUME TypesInv, NEW w \in Workers, RecoverStalePayments(w)
  PROVE  OwnedAccounts' /\ OwnedOrders'
<1>1. accounts' = accounts
  BY DEF RecoverStalePayments, ledgerVars
<1>2. ASSUME NEW o \in Orders
      PROVE  orders'[o].owner = orders[o].owner
             /\ (orders'[o].status # "NONE" => orders[o].status # "NONE")
  <2>1. orders[o] \in Order
    BY DEF TypesInv, ReportInv, PaymentsInv
  <2>2. CASE Stale(orders[o])
    BY <2>1, <2>2 DEF RecoverStalePayments, Stale, Order
  <2>3. CASE ~Stale(orders[o])
    BY <2>3 DEF RecoverStalePayments
  <2> QED BY <2>2, <2>3
<1> QED BY <1>1, <1>2, OwnedStay DEF OwnersOfOrdersStay

LEMMA MaterializeOwned ==
  ASSUME TypesInv, NEW w \in Workers,
         NEW o \in Orders, NEW a \in Accounts, NEW b \in Payees, NEW n \in Amounts,
         MaterializeOccurrence(w, o, a, b, n)
  PROVE  OwnedAccounts' /\ OwnedOrders'
<1>1. orders \in [Orders -> Order] /\ accounts' = accounts
  BY DEF TypesInv, ReportInv, PaymentsInv, MaterializeOccurrence, ledgerVars
<1>2. accounts[a].owner \in Customers
  BY DEF MaterializeOccurrence, Exists, TypesInv, OwnedAccounts
<1>3. orders'[o].owner = accounts[a].owner /\ \A q \in Orders \ {o} : orders'[q] = orders[q]
  BY <1>1 DEF MaterializeOccurrence, Unused
<1> QED BY <1>1, <1>2, <1>3, NewRowOwned

LEMMA ClaimOwned ==
  ASSUME TypesInv, NEW w \in Workers, NEW batch \in SUBSET Orders,
         ClaimDuePaymentOrders(w, batch)
  PROVE  OwnedAccounts' /\ OwnedOrders'
<1>1. accounts' = accounts
  BY DEF ClaimDuePaymentOrders, ledgerVars
<1>2. ASSUME NEW o \in Orders
      PROVE  orders'[o].owner = orders[o].owner
             /\ (orders'[o].status # "NONE" => orders[o].status # "NONE")
  <2>1. orders[o] \in Order
    BY DEF TypesInv, ReportInv, PaymentsInv
  <2>2. CASE o \in batch
    BY <2>1, <2>2 DEF ClaimDuePaymentOrders, Due, Order
  <2>3. CASE o \notin batch
    BY <2>3 DEF ClaimDuePaymentOrders
  <2> QED BY <2>2, <2>3
<1> QED BY <1>1, <1>2, OwnedStay DEF OwnersOfOrdersStay

LEMMA ProcessOwned ==
  ASSUME LedgerAssumption, TypesInv, NEW w \in Workers, NEW o \in Orders,
         ProcessClaimedPayment(w, o)
  PROVE  OwnedAccounts' /\ OwnedOrders'
<1>1. CASE orders[o].status = "PROCESSING" /\ orders[o].ledgerTx = 0
  <2>1. MaySettle(o, orders[o])
    BY <1>1 DEF MaySettle, TypesInv, ReportInv, PaymentsInv, RowSound, LatestWait
  <2> QED BY <1>1, <2>1, SettleKeepsOwned DEF ProcessClaimedPayment
<1>2. CASE ~(orders[o].status = "PROCESSING" /\ orders[o].ledgerTx = 0)
  BY <1>2, OwnedStay DEF ProcessClaimedPayment, OwnersOfOrdersStay, ledgerVars
<1> QED BY <1>1, <1>2

LEMMA TickOwned ==
  ASSUME TypesInv, Tick
  PROVE  OwnedAccounts' /\ OwnedOrders'
<1>1. accounts' = accounts
  BY DEF Tick, ledgerVars
<1>2. ASSUME NEW o \in Orders
      PROVE  orders'[o].owner = orders[o].owner /\ orders'[o].status = orders[o].status
  <2>1. orders[o] \in Order
    BY DEF TypesInv, ReportInv, PaymentsInv
  <2> QED BY <2>1 DEF Tick, Order
<1> QED BY <1>1, <1>2, OwnedStay DEF OwnersOfOrdersStay

\* Where the workers are.
LEMMA WorkersMoveTyped ==
  ASSUME PaymentsAssumption, WorkersTyped, [PaymentsNext]_vars
  PROVE  WorkersTyped'
<1>1. Resting \in Worker /\ MaxFaults \in Nat
  BY DEF Resting, Worker, PaymentsAssumption
<1>2. faults' = faults \/ Fault => faults' \in 0..MaxFaults
  BY <1>1 DEF WorkersTyped, Fault
<1>3. ASSUME NEW w \in Workers, NEW row \in Worker, worker' = [worker EXCEPT ![w] = row]
      PROVE  worker' \in [Workers -> Worker]
  BY <1>3 DEF WorkersTyped
<1>4. ASSUME NEW w \in Workers, NEW next \in {"recovered", "materialized"},
             worker' = [worker EXCEPT ![w].step = next]
      PROVE  worker' \in [Workers -> Worker]
  BY <1>4 DEF WorkersTyped, Worker
<1>5. ASSUME NEW w \in Workers, NEW o \in Orders, Finish(w, o)
      PROVE  worker' \in [Workers -> Worker]
  <2> DEFINE left == worker[w].claimed \ {o}
             row == IF left = {} THEN Resting ELSE [step |-> "processing", claimed |-> left]
  <2>1. row \in Worker
    BY <1>1 DEF WorkersTyped, Worker
  <2>2. worker' = [worker EXCEPT ![w] = row]
    BY <1>5 DEF Finish
  <2> HIDE DEF row
  <2> QED BY <1>3, <2>1, <2>2
<1>6. ASSUME NEW w \in Workers, WorkerStep(w)
      PROVE  worker' \in [Workers -> Worker]
  <2>1. CASE RecoverStalePayments(w)
    BY <1>4, <2>1 DEF RecoverStalePayments
  <2>2. CASE MaterializeNothing(w)
    BY <1>4, <2>2 DEF MaterializeNothing
  <2>3. CASE \E o \in Orders, a \in Accounts, b \in Payees, n \in Amounts :
               MaterializeOccurrence(w, o, a, b, n)
    BY <1>4, <2>3 DEF MaterializeOccurrence
  <2>4. CASE ClaimStep(w)
    <3> PICK batch \in SUBSET Orders : ClaimDuePaymentOrders(w, batch)
      BY <2>4 DEF ClaimStep
    <3> DEFINE row == IF batch = {} THEN Resting
                      ELSE [step |-> "processing", claimed |-> batch]
    <3>1. row \in Worker
      BY <1>1 DEF Worker
    <3>2. worker' = [worker EXCEPT ![w] = row]
      BY DEF ClaimDuePaymentOrders
    <3> HIDE DEF row
    <3> QED BY <1>3, <3>1, <3>2
  <2>5. CASE \E o \in Orders : ProcessClaimedPayment(w, o) \/ ProcessingRolledBack(w, o)
    BY <1>5, <2>5 DEF ProcessClaimedPayment, ProcessingRolledBack
  <2>6. CASE WorkerStops(w) \/ MaterializationFails(w)
    BY <1>1, <1>3, <2>6 DEF WorkerStops, MaterializationFails
  <2> QED BY <1>6, <2>1, <2>2, <2>3, <2>4, <2>5, <2>6 DEF WorkerStep
<1>7. ASSUME worker' = worker, faults' = faults \/ Fault, jammed' \in {jammed, ~jammed}
      PROVE  WorkersTyped'
  BY <1>2, <1>7 DEF WorkersTyped
<1>8. ASSUME NEW u \in Customers, NEW o \in Orders, CustomerPaymentStep(u, o)
      PROVE  WorkersTyped'
  <2>1. CASE \E source \in Accounts, beneficiary \in Payees, amount \in Amounts,
               schedule \in {"IMMEDIATE", "SCHEDULED"}, wait \in -Skew..MaxWait,
               vop \in VoPResult :
               CreatePayment(u, o, source, beneficiary, amount, schedule, wait, vop)
    BY <1>7, <2>1 DEF CreatePayment
  <2>2. CASE \E acceptMismatch \in BOOLEAN, ahead \in -Skew..Skew :
               ConfirmPayment(u, o, acceptMismatch, ahead)
    BY <1>7, <2>2 DEF ConfirmPayment
  <2>3. CASE CancelPayment(u, o)
    BY <1>7, <2>3 DEF CancelPayment
  <2> QED BY <1>8, <2>1, <2>2, <2>3 DEF CustomerPaymentStep
<1>9. ASSUME NEW w \in Workers, WorkerStep(w)
      PROVE  (faults' = faults \/ Fault) /\ jammed' = jammed
  BY <1>9 DEF WorkerStep, RecoverStalePayments, MaterializeNothing, MaterializeOccurrence,
              MaterializationFails, ClaimStep, ClaimDuePaymentOrders, ProcessClaimedPayment, ProcessingRolledBack,
              WorkerStops
<1>10. CASE AuditStep
  BY <1>7, <1>10 DEF AuditStep, WriteAudit, LoseAudit
<1>11. CASE Tick
  BY <1>7, <1>11 DEF Tick
<1>12. CASE JamOrRelease \/ LedgerStep \/ UNCHANGED vars
  BY <1>7, <1>12 DEF JamOrRelease, LedgerStep, vars, paymentVars
<1> QED BY <1>2, <1>6, <1>8, <1>9, <1>10, <1>11, <1>12 DEF PaymentsNext, WorkersTyped

\* Every step is well typed: one case per action.
LEMMA NextTyped ==
  ASSUME LedgerAssumption, PaymentsAssumption, TypesInv, [PaymentsNext]_vars
  PROVE  TypesInv'
<1>1. ReportInv' /\ WorkersTyped'
  BY NextReported, WorkersMoveTyped DEF TypesInv
<1> SUFFICES OwnedAccounts' /\ OwnedOrders'
  BY <1>1 DEF TypesInv
<1>2. ASSUME UNCHANGED <<accounts, orders>>
      PROVE  OwnedAccounts' /\ OwnedOrders'
  BY <1>2, OwnedStay DEF OwnersOfOrdersStay
<1>3. ASSUME NEW u \in Customers, NEW o \in Orders, CustomerPaymentStep(u, o)
      PROVE  OwnedAccounts' /\ OwnedOrders'
  BY <1>3, CreateOwned, ConfirmOwned, CancelOwned DEF CustomerPaymentStep
<1>4. ASSUME NEW w \in Workers, WorkerStep(w)
      PROVE  OwnedAccounts' /\ OwnedOrders'
  <2>1. CASE RecoverStalePayments(w)
    BY <2>1, RecoverOwned
  <2>2. CASE \/ MaterializeNothing(w) \/ MaterializationFails(w) \/ WorkerStops(w)
             \/ \E o \in Orders : ProcessingRolledBack(w, o)
    BY <1>2, <2>2 DEF MaterializeNothing, MaterializationFails, WorkerStops,
                      ProcessingRolledBack, ledgerVars
  <2>3. CASE \E o \in Orders, a \in Accounts, b \in Payees, n \in Amounts :
               MaterializeOccurrence(w, o, a, b, n)
    BY <2>3, MaterializeOwned
  <2>4. CASE ClaimStep(w)
    BY <2>4, ClaimOwned DEF ClaimStep
  <2>5. CASE \E o \in Orders : ProcessClaimedPayment(w, o)
    BY <2>5, ProcessOwned
  <2> QED BY <1>4, <2>1, <2>2, <2>3, <2>4, <2>5 DEF WorkerStep
<1>5. CASE AuditStep
  <2>1. UNCHANGED <<ledgerVars, orders>>
    BY <1>5 DEF AuditStep, WriteAudit, LoseAudit
  <2> QED BY <1>2, <2>1 DEF ledgerVars
<1>6. CASE Tick
  BY <1>6, TickOwned
<1>7. CASE LedgerStep
  <2>1. LedgerNext /\ orders' = orders
    BY <1>7 DEF LedgerStep, paymentVars
  <2>2. LedgerInv /\ OwnedAccounts /\ OwnedOrders
    BY DEF TypesInv, ReportInv, PaymentsInv
  <2> QED BY <2>1, <2>2, LedgerOpensForCustomers DEF OwnedOrders
<1>8. CASE JamOrRelease \/ UNCHANGED vars
  BY <1>2, <1>8 DEF JamOrRelease, vars, ledgerVars, paymentVars
<1> QED BY <1>3, <1>4, <1>5, <1>6, <1>7, <1>8 DEF PaymentsNext

\* The migrated database is well typed.
LEMMA InitTyped ==
  ASSUME LedgerAssumption, PaymentsAssumption, PaymentsInit
  PROVE  TypesInv
<1>1. OwnedAccounts
  BY DEF PaymentsInit, LedgerInit, OwnedAccounts
<1>2. OwnedOrders
  BY DEF PaymentsInit, Unused, OwnedOrders
<1>3. WorkersTyped
  <2>1. worker \in [Workers -> Worker]
    BY DEF PaymentsInit, Resting, Worker
  <2>2. faults \in 0..MaxFaults
    BY DEF PaymentsInit, PaymentsAssumption
  <2>3. jammed \in BOOLEAN
    BY DEF PaymentsInit
  <2> QED BY <2>1, <2>2, <2>3 DEF WorkersTyped
<1> QED BY <1>1, <1>2, <1>3, InitReported DEF TypesInv

\* The events of an order go to customers.
LEMMA EventsTyped ==
  ASSUME TypesInv, NEW o \in Orders
  PROVE  outbox[o] \in Seq(Event)
<1> DEFINE p == orders[o]
           b == p.beneficiary
<1>1. EventsSound(o)
  BY DEF TypesInv, ReportInv
<1>2. CASE p.status = "BOOKED"
  <2> DEFINE sent == [kind |-> "SEPA_PAYMENT_SENT", recipient |-> p.owner]
             received == [kind |-> "SEPA_PAYMENT_RECEIVED", recipient |-> accounts[b].owner]
  <2>1. sent \in Event
    BY <1>2 DEF TypesInv, OwnedOrders, Event, Activity
  <2>2. b = NoAccount \/ accounts[b].system \/ received \in Event
    BY <1>1, <1>2 DEF TypesInv, OwnedAccounts, EventsSound, Event, Activity
  <2>3. \/ outbox[o] = <<sent>>
        \/ outbox[o] = <<sent, received>> /\ ~(b = NoAccount \/ accounts[b].system)
    BY <1>1, <1>2 DEF EventsSound, BookedEvents
  <2> HIDE DEF sent, received, b
  <2>4. CASE outbox[o] = <<sent>>
    BY <2>1, <2>4
  <2>5. CASE outbox[o] = <<sent, received>> /\ received \in Event
    BY <2>1, <2>5
  <2> QED BY <2>2, <2>3, <2>4, <2>5
<1>3. CASE p.status = "FAILED"
  <2> DEFINE failed == [kind |-> "SEPA_PAYMENT_FAILED", recipient |-> p.owner]
  <2>1. failed \in Event
    BY <1>3 DEF TypesInv, OwnedOrders, Event, Activity
  <2>2. outbox[o] = <<failed>>
    BY <1>1, <1>3 DEF EventsSound, FailedEvents
  <2> HIDE DEF failed
  <2> QED BY <2>1, <2>2
<1>4. CASE p.status \notin {"BOOKED", "FAILED"}
  BY <1>1, <1>4 DEF EventsSound
<1> QED BY <1>2, <1>3, <1>4

\* Orders, reports and workers are well typed; every event has a recipient.
THEOREM PaymentsWellTyped == PaymentsSpec => []PaymentsTypeOK
<1>1. PaymentsInit => TypesInv
  BY LedgerAssumption, PaymentsAssumption, InitTyped
<1>2. TypesInv /\ [PaymentsNext]_vars => TypesInv'
  BY LedgerAssumption, PaymentsAssumption, NextTyped
<1>3. TypesInv => PaymentsTypeOK
  <2> SUFFICES ASSUME TypesInv PROVE PaymentsTypeOK
    OBVIOUS
  <2>1. outbox = [o \in Orders |-> outbox[o]] /\ \A o \in Orders : outbox[o] \in Seq(Event)
    BY EventsTyped DEF TypesInv, ReportInv, PaymentsInv
  <2>2. outbox \in [Orders -> Seq(Event)]
    BY <2>1
  <2> QED BY <2>2 DEF PaymentsTypeOK, TypesInv, ReportInv, PaymentsInv, WorkersTyped
<1> QED BY <1>1, <1>2, <1>3, PTL DEF PaymentsSpec

-----------------------------------------------------------------------------
(* The promise *)

\* A debit leg of an order and the credit leg of the same transaction.
Legs ==
  {pair \in entries \X entries :
     /\ pair[1].tx = pair[2].tx
     /\ pair[1].order # NoOrder
     /\ pair[1].debit > 0 /\ pair[2].credit > 0}

MoveOf(leg) ==
  [id |-> leg[1].tx, order |-> leg[1].order, from |-> leg[1].account,
   to |-> leg[2].account, amount |-> leg[1].debit]

LEMMA MovesOfLegs == PaidMoves = {MoveOf(leg) : leg \in Legs}
BY DEF PaidMoves, Legs, MoveOf

\* The ids of entries are used up.
LEMMA NewTxIsFresh ==
  ASSUME LedgerInv
  PROVE  /\ lastTx \in Nat
         /\ \A e \in entries : e.tx # lastTx + 1
         /\ \A m \in PaidMoves : m.id # lastTx + 1
<1>1. lastTx \in Nat /\ \A e \in entries : e.tx \in 1..lastTx
  BY DEF LedgerInv, LedgerTypeOK, DoubleEntry
<1>2. \A leg \in Legs : leg[1] \in entries
  BY DEF Legs
<1> QED BY <1>1, <1>2, MovesOfLegs DEF MoveOf

\* A posting for no order is no move.
LEMMA PlainPostMovesNothing ==
  ASSUME LedgerAssumption, LedgerInv, NEW table, NEW d, NEW c, NEW n,
         PostOn(table, d, c, n, NoOrder)
  PROVE  PaidMoves' = PaidMoves
<1> DEFINE x == [tx |-> lastTx', account |-> d, debit |-> n, credit |-> 0, order |-> NoOrder]
           y == [tx |-> lastTx', account |-> c, debit |-> 0, credit |-> n, order |-> NoOrder]
<1>1. entries' = entries \union {x, y} /\ lastTx' = lastTx + 1
  BY DEF PostOn
<1>2. x.tx = lastTx + 1 /\ y.tx = lastTx + 1 /\ x.order = NoOrder /\ y.order = NoOrder
  BY <1>1
<1> HIDE DEF x, y
<1>3. Legs' = Legs
  <2>1. ASSUME NEW e \in entries', NEW f \in entries', e.tx = f.tx, e.order # NoOrder
        PROVE  e \in entries /\ f \in entries
    BY <1>1, <1>2, <2>1, NewTxIsFresh
  <2>2. ASSUME NEW leg \in Legs'
        PROVE  leg \in Legs
    BY <2>1 DEF Legs
  <2>3. ASSUME NEW leg \in Legs
        PROVE  leg \in Legs'
    BY <1>1 DEF Legs
  <2> QED BY <2>2, <2>3
<1>4. PaidMoves' = {MoveOf(leg) : leg \in Legs'}
  BY DEF PaidMoves, Legs, MoveOf
<1> QED BY <1>3, <1>4, MovesOfLegs

\* A posting for an order is one move.
LEMMA OrderPostMovesOnce ==
  ASSUME LedgerAssumption, LedgerInv, NEW table, NEW d, NEW c, NEW n \in Nat \ {0},
         NEW o \in Orders, PostOn(table, d, c, n, o)
  PROVE  PaidMoves' = PaidMoves \union
           {[id |-> lastTx + 1, order |-> o, from |-> d, to |-> c, amount |-> n]}
<1> DEFINE x == [tx |-> lastTx', account |-> d, debit |-> n, credit |-> 0, order |-> o]
           y == [tx |-> lastTx', account |-> c, debit |-> 0, credit |-> n, order |-> o]
<1>1. entries' = entries \union {x, y} /\ lastTx' = lastTx + 1
  BY DEF PostOn
<1>2. /\ x.tx = lastTx + 1 /\ x.order = o /\ x.account = d /\ x.debit = n /\ x.credit = 0
      /\ y.tx = lastTx + 1 /\ y.order = o /\ y.account = c /\ y.debit = 0 /\ y.credit = n
      /\ o # NoOrder
  BY <1>1 DEF LedgerAssumption
<1> HIDE DEF x, y
<1>3. Legs' = Legs \union {<<x, y>>}
  <2>1. ASSUME NEW e \in entries', NEW f \in entries', e.tx = f.tx,
               e.debit > 0, f.credit > 0
        PROVE  (e \in entries /\ f \in entries) \/ (e = x /\ f = y)
    BY <1>1, <1>2, <2>1, NewTxIsFresh
  <2>2. Legs' \subseteq Legs \union {<<x, y>>}
    BY <2>1 DEF Legs
  <2>3. Legs \subseteq Legs' /\ <<x, y>> \in Legs'
    BY <1>1, <1>2 DEF Legs
  <2> QED BY <2>2, <2>3
<1>4. MoveOf(<<x, y>>) =
        [id |-> lastTx + 1, order |-> o, from |-> d, to |-> c, amount |-> n]
  BY <1>2 DEF MoveOf
<1>5. PaidMoves' = {MoveOf(leg) : leg \in Legs'}
  BY DEF PaidMoves, Legs, MoveOf
<1> QED BY <1>3, <1>4, <1>5, MovesOfLegs

\* A step of the promise, or none.
PromiseStep == [Promise!PromiseNext]_Promise!promiseVars

\* The promise says the same of two rows.
SamePromise(p, r) == Deal(r) = Deal(p) /\ Outcome(r.status) = Outcome(p.status)

\* Nothing happens to the promise.
LEMMA PromiseStutters ==
  ASSUME \A o \in Orders : SamePromise(orders[o], orders'[o]), PaidMoves' = PaidMoves
  PROVE  PromiseStep
BY DEF PromiseStep, SamePromise, Promise!promiseVars

\* A row that changes neither its outcome nor what was agreed.
LEMMA OpenRow ==
  ASSUME NEW p, NEW r, p.status \in {"AWAITING_CONFIRMATION", "SCHEDULED", "PROCESSING"},
         r.status \in {"AWAITING_CONFIRMATION", "SCHEDULED", "PROCESSING"} ,
         r.source = p.source, r.beneficiary = p.beneficiary, r.amount = p.amount
  PROVE  SamePromise(p, r)
BY DEF SamePromise, Deal, Destination, Outcome

\* A step that posts nothing leaves the moves alone.
LEMMA NothingMoves == ASSUME entries' = entries PROVE PaidMoves' = PaidMoves
BY DEF PaidMoves

\* A table of which one value changes.
LEMMA OneValueChanges ==
  ASSUME NEW S, NEW o \in S, NEW f, NEW g, NEW v,
         f = [q \in S |-> f[q]], g = [q \in S |-> g[q]],
         g[o] = v, \A q \in S \ {o} : g[q] = f[q]
  PROVE  g = [f EXCEPT ![o] = v]
OBVIOUS

\* One order is opened.
LEMMA OpenPromise ==
  ASSUME LedgerAssumption, PaymentsInv, NEW o \in Orders, NEW a \in Accounts, NEW b \in Payees,
         NEW n \in Amounts, orders[o].status = "NONE",
         NEW r, orders' = [orders EXCEPT ![o] = r],
         r.status \in {"AWAITING_CONFIRMATION", "SCHEDULED"},
         r.source = a, r.beneficiary = b, r.amount = n, entries' = entries
  PROVE  PromiseStep
<1> DEFINE d == [from |-> a, to |-> Destination(r), amount |-> n]
<1>1. Destination(r) \in Accounts
  BY DEF Destination, LedgerAssumption, Payees
<1>2. d \in Promise!Agreement
  BY <1>1 DEF Promise!Agreement
<1>3. Deal(r) = d /\ Outcome(r.status) = "open" /\ Outcome(orders[o].status) = "none"
  BY DEF Deal, Outcome
<1> HIDE DEF d
<1>4. orders \in [Orders -> Order]
  BY DEF PaymentsInv
<1>5. orders'[o] = r /\ \A q \in Orders \ {o} : orders'[q] = orders[q]
  BY <1>4
<1>6. PaidMoves' = PaidMoves
  BY NothingMoves
<1>7. [q \in Orders |-> Deal(orders'[q])] =
        [[q \in Orders |-> Deal(orders[q])] EXCEPT ![o] = d]
  <2> DEFINE f == [q \in Orders |-> Deal(orders[q])]
             g == [q \in Orders |-> Deal(orders'[q])]
  <2>1. f = [q \in Orders |-> f[q]] /\ g = [q \in Orders |-> g[q]]
        /\ g[o] = d /\ \A q \in Orders \ {o} : g[q] = f[q]
    BY <1>3, <1>5
  <2> HIDE DEF f, g
  <2>2. g = [f EXCEPT ![o] = d]
    BY <2>1, OneValueChanges
  <2> QED BY <2>2 DEF f, g
<1>8. [q \in Orders |-> Outcome(orders'[q].status)] =
        [[q \in Orders |-> Outcome(orders[q].status)] EXCEPT ![o] = "open"]
  <2> DEFINE f == [q \in Orders |-> Outcome(orders[q].status)]
             g == [q \in Orders |-> Outcome(orders'[q].status)]
  <2>1. f = [q \in Orders |-> f[q]] /\ g = [q \in Orders |-> g[q]]
        /\ g[o] = "open" /\ \A q \in Orders \ {o} : g[q] = f[q]
    BY <1>3, <1>5
  <2> HIDE DEF f, g
  <2>2. g = [f EXCEPT ![o] = "open"]
    BY <2>1, OneValueChanges
  <2> QED BY <2>2 DEF f, g
<1>9. Promise!Open(o, d)
  BY <1>3, <1>6, <1>7, <1>8 DEF Promise!Open
<1> QED BY <1>2, <1>9 DEF PromiseStep, Promise!PromiseNext

\* One order gets its outcome, its agreement being what it was.
LEMMA OutcomePromise ==
  ASSUME PaymentsInv, NEW o \in Orders, NEW r, orders' = [orders EXCEPT ![o] = r],
         orders[o].status \in {"DRAFT", "AWAITING_CONFIRMATION", "SCHEDULED", "PROCESSING"},
         r.status \in Terminal,
         r.source = orders[o].source, r.beneficiary = orders[o].beneficiary,
         r.amount = orders[o].amount
  PROVE  /\ [q \in Orders |-> Outcome(orders[q].status)][o] = "open"
         /\ [q \in Orders |-> Deal(orders'[q])] = [q \in Orders |-> Deal(orders[q])]
         /\ [q \in Orders |-> Deal(orders[q])][o] =
              [from |-> r.source, to |-> Destination(r), amount |-> r.amount]
         /\ [q \in Orders |-> Outcome(orders'[q].status)] =
              [[q \in Orders |-> Outcome(orders[q].status)] EXCEPT ![o] = Outcome(r.status)]
<1>1. orders \in [Orders -> Order]
  BY DEF PaymentsInv
<1>2. orders'[o] = r /\ \A q \in Orders \ {o} : orders'[q] = orders[q]
  BY <1>1
<1>3. Deal(r) = Deal(orders[o]) /\ Outcome(orders[o].status) = "open"
      /\ Deal(r) = [from |-> r.source, to |-> Destination(r), amount |-> r.amount]
  BY DEF Deal, Outcome, Destination
<1>4. \A q \in Orders : Deal(orders'[q]) = Deal(orders[q])
  BY <1>2, <1>3
<1>5. [q \in Orders |-> Outcome(orders'[q].status)] =
        [[q \in Orders |-> Outcome(orders[q].status)] EXCEPT ![o] = Outcome(r.status)]
  <2> DEFINE f == [q \in Orders |-> Outcome(orders[q].status)]
             g == [q \in Orders |-> Outcome(orders'[q].status)]
             v == Outcome(r.status)
  <2>1. f = [q \in Orders |-> f[q]] /\ g = [q \in Orders |-> g[q]]
        /\ g[o] = v /\ \A q \in Orders \ {o} : g[q] = f[q]
    BY <1>2
  <2> HIDE DEF f, g, v
  <2>2. g = [f EXCEPT ![o] = v]
    BY <2>1, OneValueChanges
  <2> QED BY <2>2 DEF f, g, v
<1> QED BY <1>3, <1>4, <1>5

\* Cancelled or failed: nothing is paid.
LEMMA ClosePromise ==
  ASSUME PaymentsInv, NEW o \in Orders, NEW r, orders' = [orders EXCEPT ![o] = r],
         orders[o].status \in {"DRAFT", "AWAITING_CONFIRMATION", "SCHEDULED", "PROCESSING"},
         r.status \in {"CANCELLED", "FAILED"},
         r.source = orders[o].source, r.beneficiary = orders[o].beneficiary,
         r.amount = orders[o].amount, entries' = entries
  PROVE  PromiseStep
<1>1. PaidMoves' = PaidMoves
  BY NothingMoves
<1>2. PICK result \in {"rejected", "withdrawn"} : Outcome(r.status) = result
  BY DEF Outcome
<1>3. Promise!Close(o, result)
  BY <1>1, <1>2, OutcomePromise DEF Promise!Close
<1> QED BY <1>2, <1>3 DEF PromiseStep, Promise!PromiseNext

\* A settlement is a payment or a rejection.
LEMMA SettlePromise ==
  ASSUME LedgerAssumption, PaymentsInv, NEW o \in Orders, NEW p, MaySettle(o, p),
         orders[o].status # "NONE", p.source = orders[o].source,
         p.beneficiary = orders[o].beneficiary, p.amount = orders[o].amount,
         Settle(o, p)
  PROVE  PromiseStep
<1>1. /\ p \in Order /\ LedgerInv
      /\ orders[o].status \in {"DRAFT", "AWAITING_CONFIRMATION", "SCHEDULED", "PROCESSING"}
  BY DEF MaySettle, PaymentsInv, Order
<1>2. CASE Book(o, p)
  <2> DEFINE r == MarkPaymentBooked(p, lastTx')
  <2>1. orders' = [orders EXCEPT ![o] = r]
        /\ Post(p.source, Destination(p), p.amount, o)
    BY <1>2 DEF Book, MarkPaymentBooked, CreatePaymentEntries
  <2>2. lastTx \in Nat /\ lastTx' = lastTx + 1 /\ lastTx < MaxTx /\ MaxTx \in Nat
    BY <1>1, <2>1 DEF Post, PostOn, LedgerInv, LedgerTypeOK, LedgerAssumption
  <2>3. r.status = "BOOKED" /\ r.source = p.source /\ r.beneficiary = p.beneficiary
        /\ r.amount = p.amount
    <3>1. lastTx' \in Nat
      BY <2>2
    <3>2. r = MarkPaymentBooked(p, lastTx')
      OBVIOUS
    <3> HIDE DEF r
    <3> QED BY <1>1, <3>1, <3>2, BookedRow
  <2>4. p.amount \in Nat \ {0}
    <3>1. p.amount \in Nat
      BY <1>1 DEF Order
    <3>2. ~(p.amount <= 0)
      BY <1>2 DEF Book, BookingVerdict, PlanCustomerTransfer, CreatePaymentEntries
    <3> QED BY <3>1, <3>2
  <2> HIDE DEF r
  <2>5. Destination(r) = Destination(p)
    BY <2>3 DEF Destination
  <2>6. PaidMoves' = PaidMoves \union
          {[id |-> lastTx + 1, order |-> o, from |-> r.source, to |-> Destination(r),
            amount |-> r.amount]}
    BY <1>1, <2>1, <2>3, <2>4, <2>5, OrderPostMovesOnce DEF Post
  <2>7. Outcome("BOOKED") = "paid"
    BY DEF Outcome
  <2>8. Promise!Pay(o, lastTx + 1)
    <3>1. /\ [q \in Orders |-> Outcome(orders[q].status)][o] = "open"
          /\ [q \in Orders |-> Deal(orders'[q])] = [q \in Orders |-> Deal(orders[q])]
          /\ [q \in Orders |-> Deal(orders[q])][o] =
               [from |-> r.source, to |-> Destination(r), amount |-> r.amount]
          /\ [q \in Orders |-> Outcome(orders'[q].status)] =
               [[q \in Orders |-> Outcome(orders[q].status)] EXCEPT ![o] = "paid"]
      <4>1. r.status \in Terminal /\ Outcome(r.status) = "paid"
        BY <2>3, <2>7
      <4>2. r.source = orders[o].source /\ r.beneficiary = orders[o].beneficiary
            /\ r.amount = orders[o].amount /\ orders' = [orders EXCEPT ![o] = r]
        BY <2>1, <2>3
      <4>3. /\ [q \in Orders |-> Outcome(orders[q].status)][o] = "open"
            /\ [q \in Orders |-> Deal(orders'[q])] = [q \in Orders |-> Deal(orders[q])]
            /\ [q \in Orders |-> Deal(orders[q])][o] =
                 [from |-> r.source, to |-> Destination(r), amount |-> r.amount]
            /\ [q \in Orders |-> Outcome(orders'[q].status)] =
                 [[q \in Orders |-> Outcome(orders[q].status)] EXCEPT ![o] = Outcome(r.status)]
        BY <1>1, <4>1, <4>2, OutcomePromise
      <4> QED BY <4>1, <4>3
    <3>2. /\ [q \in Orders |-> Deal(orders[q])][o].from = r.source
          /\ [q \in Orders |-> Deal(orders[q])][o].to = Destination(r)
          /\ [q \in Orders |-> Deal(orders[q])][o].amount = r.amount
      BY <3>1
    <3>3. \A m \in PaidMoves : m.id # lastTx + 1
      BY <1>1, NewTxIsFresh
    <3> QED BY <2>6, <3>1, <3>2, <3>3 DEF Promise!Pay
  <2>9. lastTx + 1 \in 1..MaxTx
    BY <2>2
  <2> QED BY <2>8, <2>9 DEF PromiseStep, Promise!PromiseNext
<1>3. CASE Fail(o, p)
  <2> DEFINE r == [p EXCEPT !.status = "FAILED"]
  <2>1. orders' = [orders EXCEPT ![o] = r] /\ entries' = entries
    BY <1>3 DEF Fail, ledgerVars, MarkPaymentFailed
  <2>2. r.status = "FAILED" /\ r.source = p.source /\ r.beneficiary = p.beneficiary
        /\ r.amount = p.amount
    BY <1>1, StatusRow
  <2> HIDE DEF r
  <2> QED BY <1>1, <2>1, <2>2, ClosePromise
<1> QED BY <1>2, <1>3 DEF Settle

\* One row changes and the promise does not see it.
LEMMA QuietRowPromise ==
  ASSUME PaymentsInv, NEW o \in Orders, NEW r, orders' = [orders EXCEPT ![o] = r],
         SamePromise(orders[o], r), entries' = entries
  PROVE  PromiseStep
<1>1. \A q \in Orders \ {o} : orders'[q] = orders[q]
  BY DEF PaymentsInv
<1>2. orders'[o] = r
  BY DEF PaymentsInv
<1>3. \A q \in Orders : SamePromise(orders[q], orders'[q])
  BY <1>1, <1>2 DEF SamePromise
<1> QED BY <1>3, NothingMoves, PromiseStutters

\* Rows that are what they were.
LEMMA SameOrdersPromise ==
  ASSUME UNCHANGED <<orders, entries>> PROVE PromiseStep
BY NothingMoves, PromiseStutters DEF SamePromise

\* Creating an order opens it.
LEMMA CreatePromise ==
  ASSUME LedgerAssumption, PaymentsInv, NEW u \in Customers, NEW o \in Orders,
         NEW a \in Accounts, NEW b \in Payees, NEW n \in Amounts, NEW k, NEW m, NEW v,
         CreatePayment(u, o, a, b, n, k, m, v)
  PROVE  PromiseStep
<1> DEFINE r == [Unused EXCEPT !.status = "AWAITING_CONFIRMATION", !.owner = u,
                   !.source = a, !.beneficiary = b, !.amount = n,
                   !.schedule = k, !.wait = m, !.vop = v]
<1>1. orders[o].status = "NONE" /\ orders' = [orders EXCEPT ![o] = r] /\ entries' = entries
  BY DEF CreatePayment, ledgerVars, PayeeFound
<1>2. r.status = "AWAITING_CONFIRMATION" /\ r.source = a /\ r.beneficiary = b /\ r.amount = n
  BY DEF Unused
<1> HIDE DEF r
<1> QED BY <1>1, <1>2, OpenPromise

\* So does an occurrence of a standing order.
LEMMA MaterializePromise ==
  ASSUME LedgerAssumption, PaymentsInv, NEW w \in Workers, NEW o \in Orders,
         NEW a \in Accounts, NEW b \in Payees, NEW n \in Amounts,
         MaterializeOccurrence(w, o, a, b, n)
  PROVE  PromiseStep
<1> DEFINE v == IF b = NoAccount THEN "OTHER" ELSE "MATCH"
           r == [Unused EXCEPT !.status = "SCHEDULED", !.owner = accounts[a].owner,
                   !.source = a, !.beneficiary = b, !.amount = n,
                   !.schedule = "STANDING", !.vop = v]
<1>1. orders[o].status = "NONE" /\ orders' = [orders EXCEPT ![o] = r] /\ entries' = entries
  BY DEF MaterializeOccurrence, ledgerVars, PayeeFound
<1>2. r.status = "SCHEDULED" /\ r.source = a /\ r.beneficiary = b /\ r.amount = n
  BY DEF Unused
<1> HIDE DEF r
<1> QED BY <1>1, <1>2, OpenPromise

\* A confirmation schedules the order, or settles it.
LEMMA ConfirmPromise ==
  ASSUME LedgerAssumption, PaymentsAssumption, PaymentsInv, NEW u \in Customers, NEW o \in Orders,
         NEW acceptMismatch \in BOOLEAN, NEW ahead \in -Skew..Skew,
         ConfirmPayment(u, o, acceptMismatch, ahead)
  PROVE  PromiseStep
<1> DEFINE p == orders[o]
           later == p.schedule = "SCHEDULED" /\ p.wait > ahead
           target == IF later THEN "SCHEDULED" ELSE "PROCESSING"
           override == p.vop # "MATCH"
           accepts == override /\ acceptMismatch
           r == ConfirmPaymentOrder(p, target, override, accepts)
<1>1. /\ p.status = "AWAITING_CONFIRMATION"
      /\ override => acceptMismatch
      /\ \/ later /\ orders' = [orders EXCEPT ![o] = r] /\ UNCHANGED ledgerVars
         \/ ~later /\ Settle(o, r)
  BY DEF ConfirmPayment, ConfirmPaymentOrder
<1>2. p \in Order /\ RowSound(p) /\ p.wait \in Int
  BY DEF PaymentsInv, Order
<1>3. target \in PaymentStatus /\ override \in BOOLEAN /\ accepts \in BOOLEAN
      /\ (acceptMismatch => (accepts <=> override))
  OBVIOUS
<1> HIDE DEF p, target, override, accepts, r
<1>4. /\ r \in Order
      /\ r.status = target /\ r.source = p.source /\ r.beneficiary = p.beneficiary
      /\ r.amount = p.amount
      /\ r.schedule = p.schedule /\ r.wait = p.wait /\ r.vop = p.vop
      /\ r.decided /\ (r.overridden <=> override)
      /\ (r.accepted <=> accepts) /\ r.ledgerTx = p.ledgerTx
  BY <1>2, <1>3 DEF r, ConfirmPaymentOrder, Order
<1>5. Consented(r) /\ r.source \in Accounts /\ r.ledgerTx = 0
  BY <1>1, <1>2, <1>3, <1>4 DEF Consented, RowSound, override
<1>6. CASE later
  <2>1. r.status = "SCHEDULED" /\ entries' = entries
    BY <1>1, <1>4, <1>6 DEF target, ledgerVars
  <2>2. SamePromise(p, r)
    BY <1>1, <1>4, <2>1, OpenRow
  <2>3. orders' = [orders EXCEPT ![o] = r]
    BY <1>1, <1>6
  <2> QED BY <2>1, <2>2, <2>3, QuietRowPromise DEF p
<1>7. CASE ~later
  <2>1. MaySettle(o, r)
    BY <1>1, <1>2, <1>4, <1>5, <1>7 DEF MaySettle, RowSound, LatestWait, PaymentsAssumption, p, target
  <2>2. Settle(o, r) /\ p.status # "NONE"
    BY <1>1, <1>7
  <2>3. orders[o].status # "NONE" /\ r.source = orders[o].source
        /\ r.beneficiary = orders[o].beneficiary /\ r.amount = orders[o].amount
    BY <1>4, <2>2 DEF p
  <2> QED BY <2>1, <2>2, <2>3, SettlePromise
<1> QED BY <1>6, <1>7

\* A cancellation withdraws the order.
LEMMA CancelPromise ==
  ASSUME PaymentsInv, NEW u \in Customers, NEW o \in Orders, CancelPayment(u, o)
  PROVE  PromiseStep
<1> DEFINE r == [orders[o] EXCEPT !.status = "CANCELLED"]
<1>1. orders' = [orders EXCEPT ![o] = r] /\ entries' = entries
      /\ orders[o].status \in {"DRAFT", "AWAITING_CONFIRMATION", "SCHEDULED", "PROCESSING"}
  BY DEF CancelPayment, ledgerVars, CancelPaymentOrder
<1>2. orders[o] \in Order
  BY DEF PaymentsInv
<1>3. r.status = "CANCELLED" /\ r.source = orders[o].source
      /\ r.beneficiary = orders[o].beneficiary /\ r.amount = orders[o].amount
  BY <1>2, StatusRow
<1> HIDE DEF r
<1> QED BY <1>1, <1>3, ClosePromise

\* A recovery hides behind an open order.
LEMMA RecoverPromise ==
  ASSUME PaymentsInv, NEW w \in Workers, RecoverStalePayments(w)
  PROVE  PromiseStep
<1>1. ASSUME NEW o \in Orders
      PROVE  SamePromise(orders[o], orders'[o])
  <2> DEFINE p == orders[o]
             r == [p EXCEPT !.status = "SCHEDULED", !.age = -1]
  <2>1. orders'[o] = IF Stale(p) THEN r ELSE p
    BY DEF RecoverStalePayments
  <2>2. p \in Order
    BY DEF PaymentsInv
  <2>3. r.status = "SCHEDULED" /\ r.source = p.source /\ r.beneficiary = p.beneficiary
        /\ r.amount = p.amount
    BY <2>2 DEF Order
  <2>4. Stale(p) => p.status = "PROCESSING"
    BY DEF Stale
  <2> HIDE DEF p, r
  <2>5. CASE Stale(p)
    BY <2>1, <2>3, <2>4, <2>5, OpenRow DEF p
  <2>6. CASE ~Stale(p)
    BY <2>1, <2>6 DEF SamePromise, p
  <2> QED BY <2>5, <2>6
<1>2. entries' = entries
  BY DEF RecoverStalePayments, ledgerVars
<1> QED BY <1>1, <1>2, NothingMoves, PromiseStutters

\* So does a claim.
LEMMA ClaimPromise ==
  ASSUME PaymentsInv, NEW w \in Workers, NEW batch, ClaimDuePaymentOrders(w, batch)
  PROVE  PromiseStep
<1>1. ASSUME NEW o \in Orders
      PROVE  SamePromise(orders[o], orders'[o])
  <2> DEFINE p == orders[o]
             r == [p EXCEPT !.status = "PROCESSING", !.age = 0]
  <2>1. orders'[o] = IF o \in batch THEN r ELSE p
    BY DEF ClaimDuePaymentOrders
  <2>2. p \in Order
    BY DEF PaymentsInv
  <2>3. r.status = "PROCESSING" /\ r.source = p.source /\ r.beneficiary = p.beneficiary
        /\ r.amount = p.amount
    BY <2>2 DEF Order
  <2>4. o \in batch => p.status = "SCHEDULED"
    BY DEF ClaimDuePaymentOrders, Due
  <2> HIDE DEF p, r
  <2>5. CASE o \in batch
    BY <2>1, <2>3, <2>4, <2>5, OpenRow DEF p
  <2>6. CASE o \notin batch
    BY <2>1, <2>6 DEF SamePromise, p
  <2> QED BY <2>5, <2>6
<1>2. entries' = entries
  BY DEF ClaimDuePaymentOrders, ledgerVars
<1> QED BY <1>1, <1>2, NothingMoves, PromiseStutters

\* Time does not count in the promise.
LEMMA TickPromise ==
  ASSUME PaymentsInv, Tick
  PROVE  PromiseStep
<1>1. ASSUME NEW o \in Orders
      PROVE  SamePromise(orders[o], orders'[o])
  <2> DEFINE p == orders[o]
  <2>1. p \in Order
    BY DEF PaymentsInv
  <2>2. /\ orders'[o].status = p.status /\ orders'[o].source = p.source
        /\ orders'[o].beneficiary = p.beneficiary /\ orders'[o].amount = p.amount
    BY <2>1 DEF Tick, Order
  <2> QED BY <2>2 DEF SamePromise, Deal, Destination
<1>2. entries' = entries
  BY DEF Tick, ledgerVars
<1> QED BY <1>1, <1>2, NothingMoves, PromiseStutters

\* The rest of the ledger's use is not the promise's business.
LEMMA LedgerPromise ==
  ASSUME LedgerAssumption, PaymentsInv, LedgerStep
  PROVE  PromiseStep
<1>1. \/ UNCHANGED entries
      \/ \E table, d, c, n : PostOn(table, d, c, n, NoOrder)
  BY DEF LedgerStep, LedgerNext, OperatorStep, CustomerStep, Deposit, Withdraw, DepositTx,
       WithdrawTx, AdjustBalanceAsAdmin, UpdateAdminAccountStatus, CreateFundedCustomer,
       CreateAccount, DeleteAccount, Transfer, Post
<1>2. LedgerInv
  BY DEF PaymentsInv
<1>3. PaidMoves' = PaidMoves
  BY <1>1, <1>2, PlainPostMovesNothing, NothingMoves
<1>4. orders' = orders
  BY DEF LedgerStep, paymentVars
<1> QED BY <1>3, <1>4, PromiseStutters DEF SamePromise

\* Settling a claimed order is a payment or a rejection.
LEMMA ProcessPromise ==
  ASSUME LedgerAssumption, PaymentsInv, NEW w \in Workers, NEW o \in Orders,
         ProcessClaimedPayment(w, o)
  PROVE  PromiseStep
<1>1. CASE orders[o].status = "PROCESSING" /\ orders[o].ledgerTx = 0
  <2>1. MaySettle(o, orders[o])
    BY <1>1 DEF MaySettle, PaymentsInv, RowSound, LatestWait
  <2>2. Settle(o, orders[o])
    BY <1>1 DEF ProcessClaimedPayment
  <2> QED BY <1>1, <2>1, <2>2, SettlePromise
<1>2. CASE ~(orders[o].status = "PROCESSING" /\ orders[o].ledgerTx = 0)
  BY <1>2, SameOrdersPromise DEF ProcessClaimedPayment, ledgerVars
<1> QED BY <1>1, <1>2

\* Every step is a step of the promise, or none: one case per action.
LEMMA NextPromise ==
  ASSUME LedgerAssumption, PaymentsAssumption, PaymentsInv, [PaymentsNext]_vars
  PROVE  PromiseStep
<1>1. ASSUME NEW u \in Customers, NEW o \in Orders, CustomerPaymentStep(u, o)
      PROVE  PromiseStep
  BY <1>1, CreatePromise, ConfirmPromise, CancelPromise DEF CustomerPaymentStep
<1>2. ASSUME NEW w \in Workers, WorkerStep(w)
      PROVE  PromiseStep
  <2>1. CASE RecoverStalePayments(w)
    BY <2>1, RecoverPromise
  <2>2. CASE MaterializeNothing(w) \/ MaterializationFails(w)
    BY <2>2, SameOrdersPromise DEF MaterializeNothing, MaterializationFails, ledgerVars
  <2>3. CASE \E o \in Orders, a \in Accounts, b \in Payees, n \in Amounts :
               MaterializeOccurrence(w, o, a, b, n)
    BY <2>3, MaterializePromise
  <2>4. CASE ClaimStep(w)
    BY <2>4, ClaimPromise DEF ClaimStep
  <2>5. CASE \E o \in Orders : ProcessClaimedPayment(w, o)
    BY <2>5, ProcessPromise
  <2>6. CASE \E o \in Orders : ProcessingRolledBack(w, o)
    BY <2>6, SameOrdersPromise DEF ProcessingRolledBack, ledgerVars
  <2>7. CASE WorkerStops(w)
    BY <2>7, SameOrdersPromise DEF WorkerStops, ledgerVars
  <2> QED BY <1>2, <2>1, <2>2, <2>3, <2>4, <2>5, <2>6, <2>7 DEF WorkerStep
<1>3. CASE AuditStep
  BY <1>3, SameOrdersPromise DEF AuditStep, WriteAudit, LoseAudit, ledgerVars
<1>4. CASE Tick
  BY <1>4, TickPromise
<1>5. CASE LedgerStep
  BY <1>5, LedgerPromise
<1>6. CASE JamOrRelease \/ UNCHANGED vars
  BY <1>6, SameOrdersPromise DEF JamOrRelease, vars, paymentVars, ledgerVars
<1> QED BY <1>1, <1>2, <1>3, <1>4, <1>5, <1>6 DEF PaymentsNext

\* No order is open and nothing was paid.
LEMMA InitPromise ==
  ASSUME PaymentsInit
  PROVE  Promise!PromiseInit
<1>1. \A o \in Orders : Deal(orders[o]) = NoDeal /\ Outcome(orders[o].status) = "none"
  BY DEF PaymentsInit, Unused, Deal, Outcome
<1>2. PaidMoves = {}
  BY DEF PaymentsInit, LedgerInit, PaidMoves
<1> QED BY <1>1, <1>2 DEF Promise!PromiseInit

\* ImplementsPromise.  Every behaviour of the payment tables and the ledger is
\* a behaviour of the promise: agreements are kept as they were made, outcomes
\* are final, and the one movement agreed on is made when an order is paid.
THEOREM PaymentsKeepPromise == PaymentsSpec => ImplementsPromise
<1>1. PaymentsInit => Promise!PromiseInit
  BY InitPromise
<1>2. PaymentsInv /\ [PaymentsNext]_vars => [Promise!PromiseNext]_Promise!promiseVars
  BY LedgerAssumption, PaymentsAssumption, NextPromise DEF PromiseStep
<1> QED BY <1>1, <1>2, PaymentsInvariant, PTL
    DEF PaymentsSpec, ImplementsPromise, Promise!PromiseSpec

-----------------------------------------------------------------------------
(* One call that books an order *)

\* From the row lock to COMMIT nobody else moves the order.
LockHolds == step \in {"locked", "executed"} => order = Expected

\* An attempt that has run its closure has an outcome, and a refused booking
\* has left its error in businessErr.
OutcomeWritten ==
  step = "executed" =>
    /\ inTx \in Outcomes
    /\ inTx = "FAILED" => businessErr = "REJECTED"

\* A call that has not returned has committed nothing.
NothingCommittedYet == step # "answered" => effect = "none"

\* The inductive invariant.
BookingInv ==
  /\ BookingTypeOK
  /\ RetriesPostOnce
  /\ AnswerTellsCommit
  /\ LockHolds
  /\ OutcomeWritten
  /\ NothingCommittedYet

USE DEF Outcomes, Answers, Expected

\* The invariant holds when the call begins.
LEMMA CallStarts == BookingInit => BookingInv
BY BookingCallAssumption
   DEF BookingInit, BookingInv, BookingTypeOK, RetriesPostOnce, AnswerTellsCommit,
       LockHolds, OutcomeWritten, NothingCommittedYet

\* An attempt that is rolled back leaves the database and the history alone.
LEMMA RolledBackKeeps ==
  ASSUME BookingInv, step # "answered", UNCHANGED <<caller, touched>>,
         Conflict \/ \E error \in Answers \ {"none", "OK", "REJECTED", "UNKNOWN"} :
                       ReturnError(error)
  PROVE  BookingInv'
<1>1. CASE Conflict
  BY <1>1 DEF Conflict, databaseVars, BookingInv, BookingTypeOK, RetriesPostOnce,
       AnswerTellsCommit, LockHolds, OutcomeWritten, NothingCommittedYet
<1>2. ASSUME NEW error \in Answers \ {"none", "OK", "REJECTED", "UNKNOWN"},
             ReturnError(error)
      PROVE  BookingInv'
  BY <1>2 DEF ReturnError, databaseVars, BookingInv, BookingTypeOK, RetriesPostOnce,
       AnswerTellsCommit, LockHolds, OutcomeWritten, NothingCommittedYet
<1> QED BY <1>1, <1>2

\* A commit settles an order nobody has paid: it was locked in the state the
\* caller expects.
LEMMA EffectPostsOnce ==
  ASSUME BookingInv, step = "executed", Effect
  PROVE  /\ order' \in Outcomes /\ posted' \in Nat /\ payable' \in BOOLEAN
         /\ effect' = inTx
         /\ RetriesPostOnce'
<1>1. order # "BOOKED" /\ posted = 0 /\ inTx \in Outcomes
  BY DEF BookingInv, LockHolds, OutcomeWritten, RetriesPostOnce
<1> QED BY <1>1 DEF Effect, RetriesPostOnce, BookingInv, BookingTypeOK

\* Every step of the call keeps the invariant.
LEMMA CallStepKeeps ==
  ASSUME BookingInv, CallStep
  PROVE  BookingInv'
<1> USE DEF BookingInv, BookingTypeOK, RetriesPostOnce, AnswerTellsCommit,
        LockHolds, OutcomeWritten, NothingCommittedYet
<1>1. CASE Begin
  BY <1>1 DEF Begin, databaseVars
<1>2. CASE LockOrderConflict
  BY <1>2, RolledBackKeeps DEF LockOrderConflict
<1>3. CASE LockOrder
  <2>1. CASE order = Expected
    BY <1>3, <2>1 DEF LockOrder, databaseVars
  <2>2. CASE order # Expected
    BY <1>3, <2>2, RolledBackKeeps DEF LockOrder
  <2> QED BY <2>1, <2>2
<1>4. CASE LockAccountsConflict
  BY <1>4, RolledBackKeeps DEF LockAccountsConflict
<1>5. CASE BookOrReject
  BY <1>5 DEF BookOrReject, databaseVars
<1>6. CASE Commit
  <2>1. /\ order' \in Outcomes /\ posted' \in Nat /\ payable' \in BOOLEAN
        /\ effect' = inTx /\ RetriesPostOnce'
    BY <1>6, EffectPostsOnce DEF Commit
  <2> QED BY <1>6, <2>1 DEF Commit
<1>7. CASE CommitConflict
  BY <1>7, RolledBackKeeps DEF CommitConflict
<1>8. CASE CommitUnknown
  <2>1. CASE Effect
    <3>1. /\ order' \in Outcomes /\ posted' \in Nat /\ payable' \in BOOLEAN
          /\ effect' = inTx /\ RetriesPostOnce'
      BY <1>8, <2>1, EffectPostsOnce DEF CommitUnknown
    <3> QED BY <1>8, <3>1 DEF CommitUnknown
  <2>2. CASE UNCHANGED <<databaseVars, effect>>
    BY <1>8, <2>2 DEF CommitUnknown, databaseVars
  <2> QED BY <1>8, <2>1, <2>2 DEF CommitUnknown
<1>9. CASE Retry
  BY <1>9, BookingCallAssumption DEF Retry, databaseVars
<1>10. CASE GiveUp
  BY <1>10, RolledBackKeeps DEF GiveUp
<1> QED BY <1>1, <1>2, <1>3, <1>4, <1>5, <1>6, <1>7, <1>8, <1>9, <1>10 DEF CallStep

\* Rivals pay the order once, and not while the call holds its lock.
LEMMA RivalStepKeeps ==
  ASSUME BookingInv, RivalStep
  PROVE  BookingInv'
<1> USE DEF BookingInv, BookingTypeOK, RetriesPostOnce, AnswerTellsCommit,
        LockHolds, OutcomeWritten, NothingCommittedYet, Rival, callVars
<1>1. CASE RivalMovesOrder
  BY <1>1 DEF RivalMovesOrder
<1>2. CASE RivalUsesAccounts
  BY <1>2 DEF RivalUsesAccounts
<1>3. CASE RivalOverlaps
  BY <1>3 DEF RivalOverlaps, databaseVars
<1> QED BY <1>1, <1>2, <1>3 DEF RivalStep

-----------------------------------------------------------------------------

\* The invariant holds in every state of a call.
THEOREM BookingInvariant == BookingSpec => []BookingInv
<1>1. ASSUME BookingInv, [BookingNext]_bookingVars
      PROVE  BookingInv'
  <2>1. CASE UNCHANGED bookingVars
    BY <1>1, <2>1 DEF bookingVars, databaseVars, callVars, BookingInv, BookingTypeOK,
         RetriesPostOnce, AnswerTellsCommit, LockHolds, OutcomeWritten,
         NothingCommittedYet
  <2> QED BY <1>1, <2>1, CallStepKeeps, RivalStepKeeps DEF BookingNext
<1> QED BY <1>1, CallStarts, PTL DEF BookingSpec

\* bookPaymentTx in the retry loop of ExecTxWithHandle: however often the
\* closure runs, the ledger has one transaction for an order that is BOOKED and
\* none for any other.
THEOREM CallPostsOnce == BookingSpec => []RetriesPostOnce
BY BookingInvariant, PTL DEF BookingInv

\* ConfirmPayment and processClaimedPayment return success for what they have
\* booked, a rejection for what they have settled, and any other error but that
\* of a lost COMMIT when they have changed nothing.
THEOREM CallAnswersTruly == BookingSpec => []AnswerTellsCommit
BY BookingInvariant, PTL DEF BookingInv
=============================================================================
