-------------------------------- MODULE Cards --------------------------------
(***************************************************************************)
(* The customers' accounts, the virtual cards issued on them and the tokens  *)
(* merchants keep for a card.  Each database table is a set of rows.         *)
(* Issuing and tokenizing read in one statement and write in another, and an *)
(* authorized card payment is approved by a third; nothing is locked between *)
(* them, so any other request may come in between.                           *)
(*                                                                          *)
(* Row ids are numbers in the order the rows were made: the code draws a new *)
(* UUID, card number or token for each.  A customer who pays has the right   *)
(* card data and CVC; anybody else is refused and changes nothing.           *)
(***************************************************************************)
EXTENDS Integers

CONSTANTS
  Customers,
  Merchants,    \* the active merchants
  Numbers,      \* the account numbers an IBAN is made of
  Requests,     \* requests served at the same time
  MaxAccounts,  \* bound: accounts opened
  MaxCards,     \* bound: cards issued
  MaxTokens     \* bound: tokens drawn

ASSUME BoundsAreNatural ==
  /\ MaxAccounts \in Nat
  /\ MaxCards \in Nat
  /\ MaxTokens \in Nat

VARIABLES
  accounts,  \* the accounts table
  cards,     \* the payment_cards table
  tokens,    \* the merchant_card_tokens table
  opened,    \* accounts opened so far
  issued,    \* cards issued so far
  drawn,     \* tokens drawn so far
  request    \* the requests between two of their statements

vars == <<accounts, cards, tokens, opened, issued, drawn, request>>

\* "used": a ledger entry, a payment order or a merchant refers to the account.
Account ==
  [id : Nat, owner : Customers, number : Numbers,
   status : {"ACTIVE", "BLOCKED"}, used : BOOLEAN]
\* "expired": the clock has passed the card's expiry month.
Card ==
  [id : Nat, owner : Customers, account : Nat,
   status : {"ACTIVE", "CANCELLED"}, expired : BOOLEAN]
Token == [id : Nat, merchant : Merchants, card : Nat]

Idle == [op |-> "idle"]
IssueRequest == [op : {"issue"}, owner : Customers, account : Nat]
TokenizeRequest == [op : {"tokenize"}, merchant : Merchants, card : Nat]
\* A card payment that is authorized and not yet approved.
PayRequest == [op : {"pay"}, owner : Customers, account : Nat, card : Nat]
Request == {Idle} \cup IssueRequest \cup TokenizeRequest \cup PayRequest

Is(r, op) == request[r].op = op
Begin(r, q) == Is(r, "idle") /\ request' = [request EXCEPT ![r] = q]
End(r) == request' = [request EXCEPT ![r] = Idle]

Update(table, row, new) == (table \ {row}) \cup {new}

TypeOK ==
  /\ accounts \subseteq Account
  /\ cards \subseteq Card
  /\ tokens \subseteq Token
  /\ opened \in Nat /\ issued \in Nat /\ drawn \in Nat
  /\ request \in [Requests -> Request]

Init ==
  /\ accounts = {} /\ cards = {} /\ tokens = {}
  /\ opened = 0 /\ issued = 0 /\ drawn = 0
  /\ request = [r \in Requests |-> Idle]

-----------------------------------------------------------------------------
(* The accounts.                                                            *)

\* A customer opens an account.  Up to five random numbers are tried; one that
\* is taken fails on the unique index, and five taken ones fail the request.
CreateAccount(o, n) ==
  /\ opened < MaxAccounts
  /\ \A a \in accounts : a.number # n
  /\ accounts' = accounts \cup
       {[id |-> opened + 1, owner |-> o, number |-> n, status |-> "ACTIVE",
         used |-> FALSE]}
  /\ opened' = opened + 1
  /\ UNCHANGED <<cards, tokens, issued, drawn, request>>

\* A deposit, a payment or a merchant contract comes to refer to the account.
UseAccount(a) ==
  /\ ~a.used
  /\ accounts' = Update(accounts, a, [a EXCEPT !.used = TRUE])
  /\ UNCHANGED <<cards, tokens, opened, issued, drawn, request>>

\* An administrator blocks or activates the account.
AdminUpdateAccountStatus(a, status) ==
  /\ a.status # status
  /\ accounts' = Update(accounts, a, [a EXCEPT !.status = status])
  /\ UNCHANGED <<cards, tokens, opened, issued, drawn, request>>

\* Mutant: the rows that hold the account back are the active cards only.
UnreferencedByActive(a) ==
  ~a.used /\ \A k \in cards : k.account # a.id \/ k.status # "ACTIVE"

\* payment_cards.account_id REFERENCES accounts ON DELETE RESTRICT.
Unreferenced(a) == ~a.used /\ \A k \in cards : k.account # a.id

\* The owner deletes an account without history.  The checks before the DELETE
\* repeat its conditions and decide nothing on their own.
DeleteAccount(o, a) ==
  /\ a.owner = o
  /\ Unreferenced(a)
  /\ accounts' = accounts \ {a}
  /\ UNCHANGED <<cards, tokens, opened, issued, drawn, request>>

-----------------------------------------------------------------------------
(* The cards.                                                               *)

\* Issue reads the account ...
Issue(r, o, a) ==
  /\ a.owner = o
  /\ a.status = "ACTIVE"
  /\ Begin(r, [op |-> "issue", owner |-> o, account |-> a.id])
  /\ UNCHANGED <<accounts, cards, tokens, opened, issued, drawn>>

\* ... and inserts the card, unless the account is gone by then.
CreatePaymentCard(r) ==
  /\ Is(r, "issue")
  /\ issued < MaxCards
  /\ \E a \in accounts : a.id = request[r].account
  /\ cards' = cards \cup
       {[id |-> issued + 1, owner |-> request[r].owner,
         account |-> request[r].account, status |-> "ACTIVE",
         expired |-> FALSE]}
  /\ issued' = issued + 1
  /\ End(r)
  /\ UNCHANGED <<accounts, tokens, opened, drawn>>

CancelPaymentCard(o, k) ==
  /\ k.owner = o
  /\ k.status = "ACTIVE"
  /\ cards' = Update(cards, k, [k EXCEPT !.status = "CANCELLED"])
  /\ UNCHANGED <<accounts, tokens, opened, issued, drawn, request>>

\* Only a cancelled card is deleted, and its tokens with it.
DeletePaymentCard(o, k) ==
  /\ k.owner = o
  /\ k.status = "CANCELLED"
  /\ cards' = cards \ {k}
  /\ tokens' = {t \in tokens : t.card # k.id}
  /\ UNCHANGED <<accounts, opened, issued, drawn, request>>

\* The expiry month ends.
CardExpires(k) ==
  /\ ~k.expired
  /\ cards' = Update(cards, k, [k EXCEPT !.expired = TRUE])
  /\ UNCHANGED <<accounts, tokens, opened, issued, drawn, request>>

-----------------------------------------------------------------------------
(* The merchants' tokens.                                                   *)

\* Mutant: only the expiry date is looked at.
UsableUntilExpiry(k) == ~k.expired

Usable(k) == k.status = "ACTIVE" /\ ~k.expired

\* Tokenize reads the card its number belongs to ...
Tokenize(r, m, k) ==
  /\ Usable(k)
  /\ Begin(r, [op |-> "tokenize", merchant |-> m, card |-> k.id])
  /\ UNCHANGED <<accounts, cards, tokens, opened, issued, drawn>>

\* Mutant: the new token is inserted beside the old one.
ReplacedNone(m, k) == {}

\* Mutant: the conflict target is the card alone.
ReplacedForCard(m, k) == {t \in tokens : t.card = k}

\* A card has one token per merchant: a new one takes the place of the old.
Replaced(m, k) == {t \in tokens : t.merchant = m /\ t.card = k}

\* ... and stores a new token, unless the card is gone by then.
UpsertMerchantCardToken(r) ==
  /\ Is(r, "tokenize")
  /\ drawn < MaxTokens
  /\ \E k \in cards : k.id = request[r].card
  /\ LET m == request[r].merchant
         k == request[r].card
     IN  tokens' = (tokens \ Replaced(m, k)) \cup
           {[id |-> drawn + 1, merchant |-> m, card |-> k]}
  /\ drawn' = drawn + 1
  /\ End(r)
  /\ UNCHANGED <<accounts, cards, opened, issued>>

\* The row a merchant's token stands for, and whether it still pays.
GetCardByMerchantToken(t, k) == t.card = k.id

\* Authorize reads token and card in one join; what it returns is all that the
\* approval of the payment knows of the card.
Authorize(r, t, k) ==
  /\ GetCardByMerchantToken(t, k)
  /\ Usable(k)
  /\ Begin(r, [op |-> "pay", owner |-> k.owner, account |-> k.account,
               card |-> k.id])
  /\ UNCHANGED <<accounts, cards, tokens, opened, issued, drawn>>

\* The payment is approved for the owner and account read, or refused; either
\* is the business of the payment intent.
Approve(r) ==
  /\ Is(r, "pay")
  /\ End(r)
  /\ UNCHANGED <<accounts, cards, tokens, opened, issued, drawn>>

\* The request fails: its insert refers to a row that is gone, or the statement
\* or the connection is lost.
Fail(r) ==
  /\ ~Is(r, "idle")
  /\ End(r)
  /\ UNCHANGED <<accounts, cards, tokens, opened, issued, drawn>>

Next ==
  \/ \E o \in Customers, n \in Numbers : CreateAccount(o, n)
  \/ \E a \in accounts : UseAccount(a)
  \/ \E a \in accounts, s \in {"ACTIVE", "BLOCKED"} :
       AdminUpdateAccountStatus(a, s)
  \/ \E o \in Customers, a \in accounts : DeleteAccount(o, a)
  \/ \E r \in Requests, o \in Customers, a \in accounts : Issue(r, o, a)
  \/ \E r \in Requests : CreatePaymentCard(r)
  \/ \E o \in Customers, k \in cards : CancelPaymentCard(o, k)
  \/ \E o \in Customers, k \in cards : DeletePaymentCard(o, k)
  \/ \E k \in cards : CardExpires(k)
  \/ \E r \in Requests, m \in Merchants, k \in cards : Tokenize(r, m, k)
  \/ \E r \in Requests : UpsertMerchantCardToken(r)
  \/ \E r \in Requests, t \in tokens, k \in cards : Authorize(r, t, k)
  \/ \E r \in Requests : Approve(r)
  \/ \E r \in Requests : Fail(r)

Spec == Init /\ [][Next]_vars

-----------------------------------------------------------------------------
(* What the cards promise.                                                  *)

\* Every card hangs on an existing account of its own owner, although the
\* account was read before the card was inserted and may have been blocked,
\* deleted and its number given to somebody else in between
\* (card/service.go:81-121, handler.go:415-481).
CardAccountStands ==
  \A k \in cards : \E a \in accounts : a.id = k.account /\ a.owner = k.owner

\* The merchant can pay with the token.
Accepted(t) == \E k \in cards : GetCardByMerchantToken(t, k) /\ Usable(k)

\* However many tokenizations overlap, a merchant has at most one token for a
\* card that is accepted (cards.go:117-124).
OneTokenAccepted ==
  \A t, u \in tokens :
    /\ t.merchant = u.merchant /\ t.card = u.card
    /\ Accepted(t) /\ Accepted(u)
    => t = u

\* A merchant loses an accepted token only because the card was cancelled,
\* deleted or has run out, or because it got another token for the same card:
\* never through what other merchants or other cards do.
TokensOutliveOthers ==
  [][\A t \in tokens :
       Accepted(t) =>
         \/ t \in tokens' /\ Accepted(t)'
         \/ ~ \E k \in cards : k.id = t.card /\ Usable(k) /\ k \in cards'
         \/ \E u \in tokens' :
              u # t /\ u.merchant = t.merchant /\ u.card = t.card]_vars

\* GET /cards/{id}/credentials shows the card to its owner.
GetPaymentCardByIDAndOwner(o, k) == k.owner = o
Reveal(o, k) == GetPaymentCardByIDAndOwner(o, k) /\ k.status = "ACTIVE"

\* Card number n was issued and is not active: cancelled, or cancelled and
\* deleted.
Over(n) ==
  n <= issued /\ ~ \E k \in cards : k.id = n /\ k.status = "ACTIVE"

\* Cancellation is final: a cancelled card is never again revealed to anybody,
\* accepted from a merchant or authorized for a payment, not even through a
\* token that was being made when it was cancelled (ADR-016:17).
CancellationIsFinal ==
  [][\A n \in 1..issued :
       Over(n) =>
         /\ \A k \in cards' : k.id = n => \A o \in Customers : ~Reveal(o, k)
         /\ \A t \in tokens' : t.card = n => ~Accepted(t)'
         /\ \A r \in Requests :
              request'[r].op = "pay" /\ request'[r].card = n =>
                request'[r] = request[r]]_vars
=============================================================================
