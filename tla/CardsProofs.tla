----------------------------- MODULE CardsProofs -----------------------------
(***************************************************************************)
(* Proofs about Cards and Payees, for any customers, merchants, account      *)
(* numbers and requests, any names and any bounds.                          *)
(*                                                                          *)
(* The foreign keys alone do not say that a card and its account have one    *)
(* owner: the card is inserted with the owner and the account that an        *)
(* earlier statement read.  It holds because row ids are never used again,   *)
(* which is the part of the invariant the other parts rest on.              *)
(*                                                                          *)
(* That a slip in an IBAN is noticed follows from what one character does to *)
(* the remainder: multiplying by 10 or 100 modulo 97 can be undone, so a     *)
(* difference that is there once stays there.  In a card number the digits   *)
(* add up, and the difference is the difference of what two digits count.    *)
(***************************************************************************)
EXTENDS Payees, PayeeNamesProofs

Unique(table) == \A x, y \in table : x.id = y.id => x = y

\* Row ids come from what was made so far and name one row each.
IdsAreFresh ==
  /\ \A a \in accounts : a.id <= opened
  /\ \A k \in cards : k.id <= issued
  /\ Unique(accounts) /\ Unique(cards)

\* A card being issued has the owner of its account, while there is one.
IssuedToOwner ==
  \A r \in Requests : Is(r, "issue") =>
    /\ request[r].account <= opened
    /\ \A a \in accounts : a.id = request[r].account =>
                             a.owner = request[r].owner

OneTokenPerCard ==
  \A t, u \in tokens : t.merchant = u.merchant /\ t.card = u.card => t = u

IInv ==
  TypeOK /\ IdsAreFresh /\ IssuedToOwner /\ CardAccountStands
  /\ OneTokenPerCard

-----------------------------------------------------------------------------
(* The rows the actions write.                                              *)

LEMMA UsedAccount ==
  ASSUME NEW a \in Account
  PROVE  LET n == [a EXCEPT !.used = TRUE]
         IN  n \in Account /\ n.id = a.id /\ n.owner = a.owner
  BY DEF Account

LEMMA UpdatedAccount ==
  ASSUME NEW a \in Account, NEW s \in {"ACTIVE", "BLOCKED"}
  PROVE  LET n == [a EXCEPT !.status = s]
         IN  n \in Account /\ n.id = a.id /\ n.owner = a.owner
  BY DEF Account

LEMMA CancelledCard ==
  ASSUME NEW k \in Card
  PROVE  LET n == [k EXCEPT !.status = "CANCELLED"]
         IN  /\ n \in Card /\ n.id = k.id /\ n.owner = k.owner
             /\ n.account = k.account /\ n.status = "CANCELLED"
  BY DEF Card

LEMMA ExpiredCard ==
  ASSUME NEW k \in Card
  PROVE  LET n == [k EXCEPT !.expired = TRUE]
         IN  /\ n \in Card /\ n.id = k.id /\ n.owner = k.owner
             /\ n.account = k.account /\ n.status = k.status /\ n.expired = TRUE
  BY DEF Card

\* The same fields but for those that change: all the proofs need of an update.
LEMMA OpenedRequest ==
  ASSUME NEW r \in Requests, NEW q \in Request,
         request \in [Requests -> Request], Begin(r, q)
  PROVE  /\ request' \in [Requests -> Request]
         /\ request'[r] = q
         /\ \A s \in Requests \ {r} : request'[s] = request[s]
  BY DEF Begin

LEMMA EndedRequest ==
  ASSUME NEW r \in Requests, request \in [Requests -> Request], End(r)
  PROVE  /\ request' \in [Requests -> Request]
         /\ request'[r] = Idle
         /\ \A s \in Requests \ {r} : request'[s] = request[s]
  BY DEF End, Request

-----------------------------------------------------------------------------

LEMMA InitIInv == Init => IInv
  <1> SUFFICES ASSUME Init PROVE IInv
    OBVIOUS
  <1>1. TypeOK
    BY DEF Init, TypeOK, Request
  <1>2. IdsAreFresh
    BY DEF Init, IdsAreFresh, Unique
  <1>3. IssuedToOwner
    BY DEF Init, IssuedToOwner, Is, Idle
  <1>4. CardAccountStands /\ OneTokenPerCard
    BY DEF Init, CardAccountStands, OneTokenPerCard
  <1> QED BY <1>1, <1>2, <1>3, <1>4 DEF IInv

LEMMA CreateAccountKeeps ==
  ASSUME IInv, NEW o \in Customers, NEW n \in Numbers, CreateAccount(o, n)
  PROVE  IInv'
  <1> DEFINE row == [id |-> opened + 1, owner |-> o, number |-> n,
                     status |-> "ACTIVE", used |-> FALSE]
  <1>1. PICK x : x = row
    OBVIOUS
  <1>2. x \in Account /\ x.id = opened + 1 /\ x.owner = o /\ opened \in Nat
    BY <1>1 DEF Account, IInv, TypeOK
  <1>3. accounts' = accounts \cup {x} /\ opened' = opened + 1
        /\ UNCHANGED <<cards, tokens, issued, drawn, request>>
    BY <1>1 DEF CreateAccount
  <1>4. \A a \in accounts : a.id \in Nat /\ a.id <= opened
    BY DEF IInv, TypeOK, IdsAreFresh, Account
  <1>5. TypeOK'
    BY <1>2, <1>3 DEF IInv, TypeOK
  <1>6. IdsAreFresh'
    BY <1>2, <1>3, <1>4 DEF IInv, IdsAreFresh, Unique
  <1>7. IssuedToOwner'
    <2> SUFFICES ASSUME NEW r \in Requests, Is(r, "issue")
                 PROVE  /\ request[r].account <= opened'
                        /\ \A a \in accounts' : a.id = request[r].account =>
                                                  a.owner = request[r].owner
      BY <1>3 DEF IssuedToOwner, Is
    <2>1. request[r].account \in Nat
      BY DEF IInv, TypeOK, Request, Is, IssueRequest, Idle, TokenizeRequest,
             PayRequest
    <2>2. request[r].account <= opened
          /\ \A a \in accounts : a.id = request[r].account =>
                                   a.owner = request[r].owner
      BY DEF IInv, IssuedToOwner
    <2> QED BY <1>2, <1>3, <2>1, <2>2
  <1>8. CardAccountStands'
    BY <1>3 DEF IInv, CardAccountStands
  <1>9. OneTokenPerCard'
    BY <1>3 DEF IInv, OneTokenPerCard
  <1> QED BY <1>5, <1>6, <1>7, <1>8, <1>9 DEF IInv

\* Any step that puts a row with the same id and owner in the place of an
\* account's.
LEMMA AccountUpdateKeeps ==
  ASSUME IInv, NEW a \in accounts, NEW x \in Account,
         x.id = a.id, x.owner = a.owner,
         accounts' = Update(accounts, a, x),
         UNCHANGED <<cards, tokens, opened, issued, drawn, request>>
  PROVE  IInv'
  <1>1. TypeOK'
    BY DEF IInv, TypeOK, Update
  <1>2. IdsAreFresh'
    BY DEF IInv, IdsAreFresh, Unique, Update
  <1>3. IssuedToOwner'
    BY DEF IInv, IssuedToOwner, Is, Update
  <1>4. CardAccountStands'
    BY DEF IInv, CardAccountStands, Update
  <1>5. OneTokenPerCard'
    BY DEF IInv, OneTokenPerCard
  <1> QED BY <1>1, <1>2, <1>3, <1>4, <1>5 DEF IInv

LEMMA UseAccountKeeps ==
  ASSUME IInv, NEW a \in accounts, UseAccount(a)
  PROVE  IInv'
  <1>1. a \in Account
    BY DEF IInv, TypeOK
  <1>2. PICK x : x = [a EXCEPT !.used = TRUE]
    OBVIOUS
  <1>3. x \in Account /\ x.id = a.id /\ x.owner = a.owner
    BY <1>1, <1>2, UsedAccount
  <1> QED BY <1>2, <1>3, AccountUpdateKeeps DEF UseAccount

LEMMA AdminUpdateAccountStatusKeeps ==
  ASSUME IInv, NEW a \in accounts, NEW s \in {"ACTIVE", "BLOCKED"},
         AdminUpdateAccountStatus(a, s)
  PROVE  IInv'
  <1>1. a \in Account
    BY DEF IInv, TypeOK
  <1>2. PICK x : x = [a EXCEPT !.status = s]
    OBVIOUS
  <1>3. x \in Account /\ x.id = a.id /\ x.owner = a.owner
    BY <1>1, <1>2, UpdatedAccount
  <1> QED BY <1>2, <1>3, AccountUpdateKeeps DEF AdminUpdateAccountStatus

LEMMA DeleteAccountKeeps ==
  ASSUME IInv, NEW o \in Customers, NEW a \in accounts, DeleteAccount(o, a)
  PROVE  IInv'
  <1>1. /\ accounts' = accounts \ {a}
        /\ UNCHANGED <<cards, tokens, opened, issued, drawn, request>>
        /\ \A k \in cards : k.account # a.id
    BY DEF DeleteAccount, Unreferenced
  <1>2. TypeOK'
    BY <1>1 DEF IInv, TypeOK
  <1>3. IdsAreFresh'
    BY <1>1 DEF IInv, IdsAreFresh, Unique
  <1>4. IssuedToOwner'
    BY <1>1 DEF IInv, IssuedToOwner, Is
  <1>5. CardAccountStands'
    BY <1>1 DEF IInv, CardAccountStands
  <1>6. OneTokenPerCard'
    BY <1>1 DEF IInv, OneTokenPerCard
  <1> QED BY <1>2, <1>3, <1>4, <1>5, <1>6 DEF IInv

\* Any step that only begins or ends a request, an issued card's for the owner
\* of its account.
LEMMA RequestStepKeeps ==
  ASSUME IInv, NEW r \in Requests,
         UNCHANGED <<accounts, cards, tokens, opened, issued, drawn>>,
         request' \in [Requests -> Request],
         \A s \in Requests \ {r} : request'[s] = request[s],
         request'[r].op = "issue" =>
           /\ request'[r].account <= opened
           /\ \A a \in accounts : a.id = request'[r].account =>
                                    a.owner = request'[r].owner
  PROVE  IInv'
  <1>1. TypeOK'
    BY DEF IInv, TypeOK
  <1>2. IdsAreFresh'
    BY DEF IInv, IdsAreFresh, Unique
  <1>3. IssuedToOwner'
    BY DEF IInv, IssuedToOwner, Is
  <1>4. CardAccountStands' /\ OneTokenPerCard'
    BY DEF IInv, CardAccountStands, OneTokenPerCard
  <1> QED BY <1>1, <1>2, <1>3, <1>4 DEF IInv

LEMMA IssueKeeps ==
  ASSUME IInv, NEW r \in Requests, NEW o \in Customers, NEW a \in accounts,
         Issue(r, o, a)
  PROVE  IInv'
  <1>1. PICK q : q = [op |-> "issue", owner |-> o, account |-> a.id]
    OBVIOUS
  <1>2. a \in Account /\ a.id \in Nat /\ a.id <= opened
    BY DEF IInv, TypeOK, Account, IdsAreFresh
  <1>3. q \in Request /\ q.account = a.id /\ q.owner = o
    BY <1>1, <1>2 DEF Request, IssueRequest
  <1>4. /\ request' \in [Requests -> Request]
        /\ request'[r] = q
        /\ \A s \in Requests \ {r} : request'[s] = request[s]
    BY <1>1, <1>3, OpenedRequest DEF Issue, IInv, TypeOK
  <1>5. \A b \in accounts : b.id = a.id => b.owner = o
    BY DEF Issue, IInv, IdsAreFresh, Unique
  <1>6. UNCHANGED <<accounts, cards, tokens, opened, issued, drawn>>
    BY DEF Issue
  <1> QED BY <1>2, <1>3, <1>4, <1>5, <1>6, RequestStepKeeps

LEMMA TokenizeKeeps ==
  ASSUME IInv, NEW r \in Requests, NEW m \in Merchants, NEW k \in cards,
         Tokenize(r, m, k)
  PROVE  IInv'
  <1>1. PICK q : q = [op |-> "tokenize", merchant |-> m, card |-> k.id]
    OBVIOUS
  <1>2. k \in Card /\ k.id \in Nat
    BY DEF IInv, TypeOK, Card
  <1>3. q \in Request /\ q.op # "issue"
    BY <1>1, <1>2 DEF Request, TokenizeRequest
  <1>4. /\ request' \in [Requests -> Request]
        /\ request'[r] = q
        /\ \A s \in Requests \ {r} : request'[s] = request[s]
    BY <1>1, <1>3, OpenedRequest DEF Tokenize, IInv, TypeOK
  <1>5. UNCHANGED <<accounts, cards, tokens, opened, issued, drawn>>
    BY DEF Tokenize
  <1> QED BY <1>3, <1>4, <1>5, RequestStepKeeps

LEMMA AuthorizeKeeps ==
  ASSUME IInv, NEW r \in Requests, NEW t \in tokens, NEW k \in cards,
         Authorize(r, t, k)
  PROVE  IInv'
  <1>1. PICK q : q = [op |-> "pay", owner |-> k.owner, account |-> k.account,
                      card |-> k.id]
    OBVIOUS
  <1>2. k \in Card /\ k.id \in Nat /\ k.account \in Nat /\ k.owner \in Customers
    BY DEF IInv, TypeOK, Card
  <1>3. q \in Request /\ q.op # "issue"
    BY <1>1, <1>2 DEF Request, PayRequest
  <1>4. /\ request' \in [Requests -> Request]
        /\ request'[r] = q
        /\ \A s \in Requests \ {r} : request'[s] = request[s]
    BY <1>1, <1>3, OpenedRequest DEF Authorize, IInv, TypeOK
  <1>5. UNCHANGED <<accounts, cards, tokens, opened, issued, drawn>>
    BY DEF Authorize
  <1> QED BY <1>3, <1>4, <1>5, RequestStepKeeps

LEMMA EndKeeps ==
  ASSUME IInv, NEW r \in Requests, End(r),
         UNCHANGED <<accounts, cards, tokens, opened, issued, drawn>>
  PROVE  IInv'
  <1>1. /\ request' \in [Requests -> Request]
        /\ request'[r] = Idle
        /\ \A s \in Requests \ {r} : request'[s] = request[s]
    BY EndedRequest DEF IInv, TypeOK
  <1>2. request'[r].op # "issue"
    BY <1>1 DEF Idle
  <1> QED BY <1>1, <1>2, RequestStepKeeps

LEMMA CreatePaymentCardKeeps ==
  ASSUME IInv, NEW r \in Requests, CreatePaymentCard(r)
  PROVE  IInv'
  <1>1. PICK x : x = [id |-> issued + 1, owner |-> request[r].owner,
                      account |-> request[r].account, status |-> "ACTIVE",
                      expired |-> FALSE]
    OBVIOUS
  <1>2. request[r].owner \in Customers /\ request[r].account \in Nat
    BY DEF CreatePaymentCard, IInv, TypeOK, Request, Is, IssueRequest, Idle,
           TokenizeRequest, PayRequest
  <1>3. /\ x \in Card /\ x.id = issued + 1 /\ x.owner = request[r].owner
        /\ x.account = request[r].account /\ issued \in Nat
    BY <1>1, <1>2 DEF Card, IInv, TypeOK
  <1>4. /\ cards' = cards \cup {x} /\ issued' = issued + 1
        /\ UNCHANGED <<accounts, tokens, opened, drawn>>
        /\ Is(r, "issue") /\ End(r)
        /\ \E a \in accounts : a.id = request[r].account
    BY <1>1 DEF CreatePaymentCard
  <1>5. /\ request' \in [Requests -> Request]
        /\ request'[r] = Idle
        /\ \A s \in Requests \ {r} : request'[s] = request[s]
    BY <1>4, EndedRequest DEF IInv, TypeOK
  <1>6. \A k \in cards : k.id \in Nat /\ k.id <= issued
    BY DEF IInv, TypeOK, IdsAreFresh, Card
  <1>7. TypeOK'
    BY <1>3, <1>4, <1>5 DEF IInv, TypeOK
  <1>8. IdsAreFresh'
    BY <1>3, <1>4, <1>6 DEF IInv, IdsAreFresh, Unique
  <1>9. IssuedToOwner'
    <2>1. request'[r].op # "issue"
      BY <1>5 DEF Idle
    <2> QED BY <1>4, <1>5, <2>1 DEF IInv, IssuedToOwner, Is
  <1>10. CardAccountStands'
    <2>1. PICK a \in accounts : a.id = request[r].account
      BY <1>4
    <2>2. a.owner = request[r].owner
      BY <1>4, <2>1 DEF IInv, IssuedToOwner
    <2> QED BY <1>3, <1>4, <2>1, <2>2 DEF IInv, CardAccountStands
  <1>11. OneTokenPerCard'
    BY <1>4 DEF IInv, OneTokenPerCard
  <1> QED BY <1>7, <1>8, <1>9, <1>10, <1>11 DEF IInv

\* Any step that puts a row with the same id, owner and account in the place of
\* a card's.
LEMMA CardUpdateKeeps ==
  ASSUME IInv, NEW k \in cards, NEW x \in Card,
         x.id = k.id, x.owner = k.owner, x.account = k.account,
         cards' = Update(cards, k, x),
         UNCHANGED <<accounts, tokens, opened, issued, drawn, request>>
  PROVE  IInv'
  <1>1. TypeOK'
    BY DEF IInv, TypeOK, Update
  <1>2. IdsAreFresh'
    BY DEF IInv, IdsAreFresh, Unique, Update
  <1>3. IssuedToOwner'
    BY DEF IInv, IssuedToOwner, Is
  <1>4. CardAccountStands'
    BY DEF IInv, CardAccountStands, Update
  <1>5. OneTokenPerCard'
    BY DEF IInv, OneTokenPerCard
  <1> QED BY <1>1, <1>2, <1>3, <1>4, <1>5 DEF IInv

LEMMA CancelPaymentCardKeeps ==
  ASSUME IInv, NEW o \in Customers, NEW k \in cards, CancelPaymentCard(o, k)
  PROVE  IInv'
  <1>1. k \in Card
    BY DEF IInv, TypeOK
  <1>2. PICK x : x = [k EXCEPT !.status = "CANCELLED"]
    OBVIOUS
  <1>3. x \in Card /\ x.id = k.id /\ x.owner = k.owner /\ x.account = k.account
    BY <1>1, <1>2, CancelledCard
  <1> QED BY <1>2, <1>3, CardUpdateKeeps DEF CancelPaymentCard

LEMMA CardExpiresKeeps ==
  ASSUME IInv, NEW k \in cards, CardExpires(k)
  PROVE  IInv'
  <1>1. k \in Card
    BY DEF IInv, TypeOK
  <1>2. PICK x : x = [k EXCEPT !.expired = TRUE]
    OBVIOUS
  <1>3. x \in Card /\ x.id = k.id /\ x.owner = k.owner /\ x.account = k.account
    BY <1>1, <1>2, ExpiredCard
  <1> QED BY <1>2, <1>3, CardUpdateKeeps DEF CardExpires

LEMMA DeletePaymentCardKeeps ==
  ASSUME IInv, NEW o \in Customers, NEW k \in cards, DeletePaymentCard(o, k)
  PROVE  IInv'
  <1>1. /\ cards' = cards \ {k} /\ tokens' \subseteq tokens
        /\ UNCHANGED <<accounts, opened, issued, drawn, request>>
    BY DEF DeletePaymentCard
  <1>2. TypeOK'
    BY <1>1 DEF IInv, TypeOK
  <1>3. IdsAreFresh'
    BY <1>1 DEF IInv, IdsAreFresh, Unique
  <1>4. IssuedToOwner'
    BY <1>1 DEF IInv, IssuedToOwner, Is
  <1>5. CardAccountStands' /\ OneTokenPerCard'
    BY <1>1 DEF IInv, CardAccountStands, OneTokenPerCard
  <1> QED BY <1>2, <1>3, <1>4, <1>5 DEF IInv

LEMMA UpsertMerchantCardTokenKeeps ==
  ASSUME IInv, NEW r \in Requests, UpsertMerchantCardToken(r)
  PROVE  IInv'
  <1>1. PICK x : x = [id |-> drawn + 1, merchant |-> request[r].merchant,
                      card |-> request[r].card]
    OBVIOUS
  <1>2. request[r].merchant \in Merchants /\ request[r].card \in Nat
    BY DEF UpsertMerchantCardToken, IInv, TypeOK, Request, Is, IssueRequest,
           Idle, TokenizeRequest, PayRequest
  <1>3. /\ x \in Token /\ x.merchant = request[r].merchant
        /\ x.card = request[r].card /\ drawn \in Nat
    BY <1>1, <1>2 DEF Token, IInv, TypeOK
  <1>4. /\ tokens' = (tokens \ {t \in tokens : t.merchant = x.merchant /\
                                               t.card = x.card}) \cup {x}
        /\ drawn' = drawn + 1 /\ End(r)
        /\ UNCHANGED <<accounts, cards, opened, issued>>
    BY <1>1, <1>3 DEF UpsertMerchantCardToken, Replaced
  <1>5. /\ request' \in [Requests -> Request]
        /\ request'[r] = Idle
        /\ \A s \in Requests \ {r} : request'[s] = request[s]
    BY <1>4, EndedRequest DEF IInv, TypeOK
  <1>6. TypeOK'
    BY <1>3, <1>4, <1>5 DEF IInv, TypeOK
  <1>7. IdsAreFresh'
    BY <1>4 DEF IInv, IdsAreFresh, Unique
  <1>8. IssuedToOwner'
    <2>1. request'[r].op # "issue"
      BY <1>5 DEF Idle
    <2> QED BY <1>4, <1>5, <2>1 DEF IInv, IssuedToOwner, Is
  <1>9. CardAccountStands'
    BY <1>4 DEF IInv, CardAccountStands
  <1>10. OneTokenPerCard'
    BY <1>4 DEF IInv, OneTokenPerCard
  <1> QED BY <1>6, <1>7, <1>8, <1>9, <1>10 DEF IInv

LEMMA StutterKeeps == ASSUME IInv, UNCHANGED vars PROVE IInv'
  <1>1. TypeOK'
    BY DEF IInv, vars, TypeOK
  <1>2. IdsAreFresh'
    BY DEF IInv, vars, IdsAreFresh, Unique
  <1>3. IssuedToOwner'
    BY DEF IInv, vars, IssuedToOwner, Is
  <1>4. CardAccountStands' /\ OneTokenPerCard'
    BY DEF IInv, vars, CardAccountStands, OneTokenPerCard
  <1> QED BY <1>1, <1>2, <1>3, <1>4 DEF IInv

LEMMA NextKeepsIInv == ASSUME IInv, [Next]_vars PROVE IInv'
  <1>1. ASSUME NEW o \in Customers, NEW n \in Numbers, CreateAccount(o, n)
        PROVE  IInv'
    BY <1>1, CreateAccountKeeps
  <1>2. ASSUME NEW a \in accounts, UseAccount(a) PROVE IInv'
    BY <1>2, UseAccountKeeps
  <1>3. ASSUME NEW a \in accounts, NEW s \in {"ACTIVE", "BLOCKED"},
               AdminUpdateAccountStatus(a, s)
        PROVE  IInv'
    BY <1>3, AdminUpdateAccountStatusKeeps
  <1>4. ASSUME NEW o \in Customers, NEW a \in accounts, DeleteAccount(o, a)
        PROVE  IInv'
    BY <1>4, DeleteAccountKeeps
  <1>5. ASSUME NEW r \in Requests, NEW o \in Customers, NEW a \in accounts,
               Issue(r, o, a)
        PROVE  IInv'
    BY <1>5, IssueKeeps
  <1>6. ASSUME NEW r \in Requests, CreatePaymentCard(r) PROVE IInv'
    BY <1>6, CreatePaymentCardKeeps
  <1>7. ASSUME NEW o \in Customers, NEW k \in cards, CancelPaymentCard(o, k)
        PROVE  IInv'
    BY <1>7, CancelPaymentCardKeeps
  <1>8. ASSUME NEW o \in Customers, NEW k \in cards, DeletePaymentCard(o, k)
        PROVE  IInv'
    BY <1>8, DeletePaymentCardKeeps
  <1>9. ASSUME NEW k \in cards, CardExpires(k) PROVE IInv'
    BY <1>9, CardExpiresKeeps
  <1>10. ASSUME NEW r \in Requests, NEW m \in Merchants, NEW k \in cards,
                Tokenize(r, m, k)
         PROVE  IInv'
    BY <1>10, TokenizeKeeps
  <1>11. ASSUME NEW r \in Requests, UpsertMerchantCardToken(r) PROVE IInv'
    BY <1>11, UpsertMerchantCardTokenKeeps
  <1>12. ASSUME NEW r \in Requests, NEW t \in tokens, NEW k \in cards,
                Authorize(r, t, k)
         PROVE  IInv'
    BY <1>12, AuthorizeKeeps
  <1>13. ASSUME NEW r \in Requests, Approve(r) \/ Fail(r) PROVE IInv'
    BY <1>13, EndKeeps DEF Approve, Fail
  <1>14. CASE UNCHANGED vars
    BY <1>14, StutterKeeps
  <1> QED
    BY <1>1, <1>2, <1>3, <1>4, <1>5, <1>6, <1>7, <1>8, <1>9, <1>10, <1>11,
       <1>12, <1>13, <1>14 DEF Next

\* The inductive invariant holds in every reachable state.
THEOREM CardsInvariant == Spec => []IInv
  <1>1. Init => IInv
    BY InitIInv
  <1>2. IInv /\ [Next]_vars => IInv'
    BY NextKeepsIInv
  <1> QED BY <1>1, <1>2, PTL DEF Spec

\* Every card hangs on an existing account of its own owner, for any number of
\* customers, accounts and overlapping requests (card/service.go:81-121).
THEOREM CardsHaveAccounts == Spec => []CardAccountStands
  <1>1. IInv => CardAccountStands
    BY DEF IInv
  <1> QED BY <1>1, CardsInvariant, PTL

\* A merchant has at most one accepted token for a card, however many
\* tokenizations overlap (cards.go:117-124).
THEOREM OneTokenPerMerchantAndCard == Spec => []OneTokenAccepted
  <1>1. IInv => OneTokenAccepted
    BY DEF IInv, OneTokenPerCard, OneTokenAccepted
  <1> QED BY <1>1, CardsInvariant, PTL

-----------------------------------------------------------------------------
(* What a step may do to a card, a card payment and a token.                *)

\* A card in the table is new or was as active before.
LEMMA CardsOnlyWane ==
  ASSUME IInv, Next
  PROVE  \A x \in cards' :
           \/ x.id = issued + 1
           \/ \E k \in cards :
                k.id = x.id /\ (x.status = "ACTIVE" => k.status = "ACTIVE")
  <1>1. CASE UNCHANGED cards
    BY <1>1
  <1>2. ASSUME NEW r \in Requests, CreatePaymentCard(r)
        PROVE  \A x \in cards' : x.id = issued + 1 \/ x \in cards
    BY <1>2 DEF CreatePaymentCard
  <1>3. ASSUME NEW o \in Customers, NEW k \in cards, CancelPaymentCard(o, k)
        PROVE  \A x \in cards' :
                 x \in cards \/ (x.id = k.id /\ x.status # "ACTIVE")
    <2>1. k \in Card
      BY DEF IInv, TypeOK
    <2>2. PICK c : c = [k EXCEPT !.status = "CANCELLED"]
      OBVIOUS
    <2>3. c.id = k.id /\ c.status # "ACTIVE"
      BY <2>1, <2>2, CancelledCard
    <2> QED BY <1>3, <2>2, <2>3 DEF CancelPaymentCard, Update
  <1>4. ASSUME NEW o \in Customers, NEW k \in cards, DeletePaymentCard(o, k)
        PROVE  cards' \subseteq cards
    BY <1>4 DEF DeletePaymentCard
  <1>5. ASSUME NEW k \in cards, CardExpires(k)
        PROVE  \A x \in cards' :
                 x \in cards \/ (x.id = k.id /\ x.status = k.status)
    <2>1. k \in Card
      BY DEF IInv, TypeOK
    <2>2. PICK c : c = [k EXCEPT !.expired = TRUE]
      OBVIOUS
    <2>3. c.id = k.id /\ c.status = k.status
      BY <2>1, <2>2, ExpiredCard
    <2> QED BY <1>5, <2>2, <2>3 DEF CardExpires, Update
  <1>6. CASE \E r \in Requests : CreatePaymentCard(r)
    BY <1>2, <1>6
  <1>7. CASE \E o \in Customers, k \in cards : CancelPaymentCard(o, k)
    BY <1>3, <1>7
  <1>8. CASE \E o \in Customers, k \in cards : DeletePaymentCard(o, k)
    BY <1>4, <1>8
  <1>9. CASE \E k \in cards : CardExpires(k)
    BY <1>5, <1>9
  <1> QED
    BY <1>1, <1>6, <1>7, <1>8, <1>9
    DEF Next, CreateAccount, UseAccount, AdminUpdateAccountStatus,
        DeleteAccount, Issue, Tokenize, UpsertMerchantCardToken, Authorize,
        Approve, Fail

\* A card payment that is authorized in a step is authorized on an active card.
LEMMA PaidWithActiveCard ==
  ASSUME IInv, Next, NEW r \in Requests, request'[r].op = "pay",
         request'[r] # request[r]
  PROVE  \E k \in cards : k.id = request'[r].card /\ k.status = "ACTIVE"
  <1>1. request \in [Requests -> Request]
    BY DEF IInv, TypeOK
  <1>2. ASSUME NEW s \in Requests, End(s) PROVE FALSE
    BY <1>1, <1>2, EndedRequest DEF Idle
  <1>3. ASSUME NEW s \in Requests, NEW o \in Customers, NEW a \in accounts,
               Issue(s, o, a)
        PROVE  FALSE
    <2>1. PICK q : q = [op |-> "issue", owner |-> o, account |-> a.id]
      OBVIOUS
    <2>2. request' = [request EXCEPT ![s] = q]
      BY <1>3, <2>1 DEF Issue, Begin
    <2>3. q.op = "issue"
      BY <2>1
    <2> QED BY <1>1, <2>2, <2>3
  <1>4. ASSUME NEW s \in Requests, NEW m \in Merchants, NEW k \in cards,
               Tokenize(s, m, k)
        PROVE  FALSE
    <2>1. PICK q : q = [op |-> "tokenize", merchant |-> m, card |-> k.id]
      OBVIOUS
    <2>2. request' = [request EXCEPT ![s] = q]
      BY <1>4, <2>1 DEF Tokenize, Begin
    <2>3. q.op = "tokenize"
      BY <2>1
    <2> QED BY <1>1, <2>2, <2>3
  <1>5. ASSUME NEW s \in Requests, NEW t \in tokens, NEW k \in cards,
               Authorize(s, t, k)
        PROVE  k.id = request'[r].card /\ k.status = "ACTIVE"
    <2>1. PICK q : q = [op |-> "pay", owner |-> k.owner, account |-> k.account,
                        card |-> k.id]
      OBVIOUS
    <2>2. request' = [request EXCEPT ![s] = q] /\ Usable(k)
      BY <1>5, <2>1 DEF Authorize, Begin
    <2>3. q.card = k.id
      BY <2>1
    <2> QED BY <1>1, <2>2, <2>3 DEF Usable
  <1>6. CASE \E s \in Requests : \/ CreatePaymentCard(s)
                                 \/ UpsertMerchantCardToken(s)
                                 \/ Approve(s)
                                 \/ Fail(s)
    BY <1>2, <1>6 DEF CreatePaymentCard, UpsertMerchantCardToken, Approve, Fail
  <1>7. CASE \E s \in Requests, o \in Customers, a \in accounts : Issue(s, o, a)
    BY <1>3, <1>7
  <1>8. CASE \E s \in Requests, m \in Merchants, k \in cards : Tokenize(s, m, k)
    BY <1>4, <1>8
  <1>9. CASE \E s \in Requests, t \in tokens, k \in cards : Authorize(s, t, k)
    BY <1>5, <1>9
  <1>10. CASE UNCHANGED request
    BY <1>10
  <1> QED
    BY <1>6, <1>7, <1>8, <1>9, <1>10
    DEF Next, CreateAccount, UseAccount, AdminUpdateAccountStatus,
        DeleteAccount, CancelPaymentCard, DeletePaymentCard, CardExpires

LEMMA CardsOverStayOver ==
  ASSUME IInv, Next, NEW n \in 1..issued, Over(n)
  PROVE  /\ \A k \in cards' : k.id = n => k.status # "ACTIVE"
         /\ \A r \in Requests :
              request'[r].op = "pay" /\ request'[r].card = n =>
                request'[r] = request[r]
  <1>1. issued \in Nat
    BY DEF IInv, TypeOK
  <1>2. \A k \in cards' : k.id = n => k.status # "ACTIVE"
    BY <1>1, CardsOnlyWane DEF Over
  <1>3. ASSUME NEW r \in Requests, request'[r].op = "pay",
               request'[r].card = n, request'[r] # request[r]
        PROVE  FALSE
    BY <1>3, PaidWithActiveCard DEF Over
  <1> QED BY <1>2, <1>3

\* A card that was cancelled is never again revealed, accepted or authorized,
\* whatever was under way when it was cancelled (card/service.go:81-226).
THEOREM CancelledCardsStayCancelled == Spec => CancellationIsFinal
  <1> DEFINE Final ==
        \A n \in 1..issued :
          Over(n) =>
            /\ \A k \in cards' : k.id = n => \A o \in Customers : ~Reveal(o, k)
            /\ \A t \in tokens' : t.card = n => ~Accepted(t)'
            /\ \A r \in Requests :
                 request'[r].op = "pay" /\ request'[r].card = n =>
                   request'[r] = request[r]
  <1>1. IInv /\ [Next]_vars => [Final]_vars
    <2> SUFFICES ASSUME IInv, Next, NEW n \in 1..issued, Over(n)
                 PROVE
            /\ \A k \in cards' : k.id = n => \A o \in Customers : ~Reveal(o, k)
            /\ \A t \in tokens' : t.card = n => ~Accepted(t)'
            /\ \A r \in Requests :
                 request'[r].op = "pay" /\ request'[r].card = n =>
                   request'[r] = request[r]
      OBVIOUS
    <2>1. \A k \in cards' : k.id = n => k.status # "ACTIVE"
      BY CardsOverStayOver
    <2>2. \A k \in cards' : k.id = n => \A o \in Customers : ~Reveal(o, k)
      BY <2>1 DEF Reveal
    <2>3. \A t \in tokens' : t.card = n => ~Accepted(t)'
      BY <2>1 DEF Accepted, GetCardByMerchantToken, Usable
    <2> QED BY <2>2, <2>3, CardsOverStayOver
  <1> QED BY <1>1, CardsInvariant, PTL DEF Spec, CancellationIsFinal

-----------------------------------------------------------------------------
(* A token's life.                                                          *)

\* What a step leaves of an accepted token and the card it stands for.
Spared(t, k) ==
  \/ t \in tokens' /\ k \in cards'
  \/ k \notin cards'
  \/ k \in cards' /\ \E u \in tokens' :
       u # t /\ u.merchant = t.merchant /\ u.card = t.card

LEMMA TokensAreSpared ==
  ASSUME IInv, Next, NEW t \in tokens, NEW k \in cards, k.id = t.card, Usable(k)
  PROVE  Spared(t, k)
  <1>1. CASE tokens' = tokens
    BY <1>1 DEF Spared
  <1>2. ASSUME NEW o \in Customers, NEW c \in cards, DeletePaymentCard(o, c)
        PROVE  t \in tokens' /\ k \in cards'
    <2>1. c # k /\ c.id # k.id
      BY <1>2 DEF DeletePaymentCard, Usable, IInv, IdsAreFresh, Unique
    <2> QED BY <1>2, <2>1 DEF DeletePaymentCard
  <1>3. ASSUME NEW r \in Requests, UpsertMerchantCardToken(r)
        PROVE  Spared(t, k)
    <2>1. PICK x : x = [id |-> drawn + 1, merchant |-> request[r].merchant,
                        card |-> request[r].card]
      OBVIOUS
    <2>2. x.merchant = request[r].merchant /\ x.card = request[r].card
      BY <2>1
    <2>3. tokens' = (tokens \ {u \in tokens : u.merchant = x.merchant /\
                                             u.card = x.card}) \cup {x}
          /\ cards' = cards
      BY <1>3, <2>1, <2>2 DEF UpsertMerchantCardToken, Replaced
    <2> QED BY <2>3 DEF Spared
  <1>4. CASE \E o \in Customers, c \in cards : DeletePaymentCard(o, c)
    BY <1>2, <1>4 DEF Spared
  <1>5. CASE \E r \in Requests : UpsertMerchantCardToken(r)
    BY <1>3, <1>5
  <1> QED
    BY <1>1, <1>4, <1>5
    DEF Next, CreateAccount, UseAccount, AdminUpdateAccountStatus,
        DeleteAccount, Issue, CreatePaymentCard, CancelPaymentCard,
        CardExpires, Tokenize, Authorize, Approve, Fail

\* A merchant's token is accepted until its card is cancelled, deleted or has
\* run out or the merchant gets another one for it (cards.go:117-124).
THEOREM TokensLast == Spec => TokensOutliveOthers
  <1> DEFINE Lasts(t) ==
        Accepted(t) =>
          \/ t \in tokens' /\ Accepted(t)'
          \/ ~ \E k \in cards : k.id = t.card /\ Usable(k) /\ k \in cards'
          \/ \E u \in tokens' :
               u # t /\ u.merchant = t.merchant /\ u.card = t.card
  <1>1. ASSUME IInv, Next, NEW t \in tokens
        PROVE  Lasts(t)
    <2> SUFFICES ASSUME Accepted(t)
                 PROVE
          \/ t \in tokens' /\ Accepted(t)'
          \/ ~ \E k \in cards : k.id = t.card /\ Usable(k) /\ k \in cards'
          \/ \E u \in tokens' :
               u # t /\ u.merchant = t.merchant /\ u.card = t.card
      OBVIOUS
    <2>1. PICK k \in cards : k.id = t.card /\ Usable(k)
      BY DEF Accepted, GetCardByMerchantToken
    <2>2. \A c \in cards : c.id = t.card => c = k
      BY <1>1, <2>1 DEF IInv, IdsAreFresh, Unique
    <2>3. Spared(t, k)
      BY <1>1, <2>1, TokensAreSpared
    <2>4. k \in cards' => Accepted(t)'
      BY <2>1 DEF Accepted, GetCardByMerchantToken, Usable
    <2> QED BY <2>2, <2>3, <2>4 DEF Spared
  <1> DEFINE All == \A t \in tokens : Lasts(t)
  <1>2. IInv /\ [Next]_vars => [All]_vars
    BY <1>1
  <1> QED BY <1>2, CardsInvariant, PTL DEF Spec, TokensOutliveOthers

-----------------------------------------------------------------------------
(* IBANs and their remainders.                                              *)

\* The characters of an IBAN: digits and letters.
Char == 0..35
\* Twenty-two characters.
IBAN == [1..22 -> Char]

\* What a character does to the remainder before it.
After(x, c) == (x * (IF IsDigit(c) THEN 10 ELSE 100) + c) % 97

\* g holds the remainders of the first n characters of s.
Remainders(s, n, g) ==
  g[0] = 0 /\ \A i \in 1..n : g[i] = After(g[i - 1], s[i])

\* The order MOD-97 takes the characters in.
Moved(iban) ==
  [i \in 1..22 |-> IF i <= 18 THEN iban[i + 4] ELSE iban[i - 18]]

\* A remainder is followed by a remainder.
LEMMA AfterTyped ==
  ASSUME NEW x \in 0..96, NEW c \in Char
  PROVE  After(x, c) \in 0..96
BY DEF After, IsDigit, Char

\* MOD-97 takes the first four characters last.
LEMMA MovedIs ==
  ASSUME NEW iban \in IBAN
  PROVE  /\ SubSeq(iban, 5, Len(iban)) \o SubSeq(iban, 1, 4) = Moved(iban)
         /\ Len(iban) = 22
         /\ Moved(iban) \in IBAN
<1>1. iban \in Seq(Char) /\ Len(iban) = 22 /\ \A i \in 1..22 : iban[i] \in Char
  <2>1. iban = [i \in 1..22 |-> iban[i]] /\ \A i \in 1..22 : iban[i] \in Char
    BY DEF IBAN
  <2> QED BY <2>1
<1> DEFINE a == SubSeq(iban, 5, 22)
           b == SubSeq(iban, 1, 4)
<1>2. a \in Seq(Char) /\ Len(a) = 18 /\ \A i \in 1..18 : a[i] = iban[i + 4]
  <2>1. \A i \in 5..22 : iban[i] \in Char
    BY ONLY iban \in IBAN DEF IBAN
  <2> QED BY <2>1, SubSeqProperties
<1>3. b \in Seq(Char) /\ Len(b) = 4 /\ \A i \in 1..4 : b[i] = iban[i]
  <2>1. \A i \in 1..4 : iban[i] \in Char
    BY ONLY iban \in IBAN DEF IBAN
  <2> QED BY <2>1, SubSeqProperties
<1> HIDE DEF a, b
<1> DEFINE w == a \o b
<1>4. /\ w \in Seq(Char)
      /\ Len(w) = Len(a) + Len(b)
      /\ \A i \in 1..Len(a) + Len(b) :
           w[i] = IF i <= Len(a) THEN a[i] ELSE b[i - Len(a)]
  <2>1. a \in Seq(Char) /\ b \in Seq(Char)
    BY <1>2, <1>3
  <2> QED BY <2>1, ConcatProperties, Zenon
<1> HIDE DEF w
<1>5. Len(a) = 18 /\ Len(b) = 4 /\ Len(a) + Len(b) = 22
  BY <1>2, <1>3
<1>6. \A i \in 1..22 : w[i] = IF i <= 18 THEN a[i] ELSE b[i - 18]
  <2>1. \A i \in 1..Len(a) + Len(b) :
           w[i] = IF i <= Len(a) THEN a[i] ELSE b[i - Len(a)]
    BY <1>4
  <2> QED BY <1>5, <2>1
<1>7. Len(w) = 22
  BY <1>4, <1>5
<1>8. w \in [1..22 -> Char]
  <2>1. w \in [1..Len(w) -> Char]
    BY <1>4, LenProperties
  <2> QED BY <2>1, <1>7
<1>9. ASSUME NEW i \in 1..22
      PROVE  w[i] = Moved(iban)[i]
  <2>1. Moved(iban)[i] = IF i <= 18 THEN iban[i + 4] ELSE iban[i - 18]
    BY DEF Moved
  <2>2. CASE i <= 18
    <3>1. i \in 1..18 /\ w[i] = a[i]
      BY <1>6, <2>2
    <3>2. a[i] = iban[i + 4]
      BY <1>2, <3>1
    <3> QED BY <2>1, <2>2, <3>1, <3>2
  <2>3. CASE ~(i <= 18)
    <3>1. i - 18 \in 1..4 /\ w[i] = b[i - 18]
      BY <1>6, <2>3
    <3>2. b[i - 18] = iban[i - 18]
      BY <1>3, <3>1
    <3> QED BY <2>1, <2>3, <3>1, <3>2
  <2> QED BY <2>2, <2>3
<1>10. w = Moved(iban)
  BY <1>9, <1>8 DEF Moved
<1>11. Moved(iban) \in IBAN
  BY <1>1 DEF Moved, IBAN
<1> QED BY <1>1, <1>10, <1>11 DEF a, b, w

\* The remainders exist.
LEMMA RemaindersExist ==
  ASSUME NEW n \in Nat, NEW s \in [1..n -> Char]
  PROVE  \E g \in [0..n -> 0..96] : Remainders(s, n, g)
<1> DEFINE D == Nat \X (0..96)
           Value(p) == IF p[1] \in 1..n THEN After(p[2], s[p[1]]) ELSE 0
           F == [p \in D |-> Value(p)]
<1>1. F \in [D -> 0..96] /\ 0 \in 0..96
  <2>1. ASSUME NEW p \in D
        PROVE  Value(p) \in 0..96
    <3>1. CASE p[1] \in 1..n
      <4>1. p[2] \in 0..96 /\ s[p[1]] \in Char
        BY <3>1
      <4> QED BY <3>1, <4>1, AfterTyped
    <3> QED BY <3>1
  <2>2. 0 \in 0..96
    OBVIOUS
  <2> HIDE DEF D, Value
  <2> QED BY <2>1, <2>2
<1>2. \A i \in 1..n, x \in 0..96 : F[<<i, x>>] = After(x, s[i])
  <2>1. ASSUME NEW i \in 1..n, NEW x \in 0..96
        PROVE  F[<<i, x>>] = After(x, s[i])
    <3>1. i \in Nat
      OBVIOUS
    <3>2. <<i, x>> \in D
      BY <3>1
    <3>3. F[<<i, x>>] = Value(<<i, x>>)
      <4> HIDE DEF D, Value
      <4> QED BY <3>2
    <3> QED BY <3>3
  <2> QED BY <2>1
<1> HIDE DEF F
<1>3. PICK g \in [0..n -> 0..96] : Recurrence(g, n, 0, F)
  BY <1>1, RecurrenceExists
<1>4. ASSUME NEW i \in 1..n
      PROVE  g[i] = After(g[i - 1], s[i])
  <2>1. g[i - 1] \in 0..96 /\ g[i] = F[<<i, g[i - 1]>>]
    BY <1>3 DEF Recurrence
  <2> QED BY <1>2, <2>1
<1> QED BY <1>3, <1>4 DEF Remainders, Recurrence

\* Remainders depend on the characters before them only.
LEMMA RemaindersAgree ==
  ASSUME NEW n \in Nat, NEW s, NEW g, Remainders(s, n, g),
         NEW t, NEW h, Remainders(t, n, h), \A i \in 1..n : s[i] = t[i]
  PROVE  \A i \in 0..n : g[i] = h[i]
<1> DEFINE Same == {i \in Nat : i <= n => g[i] = h[i]}
<1>1. 0 \in Same
  BY DEF Remainders
<1>2. ASSUME NEW i \in Nat, i \in Same
      PROVE  i + 1 \in Same
  <2>1. SUFFICES ASSUME i + 1 <= n
                 PROVE  g[i + 1] = h[i + 1]
    OBVIOUS
  <2>2. i + 1 \in 1..n /\ (i + 1) - 1 = i /\ g[i] = h[i]
    BY <1>2, <2>1
  <2>3. g[i + 1] = After(g[i], s[i + 1]) /\ h[i + 1] = After(h[i], t[i + 1])
    BY <2>2 DEF Remainders
  <2> QED BY <2>2, <2>3
<1> HIDE DEF Same
<1>3. Nat \subseteq Same
  BY <1>1, <1>2, NumberInduction
<1> QED BY <1>3 DEF Same

\* A remainder is less than 97.
LEMMA RemaindersTyped ==
  ASSUME NEW n \in Nat, NEW s \in [1..n -> Char], NEW g, Remainders(s, n, g)
  PROVE  \A i \in 0..n : g[i] \in 0..96
<1>1. PICK h \in [0..n -> 0..96] : Remainders(s, n, h)
  BY RemaindersExist
<1>2. \A i \in 0..n : g[i] = h[i]
  BY <1>1, RemaindersAgree
<1> QED BY <1>1, <1>2

\* What the code computes character by character is such a remainder ...
LEMMA Mod97Computed ==
  ASSUME NEW iban \in IBAN
  PROVE  \E g : Remainders(Moved(iban), 22, g) /\ mod97(iban) = g[22]
<1> DEFINE s == SubSeq(iban, 5, Len(iban)) \o SubSeq(iban, 1, 4)
           Computes(g) ==
             g = [i \in 0..Len(iban) |->
                    IF i = 0 THEN 0
                    ELSE (g[i - 1] * (IF IsDigit(s[i]) THEN 10 ELSE 100)
                          + s[i]) % 97]
           remainder == CHOOSE g : Computes(g)
<1>1. s = Moved(iban) /\ Len(iban) = 22 /\ s \in [1..22 -> Char]
  BY MovedIs DEF IBAN
<1>2. mod97(iban) = remainder[Len(iban)]
  BY DEF mod97
<1> HIDE DEF s
<1>3. PICK g \in [0..22 -> 0..96] : Remainders(s, 22, g)
  BY <1>1, RemaindersExist
<1>4. Computes(g)
  <2>1. \A i \in 1..22 :
           g[i] = (g[i - 1] * (IF IsDigit(s[i]) THEN 10 ELSE 100) + s[i]) % 97
    BY <1>3 DEF Remainders, After
  <2>2. \A i \in 0..22 :
           g[i] = IF i = 0 THEN 0
                  ELSE (g[i - 1] * (IF IsDigit(s[i]) THEN 10 ELSE 100) + s[i]) % 97
    BY <1>3, <2>1 DEF Remainders
  <2>3. g = [i \in 0..22 |-> g[i]]
    BY <1>3
  <2> QED BY <1>1, <2>2, <2>3
<1>5. Computes(remainder)
  BY <1>4
<1> HIDE DEF remainder
<1>6. remainder = [i \in 0..22 |->
                    IF i = 0 THEN 0 ELSE After(remainder[i - 1], s[i])]
  BY <1>1, <1>5 DEF After
<1>7. Remainders(s, 22, remainder)
  BY <1>6 DEF Remainders
<1> QED BY <1>1, <1>2, <1>7

\* ... and so is the remainder the big integers leave.
LEMMA ModuloComputed ==
  ASSUME NEW n \in Nat, NEW digits \in [1..n -> 0..9], Len(digits) = n
  PROVE  \E g : Remainders(digits, n, g) /\ Modulo(digits, 97) = g[n]
<1> DEFINE Computes(g) ==
             g = [i \in 0..Len(digits) |->
                    IF i = 0 THEN 0 ELSE (g[i - 1] * 10 + digits[i]) % 97]
           remainder == CHOOSE g : Computes(g)
<1>1. digits \in [1..n -> Char] /\ \A i \in 1..n : digits[i] \in 0..9
  BY DEF Char
<1>2. Modulo(digits, 97) = remainder[Len(digits)]
  BY DEF Modulo
<1>3. ASSUME NEW i \in 1..n, NEW x
      PROVE  After(x, digits[i]) = (x * 10 + digits[i]) % 97
  <2>1. IsDigit(digits[i])
    BY <1>1 DEF IsDigit
  <2> QED BY ONLY <2>1 DEF After
<1>4. PICK g \in [0..n -> 0..96] : Remainders(digits, n, g)
  BY <1>1, RemaindersExist
<1>5. Computes(g)
  <2>1. g[0] = 0 /\ \A i \in 1..n : g[i] = After(g[i - 1], digits[i])
    BY ONLY <1>4 DEF Remainders
  <2>2. ASSUME NEW i \in 0..n
        PROVE  g[i] = IF i = 0 THEN 0 ELSE (g[i - 1] * 10 + digits[i]) % 97
    <3>1. CASE i = 0
      BY ONLY <2>1, <3>1
    <3>2. CASE i \in 1..n
      <4>1. g[i] = After(g[i - 1], digits[i]) /\ i # 0
        BY ONLY <2>1, <3>2
      <4>2. After(g[i - 1], digits[i]) = (g[i - 1] * 10 + digits[i]) % 97
        BY <1>3, <3>2
      <4> QED BY ONLY <4>1, <4>2
    <3> QED BY <3>1, <3>2
  <2>3. g = [i \in 0..n |-> g[i]]
    BY <1>4
  <2> QED BY <2>2, <2>3
<1>6. Computes(remainder)
  BY <1>5
<1> HIDE DEF remainder
<1>7. \A i \in 0..n :
         remainder[i] = IF i = 0 THEN 0
                        ELSE (remainder[i - 1] * 10 + digits[i]) % 97
  BY <1>6
<1>8. Remainders(digits, n, remainder)
  <2>1. remainder[0] = 0
    BY <1>7
  <2>2. ASSUME NEW i \in 1..n
        PROVE  remainder[i] = After(remainder[i - 1], digits[i])
    <3>1. i \in 0..n /\ i # 0
      OBVIOUS
    <3>2. remainder[i] = (remainder[i - 1] * 10 + digits[i]) % 97
      BY ONLY <1>7, <3>1
    <3>3. After(remainder[i - 1], digits[i]) = (remainder[i - 1] * 10 + digits[i]) % 97
      BY <1>3
    <3> QED BY ONLY <3>2, <3>3
  <2> QED BY ONLY <2>1, <2>2 DEF Remainders
<1> QED BY <1>2, <1>8

\* Two remainders that differ still differ after the same character.
LEMMA AfterInjective ==
  ASSUME NEW x \in 0..96, NEW y \in 0..96, x # y, NEW c \in Char
  PROVE  After(x, c) # After(y, c)
<1>1. (10 * x + c) % 97 # (10 * y + c) % 97
  BY DEF Char
<1>2. (100 * x + c) % 97 # (100 * y + c) % 97
  <2>1. (100 * x + c) % 97 = (3 * x + c) % 97 /\ (100 * y + c) % 97 = (3 * y + c) % 97
    BY DEF Char
  <2>2. (3 * x + c) % 97 # (3 * y + c) % 97
    BY DEF Char
  <2> QED BY <2>1, <2>2
<1> QED BY <1>1, <1>2 DEF After

\* g is what the string s of n characters leaves.
Reads(g, s, n) == s \in [1..n -> Char] /\ Remainders(s, n, g)

\* Behind place k, up to n, the strings are the same.
SameBehind(s, t, k, n) == \A i \in k + 1..n : s[i] = t[i]

\* The same string behind them makes no remainders equal that were not.
LEMMA DifferenceStays ==
  ASSUME NEW n \in Nat, NEW k \in 0..n,
         NEW s, NEW g, Reads(g, s, n), NEW t, NEW h, Reads(h, t, n),
         g[k] # h[k], SameBehind(s, t, k, n)
  PROVE  g[n] # h[n]
<1> USE DEF Reads
<1> DEFINE Apart == {i \in Nat : k <= i /\ i <= n => g[i] # h[i]}
<1>1. ASSUME NEW i \in Nat, i \in Apart, k <= i, i + 1 <= n
      PROVE  g[i + 1] # h[i + 1]
  <2>1. i + 1 \in k + 1..n /\ i + 1 \in 1..n /\ (i + 1) - 1 = i /\ i \in 0..n
    BY <1>1
  <2>2. g[i] # h[i] /\ g[i] \in 0..96 /\ h[i] \in 0..96
    <3>1. i <= n
      BY <1>1
    <3>2. g[i] \in 0..96 /\ h[i] \in 0..96
      BY <2>1, RemaindersTyped
    <3> QED BY <1>1, <3>1, <3>2
  <2>3. s[i + 1] = t[i + 1] /\ s[i + 1] \in Char
    BY <2>1 DEF SameBehind
  <2>4. g[i + 1] = After(g[i], s[i + 1]) /\ h[i + 1] = After(h[i], t[i + 1])
    BY <2>1 DEF Remainders
  <2> QED BY <2>2, <2>3, <2>4, AfterInjective
<1>2. \A i \in Nat : i \in Apart => i + 1 \in Apart
  <2>1. ASSUME NEW i \in Nat, i \in Apart, k <= i + 1, i + 1 <= n
        PROVE  g[i + 1] # h[i + 1]
    <3>1. CASE k = i + 1
      BY <3>1
    <3>2. CASE k <= i
      BY <1>1, <2>1, <3>2
    <3> QED BY <2>1, <3>1, <3>2
  <2> QED BY <2>1
<1>3. 0 \in Apart
  OBVIOUS
<1> HIDE DEF Apart
<1>4. Nat \subseteq Apart
  BY <1>2, <1>3, NumberInduction
<1> QED BY <1>4 DEF Apart

\* The same string behind them makes no remainders differ that were equal.
LEMMA SamenessStays ==
  ASSUME NEW n \in Nat, NEW k \in 0..n,
         NEW s, NEW g, Remainders(s, n, g), NEW t, NEW h, Remainders(t, n, h),
         g[k] = h[k], SameBehind(s, t, k, n)
  PROVE  g[n] = h[n]
<1> DEFINE Same == {i \in Nat : k <= i /\ i <= n => g[i] = h[i]}
<1>1. ASSUME NEW i \in Nat, i \in Same, k <= i, i + 1 <= n
      PROVE  g[i + 1] = h[i + 1]
  <2>1. i + 1 \in k + 1..n /\ i + 1 \in 1..n /\ (i + 1) - 1 = i /\ i <= n
    BY <1>1
  <2>2. g[i] = h[i]
    BY <1>1, <2>1
  <2>3. s[i + 1] = t[i + 1]
    BY <2>1 DEF SameBehind
  <2>4. g[i + 1] = After(g[i], s[i + 1]) /\ h[i + 1] = After(h[i], t[i + 1])
    BY <2>1 DEF Remainders
  <2> QED BY <2>2, <2>3, <2>4
<1>2. \A i \in Nat : i \in Same => i + 1 \in Same
  <2>1. ASSUME NEW i \in Nat, i \in Same, k <= i + 1, i + 1 <= n
        PROVE  g[i + 1] = h[i + 1]
    <3>1. CASE k = i + 1
      BY <3>1
    <3>2. CASE k <= i
      BY <1>1, <2>1, <3>2
    <3> QED BY <2>1, <3>1, <3>2
  <2> QED BY <2>1
<1>3. 0 \in Same
  OBVIOUS
<1> HIDE DEF Same
<1>4. Nat \subseteq Same
  BY <1>2, <1>3, NumberInduction
<1> QED BY <1>4 DEF Same

\* A number has ten decimal digits.
LEMMA TenDigitsAreDigits ==
  ASSUME NEW n \in Nat
  PROVE  TenDigits(n) \in Seq(0..9) /\ Len(TenDigits(n)) = 10
<1> DEFINE D == Nat \X Nat
           F == [p \in D |-> p[2] \div 10]
           Divides(r) ==
             r = [i \in 0..9 |-> IF i = 0 THEN n ELSE r[i - 1] \div 10]
           rest == CHOOSE r : Divides(r)
<1>1. F \in [D -> Nat]
  OBVIOUS
<1>2. \A i \in 1..9, x \in Nat : F[<<i, x>>] = x \div 10
  OBVIOUS
<1>3. TenDigits(n) = [i \in 1..10 |-> rest[10 - i] % 10]
  BY DEF TenDigits
<1> HIDE DEF F
<1>4. PICK g \in [0..9 -> Nat] : Recurrence(g, 9, n, F)
  BY <1>1, RecurrenceExists
<1>5. Divides(g)
  <2>1. \A i \in 1..9 : g[i] = g[i - 1] \div 10
    <3>1. ASSUME NEW i \in 1..9
          PROVE  g[i] = g[i - 1] \div 10
      <4>1. g[i] = F[<<i, g[i - 1]>>] /\ g[i - 1] \in Nat
        BY <1>4 DEF Recurrence
      <4> QED BY <1>2, <4>1
    <3> QED BY <3>1
  <2>2. g[0] = n /\ g = [i \in 0..9 |-> g[i]]
    BY <1>4 DEF Recurrence
  <2> QED BY <2>1, <2>2
<1>6. Divides(rest)
  BY <1>5
<1> HIDE DEF rest
<1>7. Recurrence(rest, 9, n, F)
  BY <1>2, <1>6 DEF Recurrence
<1>8. \A i \in 0..9 : rest[i] \in Nat
  BY <1>4, <1>7, RecurrencesAgree
<1>9. \A i \in 1..10 : rest[10 - i] % 10 \in 0..9
  BY <1>8
<1> QED BY <1>3, <1>9

\* What DE and check digits 00, written as 131400, leave of a remainder ...
LEMMA RemainderWithout ==
  ASSUME NEW x \in 0..96
  PROVE  After(After(After(After(After(After(x, 1), 3), 1), 4), 0), 0) =
           (27 * x + 62) % 97
<1> DEFINE a == After(x, 1)
           b == After(a, 3)
           c == After(b, 1)
           d == After(c, 4)
           e == After(d, 0)
<1>1. a = (10 * x + 1) % 97
  BY DEF After, IsDigit
<1> HIDE DEF a
<1>2. b = (3 * x + 13) % 97
  BY <1>1 DEF After, IsDigit
<1> HIDE DEF b
<1>3. c = (30 * x + 34) % 97
  BY <1>2 DEF After, IsDigit
<1> HIDE DEF c
<1>4. d = (9 * x + 53) % 97
  BY <1>3 DEF After, IsDigit
<1> HIDE DEF d
<1>5. e = (90 * x + 45) % 97
  BY <1>4 DEF After, IsDigit
<1> HIDE DEF e
<1>6. After(e, 0) = (27 * x + 62) % 97
  BY <1>5 DEF After, IsDigit
<1> QED BY <1>6 DEF a, b, c, d, e

\* ... which is m, the check digits a and b that are made from it ...
LeavesWithout(x, m) == m = (27 * x + 62) % 97
ChecksFor(m, a, b) == a = (98 - m) \div 10 /\ b = (98 - m) % 10

\* ... and what DE and these check digits do.
LEMMA RemainderWith ==
  ASSUME NEW x \in 0..96, NEW m, LeavesWithout(x, m), NEW a, NEW b,
         ChecksFor(m, a, b)
  PROVE  /\ a \in 0..9 /\ b \in 0..9
         /\ After(After(After(After(x, 13), 14), a), b) = 1
<1> DEFINE d == After(x, 13)
           e == After(d, 14)
           p == After(e, a)
<1>1. m \in 0..96 /\ m = (27 * x + 62) % 97
  BY DEF LeavesWithout
<1>2. a \in 0..9 /\ b \in 0..9 /\ 10 * a + b = 98 - m
  BY <1>1 DEF ChecksFor
<1>3. d = (3 * x + 13) % 97
  BY DEF After, IsDigit
<1> HIDE DEF d
<1>4. e = (9 * x + 53) % 97
  BY <1>3 DEF After, IsDigit
<1> HIDE DEF e
<1>5. p = (90 * x + 45 + a) % 97
  BY <1>2, <1>4 DEF After, IsDigit
<1> HIDE DEF p
<1>6. After(p, b) = (27 * x + 62 + (10 * a + b)) % 97
  BY <1>2, <1>5 DEF After, IsDigit
<1>7. (27 * x + 62 + (98 - m)) % 97 = 1
  BY <1>1
<1> QED BY <1>2, <1>6, <1>7 DEF d, e, p

\* The IBAN of an account: its characters, and that it is valid.
LEMMA MadeIBAN ==
  ASSUME NEW n \in Nat, NEW iban, iban = GermanDemoIBANForAccount(n)
  PROVE  /\ iban \in IBAN /\ Len(iban) = 22
         /\ iban[1] = 13 /\ iban[2] = 14 /\ iban[5] = 9
         /\ \A i \in 3..22 : iban[i] \in 0..9
         /\ mod97(iban) = 1
<1> DEFINE ten == TenDigits(n)
           bban == DemoBankCode \o ten
           zeros == <<1, 3, 1, 4, 0, 0>>
           input == bban \o zeros
           rest == 98 - Modulo(input, 97)
           a == rest \div 10
           b == rest % 10
           digits == <<a, b>>
           front == DE \o digits
<1>1. iban = Joined(front, bban)
  BY DEF GermanDemoIBANForAccount, Joined
<1>2. IsString(bban, 0..9, 18) /\ bban[1] = 9
  <2>1. IsString(DemoBankCode, 0..9, 8) /\ DemoBankCode[1] = 9
    BY DEF DemoBankCode, IsString
  <2>2. IsString(ten, 0..9, 10)
    BY TenDigitsAreDigits DEF IsString
  <2>3. bban = Joined(DemoBankCode, ten)
    BY DEF Joined
  <2> HIDE DEF ten, bban
  <2>4. IsString(bban, 0..9, 18) /\ Joins(bban, DemoBankCode, 8, ten, 10)
    BY <2>1, <2>2, <2>3, StringsJoin
  <2> QED BY <2>1, <2>4 DEF Joins
<1> HIDE DEF bban
<1>3. /\ IsString(input, 0..9, 24)
      /\ \A i \in 1..18 : input[i] = bban[i]
      /\ input[19] = 1 /\ input[20] = 3 /\ input[21] = 1
      /\ input[22] = 4 /\ input[23] = 0 /\ input[24] = 0
  <2>1. IsString(zeros, 0..9, 6)
    BY DEF IsString
  <2>2. /\ zeros[1] = 1 /\ zeros[2] = 3 /\ zeros[3] = 1
        /\ zeros[4] = 4 /\ zeros[5] = 0 /\ zeros[6] = 0
    OBVIOUS
  <2>3. input = Joined(bban, zeros)
    BY DEF Joined
  <2> HIDE DEF zeros, input
  <2>4. IsString(input, 0..9, 24) /\ Joins(input, bban, 18, zeros, 6)
    BY <1>2, <2>1, <2>3, StringsJoin
  <2>5. /\ \A i \in 1..18 : input[i] = bban[i]
        /\ \A i \in 1..6 : input[18 + i] = zeros[i]
    BY <2>4 DEF Joins
  <2> QED BY <2>2, <2>4, <2>5
<1> HIDE DEF input
<1>4. input \in [1..24 -> 0..9] /\ Len(input) = 24
  BY <1>3, LenProperties DEF IsString
<1>5. PICK g : Remainders(input, 24, g) /\ Modulo(input, 97) = g[24]
  BY <1>4, 24 \in Nat, ModuloComputed
<1>6. \A i \in 0..24 : g[i] \in 0..96
  <2>1. input \in [1..24 -> Char]
    BY <1>4 DEF Char
  <2> QED BY <1>5, <2>1, RemaindersTyped
<1>7. g[24] = (27 * g[18] + 62) % 97
  <2>1. \A i \in 1..24 : g[i] = After(g[i - 1], input[i])
    BY <1>5 DEF Remainders
  <2>2. /\ g[19] = After(g[18], 1) /\ g[20] = After(g[19], 3)
        /\ g[21] = After(g[20], 1) /\ g[22] = After(g[21], 4)
        /\ g[23] = After(g[22], 0) /\ g[24] = After(g[23], 0)
    BY <1>3, <2>1
  <2>3. g[18] \in 0..96
    BY <1>6
  <2> QED BY <2>2, <2>3, RemainderWithout
<1>8. /\ a \in 0..9 /\ b \in 0..9
      /\ After(After(After(After(g[18], 13), 14), a), b) = 1
  <2>1. g[18] \in 0..96 /\ rest = 98 - g[24]
    BY <1>5, <1>6
  <2> HIDE DEF rest
  <2>2. ChecksFor(g[24], a, b)
    BY <2>1 DEF ChecksFor
  <2>3. LeavesWithout(g[18], g[24])
    BY <1>7 DEF LeavesWithout
  <2> HIDE DEF a, b
  <2> QED BY <2>1, <2>2, <2>3, RemainderWith
<1> HIDE DEF a, b
<1>9. /\ IsString(front, Char, 4)
      /\ front[1] = 13 /\ front[2] = 14 /\ front[3] = a /\ front[4] = b
  BY <1>8 DEF DE, Char, IsString
<1> HIDE DEF front
<1>10. /\ IsString(iban, Char, 22)
       /\ \A i \in 1..4 : iban[i] = front[i]
       /\ \A i \in 1..18 : iban[4 + i] = bban[i]
  <2>1. IsString(bban, Char, 18)
    BY <1>2 DEF IsString, Char
  <2>2. IsString(iban, Char, 22) /\ Joins(iban, front, 4, bban, 18)
    BY <1>1, <1>9, <2>1, StringsJoin
  <2> QED BY <2>2 DEF Joins
<1>11. iban \in IBAN /\ Len(iban) = 22
  BY <1>10, LenProperties DEF IBAN, IsString
<1>12. /\ iban[1] = 13 /\ iban[2] = 14 /\ iban[3] = a /\ iban[4] = b
       /\ iban[5] = 9 /\ \A i \in 3..22 : iban[i] \in 0..9
  <2>1. iban[1] = 13 /\ iban[2] = 14 /\ iban[3] = a /\ iban[4] = b
    BY <1>9, <1>10
  <2>2. \A i \in 1..18 : bban[i] \in 0..9
    <3>1. bban \in [1..18 -> 0..9]
      BY <1>2, LenProperties DEF IsString
    <3> QED BY <3>1
  <2>3. \A i \in 5..22 : iban[i] \in 0..9
    <3>1. ASSUME NEW i \in 5..22
          PROVE  iban[i] \in 0..9
      <4>1. i - 4 \in 1..18 /\ 4 + (i - 4) = i
        OBVIOUS
      <4>2. iban[4 + (i - 4)] = bban[i - 4]
        BY <1>10, <4>1
      <4> QED BY <2>2, <4>1, <4>2
    <3> QED BY <3>1
  <2>4. iban[4 + 1] = 9
    BY <1>2, <1>10
  <2> QED BY <1>8, <2>1, <2>3, <2>4
<1> DEFINE s == Moved(iban)
<1>13. PICK h : Remainders(s, 22, h) /\ mod97(iban) = h[22]
  BY <1>11, Mod97Computed
<1>14. \A i \in 1..18 : s[i] = input[i]
  <2>1. ASSUME NEW i \in 1..18
        PROVE  s[i] = input[i]
    <3>1. s[i] = iban[4 + i]
      BY DEF Moved
    <3> QED BY <1>3, <1>10, <3>1
  <2> QED BY <2>1
<1>15. s[19] = 13 /\ s[20] = 14 /\ s[21] = a /\ s[22] = b
  BY <1>12 DEF Moved
<1> HIDE DEF s
<1>16. h[18] = g[18]
  <2>1. Remainders(s, 18, h) /\ Remainders(input, 18, g)
    BY <1>5, <1>13 DEF Remainders
  <2>2. \A i \in 0..18 : h[i] = g[i]
    BY <1>14, <2>1, RemaindersAgree
  <2> QED BY <2>2
<1>17. /\ h[19] = After(h[18], 13) /\ h[20] = After(h[19], 14)
       /\ h[21] = After(h[20], a) /\ h[22] = After(h[21], b)
  <2>1. \A i \in 1..22 : h[i] = After(h[i - 1], s[i])
    BY <1>13 DEF Remainders
  <2> QED BY <1>15, <2>1
<1>18. mod97(iban) = 1
  BY <1>8, <1>13, <1>16, <1>17
<1> QED BY <1>11, <1>12, <1>18

\* Two characters of a kind leave different remainders.
LEMMA AfterTells ==
  ASSUME NEW x \in 0..96, NEW c \in Char, NEW d \in Char, c # d,
         IsDigit(c) = IsDigit(d)
  PROVE  After(x, c) # After(x, d)
<1>1. CASE IsDigit(c)
  <2>1. c \in 0..9 /\ d \in 0..9 /\ IsDigit(d)
    BY <1>1 DEF IsDigit
  <2>2. (10 * x + c) % 97 # (10 * x + d) % 97
    BY <2>1
  <2> QED BY <1>1, <2>1, <2>2 DEF After
<1>2. CASE ~IsDigit(c)
  <2>1. c \in 0..35 /\ d \in 0..35 /\ ~IsDigit(d)
    BY <1>2 DEF Char
  <2>2. (100 * x + c) % 97 # (100 * x + d) % 97
    BY <2>1
  <2> QED BY <1>2, <2>1, <2>2 DEF After
<1> QED BY <1>1, <1>2

\* So do two of a kind and the same two swapped.
LEMMA AfterTellsOrder ==
  ASSUME NEW x \in 0..96, NEW c \in Char, NEW d \in Char, c # d,
         IsDigit(c) = IsDigit(d)
  PROVE  After(After(x, c), d) # After(After(x, d), c)
<1>1. CASE IsDigit(c)
  <2>1. c \in 0..9 /\ d \in 0..9 /\ IsDigit(d)
    BY <1>1 DEF IsDigit
  <2>2. /\ (10 * ((10 * x + c) % 97) + d) % 97 = (3 * x + 10 * c + d) % 97
        /\ (10 * ((10 * x + d) % 97) + c) % 97 = (3 * x + 10 * d + c) % 97
    BY <2>1
  <2>3. (3 * x + 10 * c + d) % 97 # (3 * x + 10 * d + c) % 97
    BY <2>1
  <2> QED BY <1>1, <2>1, <2>2, <2>3 DEF After
<1>2. CASE ~IsDigit(c)
  <2>1. c \in 0..35 /\ d \in 0..35 /\ c \notin 0..9 /\ d \notin 0..9 /\ ~IsDigit(d)
    BY <1>2 DEF Char, IsDigit
  <2>2. /\ (100 * ((100 * x + c) % 97) + d) % 97 = (9 * x + 3 * c + d) % 97
        /\ (100 * ((100 * x + d) % 97) + c) % 97 = (9 * x + 3 * d + c) % 97
    BY <2>1
  <2>3. (9 * x + 3 * c + d) % 97 # (9 * x + 3 * d + c) % 97
    BY <2>1
  <2> QED BY <1>2, <2>1, <2>2, <2>3 DEF After
<1> QED BY <1>1, <1>2

\* One wrong character of the right kind changes the last remainder.
LEMMA WrongCharacterShows ==
  ASSUME NEW s \in IBAN, NEW g, Remainders(s, 22, g),
         NEW t \in IBAN, NEW h, Remainders(t, 22, h),
         NEW q \in 1..22, s[q] # t[q], IsDigit(s[q]) = IsDigit(t[q]),
         \A i \in 1..22 : i # q => s[i] = t[i]
  PROVE  g[22] # h[22]
<1>1. q - 1 \in Nat /\ q \in 0..22 /\ q - 1 \in 0..q - 1
  OBVIOUS
<1>2. g[q - 1] = h[q - 1]
  <2>1. Remainders(s, q - 1, g) /\ Remainders(t, q - 1, h)
    BY DEF Remainders
  <2>2. \A i \in 1..q - 1 : s[i] = t[i]
    OBVIOUS
  <2>3. \A i \in 0..q - 1 : g[i] = h[i]
    BY <1>1, <2>1, <2>2, RemaindersAgree
  <2> QED BY <1>1, <2>3
<1>3. g[q] # h[q]
  <2>1. g[q] = After(g[q - 1], s[q]) /\ h[q] = After(h[q - 1], t[q])
    BY DEF Remainders
  <2>2. g[q - 1] \in 0..96
    <3>1. s \in [1..22 -> Char] /\ 22 \in Nat
      BY DEF IBAN
    <3>2. \A i \in 0..22 : g[i] \in 0..96
      BY <3>1, RemaindersTyped
    <3>3. q - 1 \in 0..22
      OBVIOUS
    <3> QED BY <3>2, <3>3
  <2>3. s[q] \in Char /\ t[q] \in Char
    BY DEF IBAN
  <2> QED BY <1>2, <2>1, <2>2, <2>3, AfterTells
<1>4. SameBehind(s, t, q, 22)
  BY DEF SameBehind
<1>5. Reads(g, s, 22) /\ Reads(h, t, 22) /\ 22 \in Nat
  BY DEF IBAN, Reads
<1> QED BY <1>1, <1>3, <1>4, <1>5, DifferenceStays

\* So do two neighbours of a kind that are swapped.
LEMMA SwapShows ==
  ASSUME NEW s \in IBAN, NEW g, Remainders(s, 22, g),
         NEW t \in IBAN, NEW h, Remainders(t, 22, h),
         NEW q \in 1..21, s[q] # s[q + 1], IsDigit(s[q]) = IsDigit(s[q + 1]),
         t[q] = s[q + 1], t[q + 1] = s[q],
         \A i \in 1..22 : i # q /\ i # q + 1 => s[i] = t[i]
  PROVE  g[22] # h[22]
<1>1. /\ q - 1 \in Nat /\ q + 1 \in 0..22 /\ q - 1 \in 0..q - 1
      /\ q \in 1..22 /\ q + 1 \in 1..22 /\ (q + 1) - 1 = q
  OBVIOUS
<1>2. g[q - 1] = h[q - 1]
  <2>1. Remainders(s, q - 1, g) /\ Remainders(t, q - 1, h)
    BY DEF Remainders
  <2>2. \A i \in 1..q - 1 : s[i] = t[i]
    OBVIOUS
  <2>3. \A i \in 0..q - 1 : g[i] = h[i]
    BY <1>1, <2>1, <2>2, RemaindersAgree
  <2> QED BY <1>1, <2>3
<1>3. g[q + 1] # h[q + 1]
  <2>1. g[q] = After(g[q - 1], s[q]) /\ h[q] = After(h[q - 1], t[q])
    BY <1>1 DEF Remainders
  <2>2. g[q + 1] = After(g[q], s[q + 1]) /\ h[q + 1] = After(h[q], t[q + 1])
    BY <1>1 DEF Remainders
  <2>3. g[q - 1] \in 0..96
    <3>1. s \in [1..22 -> Char] /\ 22 \in Nat
      BY DEF IBAN
    <3>2. \A i \in 0..22 : g[i] \in 0..96
      BY <3>1, RemaindersTyped
    <3>3. q - 1 \in 0..22
      OBVIOUS
    <3> QED BY <3>2, <3>3
  <2>4. s[q] \in Char /\ s[q + 1] \in Char
    BY <1>1 DEF IBAN
  <2>5. After(After(g[q - 1], s[q]), s[q + 1]) # After(After(g[q - 1], s[q + 1]), s[q])
    BY <2>3, <2>4, AfterTellsOrder
  <2> QED BY <1>2, <2>1, <2>2, <2>5
<1>4. SameBehind(s, t, q + 1, 22)
  BY DEF SameBehind
<1>5. Reads(g, s, 22) /\ Reads(h, t, 22) /\ 22 \in Nat
  BY DEF IBAN, Reads
<1> QED BY <1>1, <1>3, <1>4, <1>5, DifferenceStays

\* a is what is left of u without multiples of 97.
Leaves(u, a) == \E q \in Int : a = u - 97 * q

\* Two remainders are u apart, but for multiples of 97.
Apart(x, y, u) == \E m \in Int : x - y = u + 97 * m

\* v is f times u, but for m times 97.
Times(f, u, v, m) == f * u = v + 97 * m

\* What is left modulo 97.
LEMMA Rest ==
  ASSUME NEW u \in Int
  PROVE  Leaves(u, u % 97)
<1>1. u \div 97 \in Int
  OBVIOUS
<1>2. u % 97 = u - 97 * (u \div 97)
  OBVIOUS
<1> QED BY ONLY <1>1, <1>2 DEF Leaves

\* What a digit leaves behind a remainder.
LEMMA AfterDigit ==
  ASSUME NEW x \in 0..96, NEW c \in Char, IsDigit(c)
  PROVE  Leaves(10 * x + c, After(x, c))
<1>1. c \in Int /\ x \in Int
  BY DEF Char
<1> DEFINE u == 10 * x + c
<1>2. u \in Int /\ x * 10 + c = u
  BY ONLY <1>1
<1>3. After(x, c) = (x * 10 + c) % 97
  BY DEF After
<1>4. After(x, c) = u % 97
  BY ONLY <1>2, <1>3
<1> HIDE DEF u
<1>5. Leaves(u, u % 97)
  BY <1>2, Rest
<1>6. Leaves(u, After(x, c))
  BY ONLY <1>4, <1>5
<1> QED BY ONLY <1>6 DEF u

\* What a letter leaves behind a remainder.
LEMMA AfterLetter ==
  ASSUME NEW x \in 0..96, NEW c \in Char, ~IsDigit(c)
  PROVE  Leaves(100 * x + c, After(x, c))
<1>1. c \in Int /\ x \in Int
  BY DEF Char
<1> DEFINE u == 100 * x + c
<1>2. u \in Int /\ x * 100 + c = u
  BY ONLY <1>1
<1>3. After(x, c) = (x * 100 + c) % 97
  BY DEF After
<1>4. After(x, c) = u % 97
  BY ONLY <1>2, <1>3
<1> HIDE DEF u
<1>5. Leaves(u, u % 97)
  BY <1>2, Rest
<1>6. Leaves(u, After(x, c))
  BY ONLY <1>4, <1>5
<1> QED BY ONLY <1>6 DEF u

\* The same digit behind both makes it ten times as much ...
LEMMA DigitKeepsApart ==
  ASSUME NEW x \in 0..96, NEW y \in 0..96, NEW c \in Char, IsDigit(c),
         NEW u \in Int, NEW v \in Int, NEW m \in Int, Times(10, u, v, m), Apart(x, y, u)
  PROVE  Apart(After(x, c), After(y, c), v)
<1>1. c \in Int /\ x \in Int /\ y \in Int
  BY DEF Char
<1>2. PICK k \in Int : x - y = u + 97 * k
  BY DEF Apart
<1> DEFINE a == After(x, c)
           b == After(y, c)
<1>3. Leaves(10 * x + c, a) /\ Leaves(10 * y + c, b)
  BY AfterDigit
<1> HIDE DEF a, b
<1>4. PICK p \in Int : a = 10 * x + c - 97 * p
  <2>1. Leaves(10 * x + c, a)
    BY <1>3
  <2> QED BY ONLY <1>1, <2>1 DEF Leaves
<1>5. PICK q \in Int : b = 10 * y + c - 97 * q
  BY ONLY <1>1, <1>3 DEF Leaves
<1>6. 10 * u = v + 97 * m
  BY DEF Times
<1> DEFINE w == m + 10 * k - p + q
<1>7. w \in Int
  BY ONLY m \in Int, k \in Int, p \in Int, q \in Int, u \in Int
<1>8. a - b = 10 * (x - y) - 97 * p + 97 * q
  BY ONLY <1>1, <1>4, <1>5, p \in Int, q \in Int
<1>9. a - b = 10 * u + 97 * (10 * k) - 97 * p + 97 * q
  BY ONLY <1>1, <1>2, <1>8, u \in Int, k \in Int, p \in Int, q \in Int
<1>10. a - b = v + 97 * w
  BY ONLY <1>6, <1>9, u \in Int, v \in Int, m \in Int, k \in Int, p \in Int, q \in Int
<1> HIDE DEF w
<1>11. Apart(a, b, v)
  BY ONLY <1>7, <1>10 DEF Apart
<1> QED BY ONLY <1>11 DEF a, b

\* ... and the same letter a hundred times, which is three times as much.
LEMMA LetterKeepsApart ==
  ASSUME NEW x \in 0..96, NEW y \in 0..96, NEW c \in Char, ~IsDigit(c),
         NEW u \in Int, NEW v \in Int, NEW m \in Int, Times(3, u, v, m), Apart(x, y, u)
  PROVE  Apart(After(x, c), After(y, c), v)
<1>1. c \in Int /\ x \in Int /\ y \in Int
  BY DEF Char
<1>2. PICK k \in Int : x - y = u + 97 * k
  BY DEF Apart
<1> DEFINE a == After(x, c)
           b == After(y, c)
<1>3. Leaves(100 * x + c, a) /\ Leaves(100 * y + c, b)
  BY AfterLetter
<1> HIDE DEF a, b
<1>4. PICK p \in Int : a = 100 * x + c - 97 * p
  <2>1. Leaves(100 * x + c, a)
    BY <1>3
  <2> QED BY ONLY <1>1, <2>1 DEF Leaves
<1>5. PICK q \in Int : b = 100 * y + c - 97 * q
  BY ONLY <1>1, <1>3 DEF Leaves
<1>6. 3 * u = v + 97 * m
  BY DEF Times
<1> DEFINE w == m + u + 100 * k - p + q
<1>7. w \in Int
  BY ONLY m \in Int, k \in Int, p \in Int, q \in Int, u \in Int
<1>8. a - b = 100 * (x - y) - 97 * p + 97 * q
  BY ONLY <1>1, <1>4, <1>5, p \in Int, q \in Int
<1>9. a - b = 100 * u + 97 * (100 * k) - 97 * p + 97 * q
  BY ONLY <1>1, <1>2, <1>8, u \in Int, k \in Int, p \in Int, q \in Int
<1>10. a - b = v + 97 * w
  BY ONLY <1>6, <1>9, u \in Int, v \in Int, m \in Int, k \in Int, p \in Int, q \in Int
<1> HIDE DEF w
<1>11. Apart(a, b, v)
  BY ONLY <1>7, <1>10 DEF Apart
<1> QED BY ONLY <1>11 DEF a, b

\* The end of the way round: the last characters, which are swapped with the first.
LEMMA SwapAtTheEnd ==
  ASSUME NEW x \in 0..96, NEW y \in 0..96, NEW e \in 0..8, NEW d, d = 9 - e,
         Apart(x, y, 25 * d)
  PROVE  After(x, e) # After(y, 9)
<1>1. d \in 1..9 /\ d \in Int /\ e = 9 - d /\ x \in Int /\ y \in Int
  OBVIOUS
<1>2. e \in Char /\ 9 \in Char /\ IsDigit(e) /\ IsDigit(9)
  BY DEF Char, IsDigit
<1>3. PICK m \in Int : x - y = 25 * d + 97 * m
  BY DEF Apart
<1> DEFINE a == After(x, e)
           b == After(y, 9)
<1>4. Leaves(10 * x + e, a) /\ Leaves(10 * y + 9, b)
  BY <1>2, AfterDigit
<1> HIDE DEF a, b
<1>5. PICK p \in Int : a = 10 * x + e - 97 * p
  BY ONLY <1>4 DEF Leaves
<1>6. PICK q \in Int : b = 10 * y + 9 - 97 * q
  BY ONLY <1>4 DEF Leaves
<1>7. SUFFICES ASSUME a = b
               PROVE  FALSE
  BY DEF a, b
<1>8. 10 * (x - y) - d = 97 * (p - q)
  BY ONLY <1>1, <1>5, <1>6, <1>7, p \in Int, q \in Int
<1>9. 10 * (25 * d + 97 * m) - d = 97 * (p - q)
  BY ONLY <1>3, <1>8
<1> DEFINE k == p - q - 10 * m
<1>10. k \in Int /\ 249 * d = 97 * k
  BY ONLY <1>1, <1>9, p \in Int, q \in Int, m \in Int
<1> HIDE DEF k
<1>11. \/ d = 1 \/ d = 2 \/ d = 3 \/ d = 4 \/ d = 5 \/ d = 6 \/ d = 7 \/ d = 8 \/ d = 9
  BY ONLY <1>1
<1>12. CASE d = 1
  BY ONLY <1>10, <1>12
<1>13. CASE d = 2
  BY ONLY <1>10, <1>13
<1>14. CASE d = 3
  BY ONLY <1>10, <1>14
<1>15. CASE d = 4
  BY ONLY <1>10, <1>15
<1>16. CASE d = 5
  BY ONLY <1>10, <1>16
<1>17. CASE d = 6
  BY ONLY <1>10, <1>17
<1>18. CASE d = 7
  BY ONLY <1>10, <1>18
<1>19. CASE d = 8
  BY ONLY <1>10, <1>19
<1>20. CASE d = 9
  BY ONLY <1>10, <1>20
<1> QED BY ONLY <1>11, <1>12, <1>13, <1>14, <1>15, <1>16, <1>17, <1>18, <1>19, <1>20

\* The last check digit and the first digit of the bank code, which MOD-97 takes
\* last and first: swapped, they show.  Each place in between multiplies the
\* difference by ten or, at the letters, by three.
LEMMA SwapAroundShows ==
  ASSUME NEW s, NEW g, Reads(g, s, 22), NEW t, NEW h, Reads(h, t, 22),
         NEW e \in 0..8, s[1] = 9, s[22] = e, t[1] = e, t[22] = 9,
         \A i \in 2..21 : s[i] = t[i],
         \A i \in 1..18 : IsDigit(s[i]), ~IsDigit(s[19]), ~IsDigit(s[20]),
         IsDigit(s[21])
  PROVE  g[22] # h[22]
<1> DEFINE d == 9 - e
<1> HIDE DEF d
<1>1. d \in 1..9 /\ d = 9 - e
  BY DEF d
<1>2. /\ s \in [1..22 -> Char] /\ t \in [1..22 -> Char] /\ 22 \in Nat
      /\ Remainders(s, 22, g) /\ Remainders(t, 22, h)
  BY DEF Reads
<1>3. \A i \in 0..22 : g[i] \in 0..96
  BY <1>2, RemaindersTyped
<1>4. \A i \in 0..22 : h[i] \in 0..96
  BY <1>2, RemaindersTyped
<1>5. /\ g[0] = 0 /\ h[0] = 0
      /\ \A i \in 1..22 : g[i] = After(g[i - 1], s[i])
      /\ \A i \in 1..22 : h[i] = After(h[i - 1], t[i])
  BY <1>2 DEF Remainders
<1>32. \A i \in 2..21 : s[i] = t[i]
  OBVIOUS
<1>6. ASSUME NEW j \in 1..20, NEW k \in 2..21, k = j + 1, IsDigit(s[k]),
             NEW u \in Int, NEW v \in Int, NEW m \in Int, Times(10, u, v, m),
             Apart(g[j], h[j], u)
      PROVE  Apart(g[k], h[k], v)
  <2> DEFINE x == g[j]
             y == h[j]
             c == s[k]
  <2>1. j \in 0..22 /\ k \in 1..22 /\ k - 1 = j
    BY ONLY <1>6
  <2>2. x \in 0..96 /\ y \in 0..96
    BY ONLY <1>3, <1>4, <2>1
  <2>3. g[k] = After(x, c) /\ h[k] = After(y, t[k])
    BY ONLY <1>5, <2>1
  <2>4. c = t[k] /\ c \in Char
    BY ONLY <1>2, <1>32, <1>6, <2>1
  <2>5. IsDigit(c) /\ Apart(x, y, u)
    BY <1>6
  <2> HIDE DEF x, y, c
  <2>6. Apart(After(x, c), After(y, c), v)
    BY ONLY <1>6, <2>2, <2>4, <2>5, DigitKeepsApart
  <2> QED BY ONLY <2>3, <2>4, <2>6
<1>7. ASSUME NEW j \in 1..20, NEW k \in 2..21, k = j + 1, ~IsDigit(s[k]),
             NEW u \in Int, NEW v \in Int, NEW m \in Int, Times(3, u, v, m),
             Apart(g[j], h[j], u)
      PROVE  Apart(g[k], h[k], v)
  <2> DEFINE x == g[j]
             y == h[j]
             c == s[k]
  <2>1. j \in 0..22 /\ k \in 1..22 /\ k - 1 = j
    BY ONLY <1>7
  <2>2. x \in 0..96 /\ y \in 0..96
    BY ONLY <1>3, <1>4, <2>1
  <2>3. g[k] = After(x, c) /\ h[k] = After(y, t[k])
    BY ONLY <1>5, <2>1
  <2>4. c = t[k] /\ c \in Char
    BY ONLY <1>2, <1>32, <1>7, <2>1
  <2>5. ~IsDigit(c) /\ Apart(x, y, u)
    BY <1>7
  <2> HIDE DEF x, y, c
  <2>6. Apart(After(x, c), After(y, c), v)
    BY ONLY <1>7, <2>2, <2>4, <2>5, LetterKeepsApart
  <2> QED BY ONLY <2>3, <2>4, <2>6
<1>8. Apart(g[1], h[1], 1 * d)
  <2>1. g[1] = After(0, 9) /\ h[1] = After(0, e)
    BY <1>5
  <2>2. g[1] = 9 /\ h[1] = e
    BY <2>1 DEF After, IsDigit
  <2>3. g[1] - h[1] = 1 * d + 97 * 0
    BY ONLY <1>1, <2>2, e \in 0..8
  <2> QED BY ONLY <2>3 DEF Apart
<1>9. Apart(g[2], h[2], 10 * d)
  <2>1. Times(10, 1 * d, 10 * d, 0 * d)
    BY ONLY <1>1 DEF Times
  <2>2. 1 \in 1..20 /\ 2 \in 2..21 /\ 2 = 1 + 1
    OBVIOUS
  <2>3. IsDigit(s[2])
    OBVIOUS
  <2>4. 1 * d \in Int /\ 10 * d \in Int /\ 0 * d \in Int
    BY ONLY <1>1
  <2> QED BY ONLY <1>6, <1>8, <2>1, <2>2, <2>3, <2>4
<1>10. Apart(g[3], h[3], 3 * d)
  <2>1. Times(10, 10 * d, 3 * d, 1 * d)
    BY ONLY <1>1 DEF Times
  <2>2. 2 \in 1..20 /\ 3 \in 2..21 /\ 3 = 2 + 1
    OBVIOUS
  <2>3. IsDigit(s[3])
    OBVIOUS
  <2>4. 10 * d \in Int /\ 3 * d \in Int /\ 1 * d \in Int
    BY ONLY <1>1
  <2> QED BY ONLY <1>6, <1>9, <2>1, <2>2, <2>3, <2>4
<1>11. Apart(g[4], h[4], 30 * d)
  <2>1. Times(10, 3 * d, 30 * d, 0 * d)
    BY ONLY <1>1 DEF Times
  <2>2. 3 \in 1..20 /\ 4 \in 2..21 /\ 4 = 3 + 1
    OBVIOUS
  <2>3. IsDigit(s[4])
    OBVIOUS
  <2>4. 3 * d \in Int /\ 30 * d \in Int /\ 0 * d \in Int
    BY ONLY <1>1
  <2> QED BY ONLY <1>6, <1>10, <2>1, <2>2, <2>3, <2>4
<1>12. Apart(g[5], h[5], 9 * d)
  <2>1. Times(10, 30 * d, 9 * d, 3 * d)
    BY ONLY <1>1 DEF Times
  <2>2. 4 \in 1..20 /\ 5 \in 2..21 /\ 5 = 4 + 1
    OBVIOUS
  <2>3. IsDigit(s[5])
    OBVIOUS
  <2>4. 30 * d \in Int /\ 9 * d \in Int /\ 3 * d \in Int
    BY ONLY <1>1
  <2> QED BY ONLY <1>6, <1>11, <2>1, <2>2, <2>3, <2>4
<1>13. Apart(g[6], h[6], 90 * d)
  <2>1. Times(10, 9 * d, 90 * d, 0 * d)
    BY ONLY <1>1 DEF Times
  <2>2. 5 \in 1..20 /\ 6 \in 2..21 /\ 6 = 5 + 1
    OBVIOUS
  <2>3. IsDigit(s[6])
    OBVIOUS
  <2>4. 9 * d \in Int /\ 90 * d \in Int /\ 0 * d \in Int
    BY ONLY <1>1
  <2> QED BY ONLY <1>6, <1>12, <2>1, <2>2, <2>3, <2>4
<1>14. Apart(g[7], h[7], 27 * d)
  <2>1. Times(10, 90 * d, 27 * d, 9 * d)
    BY ONLY <1>1 DEF Times
  <2>2. 6 \in 1..20 /\ 7 \in 2..21 /\ 7 = 6 + 1
    OBVIOUS
  <2>3. IsDigit(s[7])
    OBVIOUS
  <2>4. 90 * d \in Int /\ 27 * d \in Int /\ 9 * d \in Int
    BY ONLY <1>1
  <2> QED BY ONLY <1>6, <1>13, <2>1, <2>2, <2>3, <2>4
<1>15. Apart(g[8], h[8], 76 * d)
  <2>1. Times(10, 27 * d, 76 * d, 2 * d)
    BY ONLY <1>1 DEF Times
  <2>2. 7 \in 1..20 /\ 8 \in 2..21 /\ 8 = 7 + 1
    OBVIOUS
  <2>3. IsDigit(s[8])
    OBVIOUS
  <2>4. 27 * d \in Int /\ 76 * d \in Int /\ 2 * d \in Int
    BY ONLY <1>1
  <2> QED BY ONLY <1>6, <1>14, <2>1, <2>2, <2>3, <2>4
<1>16. Apart(g[9], h[9], 81 * d)
  <2>1. Times(10, 76 * d, 81 * d, 7 * d)
    BY ONLY <1>1 DEF Times
  <2>2. 8 \in 1..20 /\ 9 \in 2..21 /\ 9 = 8 + 1
    OBVIOUS
  <2>3. IsDigit(s[9])
    OBVIOUS
  <2>4. 76 * d \in Int /\ 81 * d \in Int /\ 7 * d \in Int
    BY ONLY <1>1
  <2> QED BY ONLY <1>6, <1>15, <2>1, <2>2, <2>3, <2>4
<1>17. Apart(g[10], h[10], 34 * d)
  <2>1. Times(10, 81 * d, 34 * d, 8 * d)
    BY ONLY <1>1 DEF Times
  <2>2. 9 \in 1..20 /\ 10 \in 2..21 /\ 10 = 9 + 1
    OBVIOUS
  <2>3. IsDigit(s[10])
    OBVIOUS
  <2>4. 81 * d \in Int /\ 34 * d \in Int /\ 8 * d \in Int
    BY ONLY <1>1
  <2> QED BY ONLY <1>6, <1>16, <2>1, <2>2, <2>3, <2>4
<1>18. Apart(g[11], h[11], 49 * d)
  <2>1. Times(10, 34 * d, 49 * d, 3 * d)
    BY ONLY <1>1 DEF Times
  <2>2. 10 \in 1..20 /\ 11 \in 2..21 /\ 11 = 10 + 1
    OBVIOUS
  <2>3. IsDigit(s[11])
    OBVIOUS
  <2>4. 34 * d \in Int /\ 49 * d \in Int /\ 3 * d \in Int
    BY ONLY <1>1
  <2> QED BY ONLY <1>6, <1>17, <2>1, <2>2, <2>3, <2>4
<1>19. Apart(g[12], h[12], 5 * d)
  <2>1. Times(10, 49 * d, 5 * d, 5 * d)
    BY ONLY <1>1 DEF Times
  <2>2. 11 \in 1..20 /\ 12 \in 2..21 /\ 12 = 11 + 1
    OBVIOUS
  <2>3. IsDigit(s[12])
    OBVIOUS
  <2>4. 49 * d \in Int /\ 5 * d \in Int /\ 5 * d \in Int
    BY ONLY <1>1
  <2> QED BY ONLY <1>6, <1>18, <2>1, <2>2, <2>3, <2>4
<1>20. Apart(g[13], h[13], 50 * d)
  <2>1. Times(10, 5 * d, 50 * d, 0 * d)
    BY ONLY <1>1 DEF Times
  <2>2. 12 \in 1..20 /\ 13 \in 2..21 /\ 13 = 12 + 1
    OBVIOUS
  <2>3. IsDigit(s[13])
    OBVIOUS
  <2>4. 5 * d \in Int /\ 50 * d \in Int /\ 0 * d \in Int
    BY ONLY <1>1
  <2> QED BY ONLY <1>6, <1>19, <2>1, <2>2, <2>3, <2>4
<1>21. Apart(g[14], h[14], 15 * d)
  <2>1. Times(10, 50 * d, 15 * d, 5 * d)
    BY ONLY <1>1 DEF Times
  <2>2. 13 \in 1..20 /\ 14 \in 2..21 /\ 14 = 13 + 1
    OBVIOUS
  <2>3. IsDigit(s[14])
    OBVIOUS
  <2>4. 50 * d \in Int /\ 15 * d \in Int /\ 5 * d \in Int
    BY ONLY <1>1
  <2> QED BY ONLY <1>6, <1>20, <2>1, <2>2, <2>3, <2>4
<1>22. Apart(g[15], h[15], 53 * d)
  <2>1. Times(10, 15 * d, 53 * d, 1 * d)
    BY ONLY <1>1 DEF Times
  <2>2. 14 \in 1..20 /\ 15 \in 2..21 /\ 15 = 14 + 1
    OBVIOUS
  <2>3. IsDigit(s[15])
    OBVIOUS
  <2>4. 15 * d \in Int /\ 53 * d \in Int /\ 1 * d \in Int
    BY ONLY <1>1
  <2> QED BY ONLY <1>6, <1>21, <2>1, <2>2, <2>3, <2>4
<1>23. Apart(g[16], h[16], 45 * d)
  <2>1. Times(10, 53 * d, 45 * d, 5 * d)
    BY ONLY <1>1 DEF Times
  <2>2. 15 \in 1..20 /\ 16 \in 2..21 /\ 16 = 15 + 1
    OBVIOUS
  <2>3. IsDigit(s[16])
    OBVIOUS
  <2>4. 53 * d \in Int /\ 45 * d \in Int /\ 5 * d \in Int
    BY ONLY <1>1
  <2> QED BY ONLY <1>6, <1>22, <2>1, <2>2, <2>3, <2>4
<1>24. Apart(g[17], h[17], 62 * d)
  <2>1. Times(10, 45 * d, 62 * d, 4 * d)
    BY ONLY <1>1 DEF Times
  <2>2. 16 \in 1..20 /\ 17 \in 2..21 /\ 17 = 16 + 1
    OBVIOUS
  <2>3. IsDigit(s[17])
    OBVIOUS
  <2>4. 45 * d \in Int /\ 62 * d \in Int /\ 4 * d \in Int
    BY ONLY <1>1
  <2> QED BY ONLY <1>6, <1>23, <2>1, <2>2, <2>3, <2>4
<1>25. Apart(g[18], h[18], 38 * d)
  <2>1. Times(10, 62 * d, 38 * d, 6 * d)
    BY ONLY <1>1 DEF Times
  <2>2. 17 \in 1..20 /\ 18 \in 2..21 /\ 18 = 17 + 1
    OBVIOUS
  <2>3. IsDigit(s[18])
    OBVIOUS
  <2>4. 62 * d \in Int /\ 38 * d \in Int /\ 6 * d \in Int
    BY ONLY <1>1
  <2> QED BY ONLY <1>6, <1>24, <2>1, <2>2, <2>3, <2>4
<1>26. Apart(g[19], h[19], 17 * d)
  <2>1. Times(3, 38 * d, 17 * d, 1 * d)
    BY ONLY <1>1 DEF Times
  <2>2. 18 \in 1..20 /\ 19 \in 2..21 /\ 19 = 18 + 1
    OBVIOUS
  <2>3. ~IsDigit(s[19])
    OBVIOUS
  <2>4. 38 * d \in Int /\ 17 * d \in Int /\ 1 * d \in Int
    BY ONLY <1>1
  <2> QED BY ONLY <1>7, <1>25, <2>1, <2>2, <2>3, <2>4
<1>27. Apart(g[20], h[20], 51 * d)
  <2>1. Times(3, 17 * d, 51 * d, 0 * d)
    BY ONLY <1>1 DEF Times
  <2>2. 19 \in 1..20 /\ 20 \in 2..21 /\ 20 = 19 + 1
    OBVIOUS
  <2>3. ~IsDigit(s[20])
    OBVIOUS
  <2>4. 17 * d \in Int /\ 51 * d \in Int /\ 0 * d \in Int
    BY ONLY <1>1
  <2> QED BY ONLY <1>7, <1>26, <2>1, <2>2, <2>3, <2>4
<1>28. Apart(g[21], h[21], 25 * d)
  <2>1. Times(10, 51 * d, 25 * d, 5 * d)
    BY ONLY <1>1 DEF Times
  <2>2. 20 \in 1..20 /\ 21 \in 2..21 /\ 21 = 20 + 1
    OBVIOUS
  <2>3. IsDigit(s[21])
    OBVIOUS
  <2>4. 51 * d \in Int /\ 25 * d \in Int /\ 5 * d \in Int
    BY ONLY <1>1
  <2> QED BY ONLY <1>6, <1>27, <2>1, <2>2, <2>3, <2>4
<1>29. g[22] = After(g[21], e) /\ h[22] = After(h[21], 9)
  BY <1>5
<1>30. g[21] \in 0..96 /\ h[21] \in 0..96
  BY ONLY <1>3, <1>4
<1>31. After(g[21], e) # After(h[21], 9)
  BY ONLY <1>1, <1>28, <1>30, e \in 0..8, SwapAtTheEnd
<1> QED BY <1>29, <1>31

\* The IBANs that are made, as far as slips are concerned.
Sound(iban) ==
  /\ iban \in IBAN /\ Len(iban) = 22
  /\ iban[1] = 13 /\ iban[2] = 14 /\ iban[5] = 9
  /\ \A i \in 3..22 : iban[i] \in 0..9
  /\ mod97(iban) = 1

\* A wrong character of the right kind makes an IBAN invalid.
LEMMA WrongCharacterIsRefused ==
  ASSUME NEW iban, Sound(iban), NEW p \in 1..22, NEW c \in Char,
         IsDigit(c) = IsDigit(iban[p]), c # iban[p]
  PROVE  mod97([iban EXCEPT ![p] = c]) # 1
<1> DEFINE t == [iban EXCEPT ![p] = c]
           s == Moved(iban)
           r == Moved(t)
           q == IF p > 4 THEN p - 4 ELSE p + 18
<1>1. iban \in IBAN /\ mod97(iban) = 1
  BY DEF Sound
<1>2. /\ t \in IBAN /\ t[p] = c
      /\ \A i \in 1..22 : i # p => t[i] = iban[i]
  BY <1>1 DEF IBAN
<1> HIDE DEF t
<1>3. s \in IBAN /\ r \in IBAN
  BY <1>1, <1>2, MovedIs
<1>4. q \in 1..22 /\ s[q] = iban[p] /\ r[q] = c
  BY <1>2 DEF Moved
<1>5. \A i \in 1..22 : i # q => s[i] = r[i]
  <2>1. ASSUME NEW i \in 1..22, i # q
        PROVE  s[i] = r[i]
    <3>1. CASE i <= 18
      <4>1. i + 4 \in 1..22 /\ i + 4 # p
        BY <2>1, <3>1
      <4> QED BY <1>2, <3>1, <4>1 DEF Moved
    <3>2. CASE ~(i <= 18)
      <4>1. i - 18 \in 1..22 /\ i - 18 # p
        BY <2>1, <3>2
      <4> QED BY <1>2, <3>2, <4>1 DEF Moved
    <3> QED BY <3>1, <3>2
  <2> QED BY <2>1
<1>6. PICK g : Remainders(s, 22, g) /\ mod97(iban) = g[22]
  BY <1>1, Mod97Computed
<1>7. PICK h : Remainders(r, 22, h) /\ mod97(t) = h[22]
  BY <1>2, Mod97Computed
<1> HIDE DEF s, r, q
<1>8. s[q] # r[q] /\ IsDigit(s[q]) = IsDigit(r[q])
  BY <1>4
<1>9. g[22] # h[22]
  BY ONLY <1>3, <1>4, <1>5, <1>6, <1>7, <1>8, WrongCharacterShows
<1> QED BY <1>1, <1>6, <1>7, <1>9 DEF t

\* Two neighbours of a kind that are swapped make an IBAN invalid.
LEMMA SwapIsRefused ==
  ASSUME NEW iban, Sound(iban), NEW p \in 1..21,
         IsDigit(iban[p]) = IsDigit(iban[p + 1]), iban[p] # iban[p + 1]
  PROVE  mod97([iban EXCEPT ![p] = iban[p + 1], ![p + 1] = iban[p]]) # 1
<1> DEFINE t == [iban EXCEPT ![p] = iban[p + 1], ![p + 1] = iban[p]]
           s == Moved(iban)
           r == Moved(t)
           q == IF p > 4 THEN p - 4 ELSE p + 18
<1>1. iban \in IBAN /\ mod97(iban) = 1
  BY DEF Sound
<1>2. /\ t \in IBAN /\ t[p] = iban[p + 1] /\ t[p + 1] = iban[p]
      /\ \A i \in 1..22 : i # p /\ i # p + 1 => t[i] = iban[i]
  BY <1>1 DEF IBAN
<1> HIDE DEF t
<1>3. s \in IBAN /\ r \in IBAN
  BY <1>1, <1>2, MovedIs
<1>4. PICK g : Remainders(s, 22, g) /\ mod97(iban) = g[22]
  BY <1>1, Mod97Computed
<1>5. PICK h : Remainders(r, 22, h) /\ mod97(t) = h[22]
  BY <1>2, Mod97Computed
<1>6. \A i \in 1..18 : s[i] = iban[i + 4] /\ r[i] = t[i + 4]
  BY DEF Moved
<1>7. \A i \in 19..22 : s[i] = iban[i - 18] /\ r[i] = t[i - 18]
  BY DEF Moved
<1> HIDE DEF s, r
<1>8. CASE p # 4
  <2>1. q \in 1..21 /\ s[q] = iban[p] /\ s[q + 1] = iban[p + 1]
                    /\ r[q] = t[p] /\ r[q + 1] = t[p + 1]
    BY <1>6, <1>7, <1>8
  <2>2. \A i \in 1..22 : i # q /\ i # q + 1 => s[i] = r[i]
    <3>1. ASSUME NEW i \in 1..22, i # q, i # q + 1
          PROVE  s[i] = r[i]
      <4>1. CASE i <= 18
        <5>1. i \in 1..18 /\ i + 4 \in 1..22 /\ i + 4 # p /\ i + 4 # p + 1
          BY <1>8, <3>1, <4>1
        <5> QED BY <1>2, <1>6, <5>1
      <4>2. CASE ~(i <= 18)
        <5>1. i \in 19..22 /\ i - 18 \in 1..22 /\ i - 18 # p /\ i - 18 # p + 1
          BY <1>8, <3>1, <4>2
        <5> QED BY <1>2, <1>7, <5>1
      <4> QED BY <4>1, <4>2
    <3> QED BY <3>1
  <2> HIDE DEF q
  <2>3. /\ s[q] # s[q + 1] /\ IsDigit(s[q]) = IsDigit(s[q + 1])
        /\ r[q] = s[q + 1] /\ r[q + 1] = s[q]
    BY <1>2, <2>1
  <2>4. g[22] # h[22]
    BY ONLY <1>3, <1>4, <1>5, <2>1, <2>2, <2>3, SwapShows
  <2> QED BY <1>1, <1>4, <1>5, <2>4 DEF t
<1>9. CASE p = 4
  <2>1. iban[5] = 9 /\ \A i \in 3..22 : iban[i] \in 0..9
    BY DEF Sound
  <2>2. iban[4] \in 0..8
    BY <1>9, <2>1
  <2>3. t[4] = 9 /\ t[5] = iban[4]
    BY <1>2, <1>9, <2>1
  <2>4. s[1] = 9 /\ s[22] = iban[4] /\ r[1] = iban[4] /\ r[22] = 9
    BY <1>6, <1>7, <2>1, <2>3
  <2>5. \A i \in 2..21 : s[i] = r[i]
    <3>1. ASSUME NEW i \in 2..21
          PROVE  s[i] = r[i]
      <4>1. CASE i <= 18
        <5>1. i \in 1..18 /\ i + 4 \in 1..22 /\ i + 4 # 4 /\ i + 4 # 5
          BY <4>1
        <5> QED BY <1>2, <1>6, <1>9, <5>1
      <4>2. CASE ~(i <= 18)
        <5>1. i \in 19..22 /\ i - 18 \in 1..22 /\ i - 18 # 4 /\ i - 18 # 5
          BY <4>2
        <5> QED BY <1>2, <1>7, <1>9, <5>1
      <4> QED BY <4>1, <4>2
    <3> QED BY <3>1
  <2>6. /\ \A i \in 1..18 : IsDigit(s[i])
        /\ ~IsDigit(s[19]) /\ ~IsDigit(s[20]) /\ IsDigit(s[21])
    <3>1. \A i \in 1..18 : s[i] \in 0..9
      BY <1>6, <2>1
    <3>2. s[19] = 13 /\ s[20] = 14 /\ s[21] \in 0..9
      BY <1>7, <2>1 DEF Sound
    <3> QED BY <3>1, <3>2 DEF IsDigit
  <2>7. Reads(g, s, 22) /\ Reads(h, r, 22)
    BY <1>3, <1>4, <1>5 DEF Reads, IBAN
  <2>8. g[22] # h[22]
    BY ONLY <2>2, <2>4, <2>5, <2>6, <2>7, SwapAroundShows
  <2> QED BY <1>1, <1>4, <1>5, <2>8 DEF t
<1> QED BY <1>8, <1>9

\* What the digits of an IBAN leave before place p, its first four left out.
LEMMA RemainderBefore ==
  ASSUME NEW iban, Sound(iban), NEW g, Remainders(Moved(iban), 22, g),
         NEW p \in 5..22
  PROVE  Modulo(SubSeq(iban, 5, p - 1), 97) = g[p - 5]
<1> DEFINE before == SubSeq(iban, 5, p - 1)
           n == p - 5
<1>1. n \in Nat /\ n \in 0..17 /\ (p - 1) - 5 + 1 = n
  OBVIOUS
<1>2. \A i \in 5..p - 1 : iban[i] \in 0..9
  BY DEF Sound
<1>3. /\ before \in Seq(0..9) /\ Len(before) = n
      /\ \A i \in 1..n : before[i] = iban[i + 4]
  <2>1. Len(before) = n /\ \A i \in 1..n : before[i] = iban[5 + i - 1]
    <3>1. \A i \in 1..n : 5 + i - 1 = i + 4
      BY <1>1
    <3> QED BY <1>1, <1>2, SubSeqProperties
  <2> QED BY <1>1, <1>2, <2>1, SubSeqProperties
<1> HIDE DEF before
<1>4. before \in [1..n -> 0..9]
  BY <1>3, LenProperties
<1>5. PICK f : Remainders(before, n, f) /\ Modulo(before, 97) = f[n]
  BY ONLY <1>1, <1>3, <1>4, ModuloComputed
<1>6. Remainders(Moved(iban), n, g)
  BY <1>1 DEF Remainders
<1>7. \A i \in 1..n : before[i] = Moved(iban)[i]
  <2>1. ASSUME NEW i \in 1..n
        PROVE  before[i] = Moved(iban)[i]
    <3>1. before[i] = iban[i + 4]
      BY <1>3
    <3>2. i \in 1..22 /\ i <= 18
      BY ONLY <1>1, i \in 1..n
    <3> QED BY <3>1, <3>2 DEF Moved
  <2> QED BY <2>1
<1> HIDE DEF n
<1>8. \A i \in 0..n : f[i] = g[i]
  BY ONLY <1>1, <1>5, <1>6, <1>7, RemaindersAgree
<1>9. f[n] = g[n]
  BY <1>1, <1>8
<1> QED BY <1>5, <1>9 DEF n, before

\* A letter for a digit is noticed, but where the digits before make up for it.
LEMMA LetterForDigit ==
  ASSUME NEW iban, Sound(iban), NEW p \in 5..22, NEW c \in 10..35
  PROVE  mod97([iban EXCEPT ![p] = c]) = 1 <=> <<p, c>> \in Unnoticed(iban)
<1> DEFINE t == [iban EXCEPT ![p] = c]
           s == Moved(iban)
           r == Moved(t)
           q == p - 4
           before == Modulo(SubSeq(iban, 5, p - 1), 97)
<1>1. iban \in IBAN /\ mod97(iban) = 1 /\ iban[p] \in 0..9
  BY DEF Sound
<1>2. t \in IBAN /\ t[p] = c /\ \A i \in 1..22 : i # p => t[i] = iban[i]
  BY <1>1 DEF IBAN, Char
<1> HIDE DEF t
<1>3. s \in IBAN /\ r \in IBAN
  BY <1>1, <1>2, MovedIs
<1>4. q \in 1..18 /\ s[q] = iban[p] /\ r[q] = c
  BY <1>2 DEF Moved
<1>5. \A i \in 1..22 : i # q => s[i] = r[i]
  <2>1. ASSUME NEW i \in 1..22, i # q
        PROVE  s[i] = r[i]
    <3>1. CASE i <= 18
      <4>1. i + 4 \in 1..22 /\ i + 4 # p
        BY <2>1, <3>1
      <4> QED BY <1>2, <3>1, <4>1 DEF Moved
    <3>2. CASE ~(i <= 18)
      <4>1. i - 18 \in 1..22 /\ i - 18 # p
        BY <2>1, <3>2
      <4> QED BY <1>2, <3>2, <4>1 DEF Moved
    <3> QED BY <3>1, <3>2
  <2> QED BY <2>1
<1>6. PICK g : Remainders(s, 22, g) /\ mod97(iban) = g[22]
  BY <1>1, Mod97Computed
<1>7. PICK h : Remainders(r, 22, h) /\ mod97(t) = h[22]
  BY <1>2, Mod97Computed
<1>8. before = g[q - 1]
  <2>1. q - 1 = p - 5
    OBVIOUS
  <2> QED BY <1>6, <2>1, RemainderBefore
<1> HIDE DEF s, r, before
<1>9. g[q - 1] = h[q - 1]
  <2>1. Remainders(s, q - 1, g) /\ Remainders(r, q - 1, h) /\ q - 1 \in Nat
    BY <1>4, <1>6, <1>7 DEF Remainders
  <2>2. \A i \in 1..q - 1 : s[i] = r[i]
    BY <1>4, <1>5
  <2>3. \A i \in 0..q - 1 : g[i] = h[i]
    BY <2>1, <2>2, RemaindersAgree
  <2> QED BY <2>1, <2>3
<1>10. Reads(g, s, 22) /\ Reads(h, r, 22)
  BY <1>3, <1>6, <1>7 DEF IBAN, Reads
<1>11. before \in 0..96
  <2>1. \A i \in 0..22 : g[i] \in 0..96
    BY <1>10, 22 \in Nat, RemaindersTyped DEF Reads
  <2>2. q - 1 \in 0..22
    BY <1>4
  <2> QED BY <1>8, <2>1, <2>2
<1>12. /\ g[q] = (10 * before + iban[p]) % 97
       /\ h[q] = (100 * before + c) % 97
  <2>1. q \in 1..22
    BY <1>4
  <2>2. g[q] = After(before, iban[p]) /\ h[q] = After(before, c)
    BY <1>4, <1>6, <1>7, <1>8, <1>9, <2>1 DEF Remainders
  <2>3. IsDigit(iban[p]) /\ ~IsDigit(c)
    BY <1>1 DEF IsDigit
  <2>4. g[q] = (before * 10 + iban[p]) % 97 /\ h[q] = (before * 100 + c) % 97
    BY <2>2, <2>3 DEF After
  <2>5. before * 10 = 10 * before /\ before * 100 = 100 * before
    BY <1>11
  <2> QED BY <2>4, <2>5
<1>13. <<p, c>> \in Unnoticed(iban) <=> h[q] = g[q]
  <2>1. <<p, c>> \in Unnoticed(iban)
          <=> (100 * before + c) % 97 = (10 * before + iban[p]) % 97
    BY DEF Unnoticed, GermanIBANLength, before
  <2> QED BY <1>12, <2>1
<1>14. SameBehind(s, r, q, 22) /\ q \in 0..22 /\ 22 \in Nat
  BY <1>4, <1>5 DEF SameBehind
<1>15. g[q] # h[q] => g[22] # h[22]
  BY <1>10, <1>14, DifferenceStays
<1>16. g[q] = h[q] => g[22] = h[22]
  BY <1>6, <1>7, <1>14, SamenessStays
<1>17. mod97(t) = 1 <=> <<p, c>> \in Unnoticed(iban)
  BY <1>1, <1>6, <1>7, <1>13, <1>15, <1>16
<1> QED BY <1>17 DEF t

\* A wrong character is refused, but a letter that is not noticed.
LEMMA MistypedIsRefused ==
  ASSUME NEW iban, Sound(iban), NEW p \in 1..22, NEW c \in 0..36,
         ValidateIBAN(Mistyped(iban, p, c)), c # iban[p]
  PROVE  <<p, c>> \in Unnoticed(iban)
<1> DEFINE t == [iban EXCEPT ![p] = c]
<1>1. Mistyped(iban, p, c) = t
  BY DEF Mistyped
<1>2. iban \in IBAN /\ \A i \in 3..22 : iban[i] \in 0..9
  BY DEF Sound
<1>3. t[p] = c
  BY <1>2 DEF IBAN
<1>4. Len(t) = 22
  <2>1. t = [i \in 1..22 |-> t[i]]
    BY <1>2 DEF IBAN
  <2> HIDE DEF t
  <2> QED BY <2>1
<1> HIDE DEF t
<1>5. /\ \A i \in 1..2 : IsLetter(t[i])
      /\ \A i \in 3..4 : IsDigit(t[i])
      /\ \A i \in 5..22 : IsDigit(t[i]) \/ IsLetter(t[i])
      /\ mod97(t) = 1
  BY <1>1, <1>4 DEF ValidateIBAN
<1>6. c \in Char
  <2>1. p \in 1..2 \/ p \in 3..4 \/ p \in 5..22
    OBVIOUS
  <2>2. IsDigit(c) \/ IsLetter(c)
    BY <1>3, <1>5, <2>1
  <2> QED BY <2>2 DEF IsDigit, IsLetter, Char
<1>7. ~(IsDigit(c) = IsDigit(iban[p]))
  <2>1. IsDigit(c) = IsDigit(iban[p]) => mod97(t) # 1
    BY <1>6, WrongCharacterIsRefused DEF t
  <2> QED BY <1>5, <2>1
<1>8. p \in 5..22
  <2>1. CASE p \in 1..2
    <3>1. iban[p] = 13 \/ iban[p] = 14
      BY <2>1 DEF Sound
    <3>2. IsLetter(c)
      BY <1>3, <1>5, <2>1
    <3>3. IsDigit(iban[p]) = FALSE /\ IsDigit(c) = FALSE
      BY <3>1, <3>2 DEF IsLetter, IsDigit
    <3> QED BY <1>7, <3>3
  <2>2. CASE p \in 3..4
    <3>1. IsDigit(iban[p]) = TRUE /\ IsDigit(c) = TRUE
      BY <1>2, <1>3, <1>5, <2>2 DEF IsDigit
    <3> QED BY <1>7, <3>1
  <2> QED BY <2>1, <2>2
<1>9. c \in 10..35
  <2>1. IsDigit(iban[p])
    BY <1>2, <1>8 DEF IsDigit
  <2>2. ~IsDigit(c)
    BY <1>7, <2>1
  <2> QED BY <1>6, <2>2 DEF IsDigit, Char
<1> QED BY <1>5, <1>8, <1>9, LetterForDigit DEF t

\* Two neighbours that differ and are swapped are refused.
LEMMA SwappedIsRefused ==
  ASSUME NEW iban, Sound(iban), NEW p \in 1..21, ValidateIBAN(Swapped(iban, p))
  PROVE  Swapped(iban, p) = iban
<1> DEFINE t == [iban EXCEPT ![p] = iban[p + 1], ![p + 1] = iban[p]]
<1>1. Swapped(iban, p) = t
  BY DEF Swapped
<1>2. iban \in IBAN /\ p \in 1..22 /\ p + 1 \in 1..22
  BY DEF Sound
<1>3. iban = [i \in 1..22 |-> iban[i]]
  BY <1>2 DEF IBAN
<1>4. CASE iban[p] = iban[p + 1]
  BY <1>1, <1>2, <1>3, <1>4
<1>5. CASE iban[p] # iban[p + 1] /\ IsDigit(iban[p]) = IsDigit(iban[p + 1])
  <2>1. mod97(t) # 1
    BY <1>5, SwapIsRefused
  <2>2. mod97(t) = 1
    BY <1>1 DEF ValidateIBAN
  <2> QED BY <2>1, <2>2
<1>6. CASE ~(IsDigit(iban[p]) = IsDigit(iban[p + 1]))
  <2>1. iban[1] = 13 /\ iban[2] = 14 /\ \A i \in 3..22 : iban[i] \in 0..9
    BY DEF Sound
  <2>2. p = 2
    <3>1. CASE p \in 3..22
      <4>1. p + 1 \in 3..22
        BY <3>1
      <4>2. IsDigit(iban[p]) = TRUE /\ IsDigit(iban[p + 1]) = TRUE
        BY <2>1, <3>1, <4>1 DEF IsDigit
      <4> QED BY <1>6, <4>2
    <3>2. CASE p = 1
      <4>1. iban[p] = 13 /\ iban[p + 1] = 14
        BY <2>1, <3>2
      <4>2. IsDigit(iban[p]) = FALSE /\ IsDigit(iban[p + 1]) = FALSE
        BY <4>1 DEF IsDigit
      <4> QED BY <1>6, <4>2
    <3> QED BY <3>1, <3>2
  <2>3. t[2] = iban[3] /\ iban[3] \in 0..9
    BY <1>2, <2>2 DEF IBAN, Sound
  <2>4. IsLetter(t[2])
    BY <1>1 DEF ValidateIBAN
  <2> QED BY <2>3, <2>4 DEF IsLetter
<1> QED BY <1>4, <1>5, <1>6

\* A letter that is not noticed passes.
LEMMA UnnoticedPasses ==
  ASSUME NEW iban, Sound(iban), NEW p, NEW c, <<p, c>> \in Unnoticed(iban)
  PROVE  /\ p \in 5..22 /\ c \in 10..35
         /\ ValidateIBAN(Mistyped(iban, p, c))
         /\ Mistyped(iban, p, c)[p] = c
<1>1. p \in 5..22 /\ c \in 10..35
  BY DEF Unnoticed, GermanIBANLength
<1> DEFINE t == [iban EXCEPT ![p] = c]
<1>2. /\ iban \in IBAN /\ iban[1] = 13 /\ iban[2] = 14
      /\ \A i \in 3..22 : iban[i] \in 0..9
  BY DEF Sound
<1>3. t[p] = c /\ \A i \in 1..22 : i # p => t[i] = iban[i]
  BY <1>1, <1>2 DEF IBAN
<1>4. Len(t) = 22
  <2>1. t = [i \in 1..22 |-> t[i]]
    BY <1>1, <1>2 DEF IBAN
  <2> HIDE DEF t
  <2> QED BY <2>1
<1>5. mod97(t) = 1
  BY <1>1, LetterForDigit
<1> HIDE DEF t
<1>6. \A i \in 1..2 : IsLetter(t[i])
  <2>1. t[1] = 13 /\ t[2] = 14
    BY <1>1, <1>2, <1>3
  <2>2. \A i \in 1..2 : t[i] = 13 \/ t[i] = 14
    BY <2>1
  <2> QED BY <2>2 DEF IsLetter
<1>7. \A i \in 3..4 : IsDigit(t[i])
  BY <1>1, <1>2, <1>3 DEF IsDigit
<1>8. \A i \in 5..22 : IsDigit(t[i]) \/ IsLetter(t[i])
  BY <1>1, <1>2, <1>3 DEF IsDigit, IsLetter
<1>9. ValidateIBAN(t)
  <2>1. Len(t) \in 15..34 /\ Len(t) = GermanIBANLength
    BY <1>4 DEF GermanIBANLength
  <2> QED BY ONLY <1>4, <1>5, <1>6, <1>7, <1>8, <2>1 DEF ValidateIBAN
<1>10. Mistyped(iban, p, c) = t
  BY DEF Mistyped, t
<1> QED BY <1>1, <1>3, <1>9, <1>10

-----------------------------------------------------------------------------
(* Card numbers and their sums.                                             *)

\* Sixteen digits.
PAN == [1..16 -> 0..9]

\* What the digit d counts at place i of a card number.
Luhn(i, d) ==
  LET e == IF i % 2 = 1 THEN 2 * d ELSE d
  IN  IF e > 9 THEN e - 9 ELSE e

\* g holds what the first digits of pan count together.
LuhnSums(pan, g) ==
  g[0] = 0 /\ \A i \in 1..16 : g[i] = g[i - 1] + Luhn(i, pan[i])

\* A digit counts for a digit.
LEMMA LuhnTyped ==
  ASSUME NEW i \in Nat, NEW d \in 0..9
  PROVE  Luhn(i, d) \in 0..9
BY DEF Luhn

\* The sums exist.
LEMMA LuhnSumsExist ==
  ASSUME NEW pan \in PAN
  PROVE  \E g \in [0..16 -> Nat] : LuhnSums(pan, g)
<1> DEFINE D == Nat \X Nat
           Value(p) == IF p[1] \in 1..16 THEN p[2] + Luhn(p[1], pan[p[1]]) ELSE 0
           F == [p \in D |-> Value(p)]
<1>1. F \in [D -> Nat]
  <2>1. ASSUME NEW p \in D
        PROVE  Value(p) \in Nat
    <3>1. CASE p[1] \in 1..16
      <4>1. p[1] \in Nat /\ p[2] \in Nat /\ pan[p[1]] \in 0..9
        BY <3>1 DEF PAN
      <4>2. Luhn(p[1], pan[p[1]]) \in 0..9
        BY <4>1, LuhnTyped
      <4> QED BY <3>1, <4>1, <4>2
    <3> QED BY <3>1
  <2> HIDE DEF D, Value
  <2> QED BY <2>1
<1>2. \A i \in 1..16, x \in Nat : F[<<i, x>>] = x + Luhn(i, pan[i])
  <2>1. ASSUME NEW i \in 1..16, NEW x \in Nat
        PROVE  F[<<i, x>>] = x + Luhn(i, pan[i])
    <3>1. i \in Nat
      OBVIOUS
    <3>2. <<i, x>> \in D
      BY <3>1
    <3>3. F[<<i, x>>] = Value(<<i, x>>)
      <4> HIDE DEF D, Value
      <4> QED BY <3>2
    <3> QED BY <3>3
  <2> QED BY <2>1
<1> HIDE DEF F
<1>3. PICK g \in [0..16 -> Nat] : Recurrence(g, 16, 0, F)
  BY <1>1, RecurrenceExists
<1>4. ASSUME NEW i \in 1..16
      PROVE  g[i] = g[i - 1] + Luhn(i, pan[i])
  <2>1. g[i - 1] \in Nat /\ g[i] = F[<<i, g[i - 1]>>]
    BY <1>3 DEF Recurrence
  <2> QED BY <1>2, <2>1
<1> QED BY <1>3, <1>4 DEF LuhnSums, Recurrence

\* The sums are numbers.
LEMMA LuhnSumsTyped ==
  ASSUME NEW pan \in PAN, NEW g, LuhnSums(pan, g)
  PROVE  \A i \in 0..16 : g[i] \in Nat
<1> DEFINE Good == {i \in Nat : i <= 16 => g[i] \in Nat}
<1>1. 0 \in Good
  BY DEF LuhnSums
<1>2. ASSUME NEW i \in Nat, i \in Good
      PROVE  i + 1 \in Good
  <2>1. SUFFICES ASSUME i + 1 <= 16
                 PROVE  g[i + 1] \in Nat
    OBVIOUS
  <2>2. i + 1 \in 1..16 /\ (i + 1) - 1 = i /\ g[i] \in Nat
    BY <1>2, <2>1
  <2>3. pan[i + 1] \in 0..9 /\ i + 1 \in Nat
    BY <2>2 DEF PAN
  <2>4. Luhn(i + 1, pan[i + 1]) \in 0..9
    BY <2>3, LuhnTyped
  <2>5. g[i + 1] = g[i] + Luhn(i + 1, pan[i + 1])
    BY <2>2 DEF LuhnSums
  <2> QED BY <2>2, <2>4, <2>5
<1> HIDE DEF Good
<1>3. Nat \subseteq Good
  BY <1>1, <1>2, NumberInduction
<1> QED BY <1>3 DEF Good

\* Card numbers that differ at one place differ by what it counts.
LEMMA LuhnDifference ==
  ASSUME NEW s \in PAN, NEW g, LuhnSums(s, g),
         NEW t \in PAN, NEW h, LuhnSums(t, h),
         NEW k \in 1..16, \A i \in 1..16 : i # k => s[i] = t[i]
  PROVE  h[16] = g[16] + (Luhn(k, t[k]) - Luhn(k, s[k]))
<1> DEFINE delta == Luhn(k, t[k]) - Luhn(k, s[k])
           Shifted == {i \in Nat : i <= 16 =>
                         h[i] = g[i] + (IF i < k THEN 0 ELSE delta)}
<1>1. \A i \in 0..16 : g[i] \in Nat /\ h[i] \in Nat
  BY LuhnSumsTyped
<1>2. Luhn(k, t[k]) \in Int /\ Luhn(k, s[k]) \in Int
  <2>1. k \in Nat /\ t[k] \in 0..9 /\ s[k] \in 0..9
    BY DEF PAN
  <2> QED BY <2>1, LuhnTyped
<1>3. 0 \in Shifted
  <2>1. g[0] = 0 /\ h[0] = 0
    BY DEF LuhnSums
  <2> QED BY <2>1
<1>4. ASSUME NEW i \in Nat, i \in Shifted
      PROVE  i + 1 \in Shifted
  <2>1. SUFFICES ASSUME i + 1 <= 16
                 PROVE  h[i + 1] = g[i + 1] + (IF i + 1 < k THEN 0 ELSE delta)
    OBVIOUS
  <2>2. i + 1 \in 1..16 /\ (i + 1) - 1 = i /\ i \in 0..16
    BY <2>1
  <2>3. h[i] = g[i] + (IF i < k THEN 0 ELSE delta) /\ g[i] \in Nat
    BY <1>1, <1>4, <2>2
  <2>4. /\ g[i + 1] = g[i] + Luhn(i + 1, s[i + 1])
        /\ h[i + 1] = h[i] + Luhn(i + 1, t[i + 1])
    BY <2>2 DEF LuhnSums
  <2>5. s[i + 1] \in 0..9 /\ t[i + 1] \in 0..9 /\ i + 1 \in Nat
    BY <2>2 DEF PAN
  <2>6. Luhn(i + 1, s[i + 1]) \in Int /\ Luhn(i + 1, t[i + 1]) \in Int
    BY <2>5, LuhnTyped
  <2>7. CASE i + 1 = k
    <3>1. i < k /\ ~(i + 1 < k)
      BY <2>7
    <3>2. h[i] = g[i]
      BY <2>3, <3>1
    <3> QED BY <1>2, <2>3, <2>4, <2>6, <2>7, <3>1, <3>2
  <2>8. CASE i + 1 # k
    <3>1. s[i + 1] = t[i + 1] /\ (i + 1 < k <=> i < k)
      BY <2>2, <2>8
    <3> HIDE DEF delta
    <3>2. delta \in Int
      BY <1>2 DEF delta
    <3> QED BY <2>3, <2>4, <2>6, <3>1, <3>2
  <2> QED BY <2>7, <2>8
<1> HIDE DEF Shifted, delta
<1>5. Nat \subseteq Shifted
  BY <1>3, <1>4, NumberInduction
<1>6. 16 \in Shifted /\ ~(16 < k)
  BY <1>5
<1> QED BY <1>6 DEF Shifted, delta

\* A card number is valid when what its digits count ends with a zero.
LEMMA LuhnComputed ==
  ASSUME NEW pan \in PAN
  PROVE  \E g : /\ LuhnSums(pan, g)
                /\ validPAN(pan) <=> pan[1] = 4 /\ g[16] % 10 = 0
<1> DEFINE Weight(i) ==
             LET d == IF i % 2 = 1 THEN 2 * pan[i] ELSE pan[i]
             IN  IF d > 9 THEN d - 9 ELSE d
           Computes(g) ==
             g = [i \in 0..Len(pan) |->
                    IF i = 0 THEN 0 ELSE g[i - 1] + Weight(i)]
           sum == CHOOSE g : Computes(g)
<1>1. Len(pan) = 16 /\ \A i \in 1..16 : pan[i] \in 0..9
  <2>1. pan = [i \in 1..16 |-> pan[i]]
    BY DEF PAN
  <2> QED BY <2>1 DEF PAN
<1>2. validPAN(pan) <=>
        (Len(pan) = 16 /\ pan[1] = 4)
        /\ (\A i \in 1..16 : IsDigit(pan[i])) /\ sum[16] % 10 = 0
  BY DEF validPAN
<1>3. \A i \in 1..16 : Weight(i) = Luhn(i, pan[i])
  BY DEF Luhn
<1> HIDE DEF Weight
<1>4. PICK g \in [0..16 -> Nat] : LuhnSums(pan, g)
  BY LuhnSumsExist
<1>5. Computes(g)
  BY <1>1, <1>3, <1>4 DEF LuhnSums
<1>6. Computes(sum)
  BY <1>5
<1> HIDE DEF sum
<1>7. LuhnSums(pan, sum)
  <2>1. sum = [i \in 0..16 |-> IF i = 0 THEN 0 ELSE sum[i - 1] + Luhn(i, pan[i])]
    BY <1>1, <1>3, <1>6
  <2> QED BY <2>1 DEF LuhnSums
<1>8. \A i \in 1..16 : IsDigit(pan[i])
  BY <1>1 DEF IsDigit
<1> QED BY <1>1, <1>2, <1>7, <1>8

\* Two digits count differently.
LEMMA LuhnInjective ==
  ASSUME NEW i \in Nat, NEW d \in 0..9, NEW e \in 0..9, d # e
  PROVE  Luhn(i, d) # Luhn(i, e)
<1>1. CASE i % 2 = 1
  BY <1>1 DEF Luhn
<1>2. CASE i % 2 # 1
  BY <1>2 DEF Luhn
<1> QED BY <1>1, <1>2

\* A multiple of ten plus or minus less than ten is none.
LEMMA NotAMultiple ==
  ASSUME NEW n \in Nat, n % 10 = 0, NEW x \in -9..9, x # 0
  PROVE  (n + x) % 10 # 0
OBVIOUS

\* A wrong digit is noticed.
LEMMA WrongDigitIsRefused ==
  ASSUME NEW pan \in PAN, validPAN(pan), NEW t \in PAN,
         NEW k \in 1..16, \A i \in 1..16 : i # k => pan[i] = t[i],
         pan[k] # t[k]
  PROVE  ~validPAN(t)
<1>1. PICK g : LuhnSums(pan, g) /\ g[16] % 10 = 0
  BY LuhnComputed
<1>2. PICK h : LuhnSums(t, h) /\ (validPAN(t) => h[16] % 10 = 0)
  BY LuhnComputed
<1>3. h[16] = g[16] + (Luhn(k, t[k]) - Luhn(k, pan[k]))
  BY <1>1, <1>2, LuhnDifference
<1>4. k \in Nat /\ pan[k] \in 0..9 /\ t[k] \in 0..9
  BY DEF PAN
<1>5. /\ Luhn(k, t[k]) \in 0..9 /\ Luhn(k, pan[k]) \in 0..9
      /\ Luhn(k, t[k]) # Luhn(k, pan[k])
  BY <1>4, LuhnTyped, LuhnInjective
<1>6. g[16] \in Nat
  BY <1>1, LuhnSumsTyped
<1> DEFINE delta == Luhn(k, t[k]) - Luhn(k, pan[k])
<1>7. delta \in -9..9 /\ delta # 0
  BY <1>5
<1> HIDE DEF delta
<1>8. h[16] = g[16] + delta
  BY <1>3 DEF delta
<1>9. h[16] % 10 # 0
  BY <1>1, <1>6, <1>7, <1>8, NotAMultiple
<1> QED BY <1>2, <1>9

\* Two digits that differ count differently when they are swapped, but 0 and 9.
LEMMA LuhnSwapped ==
  ASSUME NEW i \in Nat, NEW d \in 0..9, NEW e \in 0..9, d # e, {d, e} # {0, 9}
  PROVE  LET delta == (Luhn(i, e) - Luhn(i, d)) + (Luhn(i + 1, d) - Luhn(i + 1, e))
         IN  delta \in -9..9 /\ delta # 0
<1>1. ~(d = 0 /\ e = 9) /\ ~(d = 9 /\ e = 0)
  OBVIOUS
<1>2. CASE i % 2 = 1
  <2>1. (i + 1) % 2 # 1
    BY <1>2
  <2> QED BY <1>1, <1>2, <2>1 DEF Luhn
<1>3. CASE i % 2 # 1
  <2>1. (i + 1) % 2 = 1
    BY <1>3
  <2> QED BY <1>1, <1>3, <2>1 DEF Luhn
<1> QED BY <1>2, <1>3

\* Two neighbours that are swapped are noticed, but 0 and 9.
LEMMA SwappedDigitsAreRefused ==
  ASSUME NEW pan \in PAN, validPAN(pan), NEW k \in 1..15,
         pan[k] # pan[k + 1], {pan[k], pan[k + 1]} # {0, 9}
  PROVE  ~validPAN([pan EXCEPT ![k] = pan[k + 1], ![k + 1] = pan[k]])
<1> DEFINE half == [pan EXCEPT ![k] = pan[k + 1]]
           t == [pan EXCEPT ![k] = pan[k + 1], ![k + 1] = pan[k]]
           d == pan[k]
           e == pan[k + 1]
<1>1. /\ k \in Nat /\ k \in 1..16 /\ k + 1 \in 1..16
      /\ d \in 0..9 /\ e \in 0..9
  BY DEF PAN
<1>2. half \in PAN /\ t \in PAN
  BY <1>1 DEF PAN
<1>3. /\ \A i \in 1..16 : i # k => pan[i] = half[i]
      /\ half[k] = e
  BY <1>1 DEF PAN
<1>4. /\ \A i \in 1..16 : i # k + 1 => half[i] = t[i]
      /\ half[k + 1] = e /\ t[k + 1] = d
  BY <1>1 DEF PAN
<1> HIDE DEF half, t
<1>5. PICK g : LuhnSums(pan, g) /\ g[16] % 10 = 0
  BY LuhnComputed
<1>6. PICK f : LuhnSums(half, f)
  BY <1>2, LuhnComputed
<1>7. PICK h : LuhnSums(t, h) /\ (validPAN(t) => h[16] % 10 = 0)
  BY <1>2, LuhnComputed
<1>8. f[16] = g[16] + (Luhn(k, half[k]) - Luhn(k, pan[k]))
  BY <1>1, <1>2, <1>3, <1>5, <1>6, LuhnDifference
<1>9. h[16] = f[16] + (Luhn(k + 1, t[k + 1]) - Luhn(k + 1, half[k + 1]))
  BY <1>1, <1>2, <1>4, <1>6, <1>7, LuhnDifference
<1>10. g[16] \in Nat /\ f[16] \in Nat
  BY <1>2, <1>5, <1>6, LuhnSumsTyped
<1> DEFINE a == Luhn(k, e)
           b == Luhn(k, d)
           x == Luhn(k + 1, d)
           y == Luhn(k + 1, e)
<1>11. a \in 0..9 /\ b \in 0..9 /\ x \in 0..9 /\ y \in 0..9
  BY <1>1, LuhnTyped
<1>12. (a - b) + (x - y) \in -9..9 /\ (a - b) + (x - y) # 0
  BY <1>1, LuhnSwapped
<1>13. h[16] = (g[16] + (a - b)) + (x - y)
  BY <1>3, <1>4, <1>8, <1>9
<1> DEFINE delta == (a - b) + (x - y)
<1>14. h[16] = g[16] + delta
  <2> HIDE DEF a, b, x, y
  <2> QED BY <1>10, <1>11, <1>13
<1>15. delta \in -9..9 /\ delta # 0
  BY <1>12
<1> HIDE DEF delta
<1>16. h[16] % 10 # 0
  BY <1>5, <1>10, <1>14, <1>15, NotAMultiple
<1> QED BY <1>7, <1>16 DEF t

\* The check digit of a card number: the one that makes its sum end with zero.
LEMMA CheckDigit ==
  ASSUME NEW n \in Nat, NEW d \in 0..9
  PROVE  LET fit == (10 - (n % 10)) % 10
         IN  fit \in 0..9 /\ ((n + d) % 10 = 0 <=> d = fit)
OBVIOUS

\* The card number that is drawn is valid.
LEMMA MadePAN ==
  ASSUME NEW p \in [1..14 -> 0..9]
  PROVE  generatePAN(p) \in PAN /\ validPAN(generatePAN(p))
<1> DEFINE candidate(digit) == <<4>> \o p \o <<digit>>
           Fits == {digit \in 0..9 : validPAN(candidate(digit))}
<1>1. ASSUME NEW d \in 0..9
      PROVE  /\ candidate(d) \in PAN
             /\ candidate(d)[1] = 4 /\ candidate(d)[16] = d
             /\ \A i \in 1..14 : candidate(d)[1 + i] = p[i]
  <2> DEFINE four == <<4>>
             last == <<d>>
             front == four \o p
             w == front \o last
  <2>1. IsString(four, 0..9, 1) /\ four[1] = 4
    BY DEF IsString
  <2>2. IsString(last, 0..9, 1) /\ last[1] = d
    BY DEF IsString
  <2>3. IsString(p, 0..9, 14)
    <3>1. p = [i \in 1..14 |-> p[i]] /\ \A i \in 1..14 : p[i] \in 0..9
      OBVIOUS
    <3> QED BY <3>1 DEF IsString
  <2>4. front = Joined(four, p) /\ w = Joined(front, last)
    BY DEF Joined
  <2>5. candidate(d) = w
    OBVIOUS
  <2> HIDE DEF four, last, front, w, candidate
  <2>6. IsString(front, 0..9, 15) /\ Joins(front, four, 1, p, 14)
    <3>1. IsString(four, 0..9, 1) /\ IsString(p, 0..9, 14)
      BY <2>1, <2>3
    <3>2. /\ IsString(Joined(four, p), 0..9, 1 + 14)
          /\ Joins(Joined(four, p), four, 1, p, 14)
      BY <3>1, StringsJoin
    <3>3. IsString(Joined(four, p), 0..9, 15)
      BY <3>2
    <3> QED BY <2>4, <3>2, <3>3
  <2>7. IsString(w, 0..9, 16) /\ Joins(w, front, 15, last, 1)
    BY <2>2, <2>4, <2>6, StringsJoin
  <2>8. w \in PAN
    BY <2>7, LenProperties DEF PAN, IsString
  <2>9. front[1] = 4 /\ \A i \in 1..14 : front[1 + i] = p[i]
    BY <2>1, <2>6 DEF Joins
  <2>10. (\A i \in 1..15 : w[i] = front[i]) /\ w[15 + 1] = last[1]
    BY <2>7 DEF Joins
  <2>11. w[1] = 4 /\ w[16] = d /\ \A i \in 1..14 : w[1 + i] = p[i]
    BY <2>2, <2>9, <2>10
  <2> QED BY <2>5, <2>8, <2>11
<1>2. generatePAN(p) = candidate(Min(Fits))
  BY DEF generatePAN
<1> HIDE DEF candidate
<1>3. PICK n \in Nat : \A d \in 0..9 : d \in Fits <=> (n + d) % 10 = 0
  <2>1. PICK g : LuhnSums(candidate(0), g)
    BY <1>1, LuhnComputed
  <2>2. g[15] \in Nat
    BY <1>1, <2>1, LuhnSumsTyped
  <2>3. ASSUME NEW d \in 0..9
        PROVE  d \in Fits <=> (g[15] + d) % 10 = 0
    <3>1. PICK h : /\ LuhnSums(candidate(d), h)
                   /\ validPAN(candidate(d)) <=>
                        candidate(d)[1] = 4 /\ h[16] % 10 = 0
      BY <1>1, LuhnComputed
    <3>2. /\ candidate(0) \in PAN /\ candidate(d) \in PAN
          /\ \A i \in 1..16 : i # 16 => candidate(0)[i] = candidate(d)[i]
      <4>1. ASSUME NEW i \in 1..16, i # 16
            PROVE  candidate(0)[i] = candidate(d)[i]
        <5>1. CASE i = 1
          BY <1>1, <5>1
        <5>2. CASE i # 1
          <6>1. i - 1 \in 1..14 /\ 1 + (i - 1) = i
            BY <4>1, <5>2
          <6>2. /\ candidate(0)[1 + (i - 1)] = p[i - 1]
                /\ candidate(d)[1 + (i - 1)] = p[i - 1]
            BY <1>1, <6>1
          <6> QED BY <6>1, <6>2
        <5> QED BY <5>1, <5>2
      <4> QED BY <1>1, <4>1
    <3>3. h[16] = g[16] + (Luhn(16, candidate(d)[16]) - Luhn(16, candidate(0)[16]))
      BY ONLY <2>1, <3>1, <3>2, 16 \in 1..16, LuhnDifference
    <3>4. g[16] = g[15] + Luhn(16, candidate(0)[16])
      BY <2>1 DEF LuhnSums
    <3>5. \A e \in 0..9 : Luhn(16, e) = e
      BY DEF Luhn
    <3>6. h[16] = g[15] + d
      BY <1>1, <2>2, <3>3, <3>4, <3>5
    <3> QED BY <1>1, <3>1, <3>6
  <2> QED BY <2>2, <2>3
<1> DEFINE fit == (10 - (n % 10)) % 10
<1>4. fit \in 0..9 /\ Fits = {fit}
  <2>1. \A d \in 0..9 : fit \in 0..9 /\ ((n + d) % 10 = 0 <=> d = fit)
    BY CheckDigit
  <2> HIDE DEF fit
  <2>2. fit \in 0..9
    BY <2>1
  <2>3. \A d \in 0..9 : d \in Fits <=> d = fit
    BY <1>3, <2>1
  <2>4. Fits \subseteq 0..9
    OBVIOUS
  <2> HIDE DEF Fits
  <2> QED BY <2>2, <2>3, <2>4
<1> HIDE DEF fit
<1>5. Min(Fits) = fit
  <2> HIDE DEF Fits
  <2> QED BY <1>4 DEF Min
<1>6. fit \in Fits
  <2> HIDE DEF Fits
  <2> QED BY <1>4
<1> QED BY <1>1, <1>2, <1>4, <1>5, <1>6

\* A slip is a character or an order that is wrong.
LEMMA SlipsAre ==
  ASSUME NEW s, NEW r
  PROVE  r \in OneSlip(s) <=>
           \/ \E i \in 1..Len(s) : \E c \in 0..36 : r = Mistyped(s, i, c)
           \/ \E i \in 1..Len(s) - 1 : r = Swapped(s, i)
<1> DEFINE A == {Mistyped(s, i, c) : i \in 1..Len(s), c \in 0..36}
           B == {Swapped(s, i) : i \in 1..Len(s) - 1}
<1>1. r \in OneSlip(s) <=> r \in A \/ r \in B
  BY DEF OneSlip
<1>2. r \in A <=> \E i \in 1..Len(s) : \E c \in 0..36 : r = Mistyped(s, i, c)
  OBVIOUS
<1>3. r \in B <=> \E i \in 1..Len(s) - 1 : r = Swapped(s, i)
  OBVIOUS
<1> HIDE DEF A, B
<1> QED BY <1>1, <1>2, <1>3

\* Every slip in a card number is noticed, but a 0 and a 9 that are swapped.
LEMMA PANSlipsAreRefused ==
  ASSUME NEW pan \in PAN, validPAN(pan), NEW s \in PANSlips(pan)
  PROVE  ~validPAN(s)
<1>1. /\ Len(pan) = 16
      /\ \A i \in 1..16 : pan[i] \in 0..9
  <2>1. pan = [i \in 1..16 |-> pan[i]] /\ \A i \in 1..16 : pan[i] \in 0..9
    BY DEF PAN
  <2> QED BY <2>1
<1>2. /\ s \in OneSlip(pan)
      /\ s # pan /\ \A i \in ZeroNine(pan) : s # Swapped(pan, i)
  BY DEF PANSlips
<1>3. ASSUME NEW k \in 1..16, NEW c \in 0..36, s = Mistyped(pan, k, c)
      PROVE  ~validPAN(s)
  <2>1. s = [pan EXCEPT ![k] = c]
    BY <1>3 DEF Mistyped
  <2>2. s[k] = c
    BY <2>1 DEF PAN
  <2>3. CASE c \in 0..9
    <3>1. s \in PAN /\ \A i \in 1..16 : i # k => pan[i] = s[i]
      BY <2>1, <2>3 DEF PAN
    <3>2. pan[k] # s[k]
      BY <1>2, <2>1, <2>2 DEF PAN
    <3> QED BY <3>1, <3>2, WrongDigitIsRefused
  <2>4. CASE c \notin 0..9
    <3>1. ~IsDigit(s[k])
      BY <2>2, <2>4 DEF IsDigit
    <3> QED BY <3>1 DEF validPAN
  <2> QED BY <2>3, <2>4
<1>4. ASSUME NEW k \in 1..15, s = Swapped(pan, k)
      PROVE  ~validPAN(s)
  <2>1. k \in 1..16 /\ k + 1 \in 1..16
    OBVIOUS
  <2>2. s = [pan EXCEPT ![k] = pan[k + 1], ![k + 1] = pan[k]]
    BY <1>4 DEF Swapped
  <2>3. pan[k] # pan[k + 1]
    BY <1>2, <2>1, <2>2 DEF PAN
  <2>4. {pan[k], pan[k + 1]} # {0, 9}
    <3>1. k \notin ZeroNine(pan)
      BY <1>2, <1>4
    <3> QED BY <3>1 DEF ZeroNine
  <2>5. ~validPAN([pan EXCEPT ![k] = pan[k + 1], ![k + 1] = pan[k]])
    BY <2>3, <2>4, SwappedDigitsAreRefused
  <2> QED BY <2>2, <2>5
<1>5. \/ \E k \in 1..16 : \E c \in 0..36 : s = Mistyped(pan, k, c)
      \/ \E k \in 1..16 - 1 : s = Swapped(pan, k)
  BY <1>1, <1>2, SlipsAre
<1>6. 16 - 1 = 15
  OBVIOUS
<1> QED BY <1>3, <1>4, <1>5, <1>6

\* An IBAN that is made is sound and valid.
LEMMA MadeIBANIsSound ==
  ASSUME NEW n \in Nat
  PROVE  /\ Sound(GermanDemoIBANForAccount(n))
         /\ ValidateIBAN(GermanDemoIBANForAccount(n))
<1> DEFINE iban == GermanDemoIBANForAccount(n)
<1>1. /\ iban \in IBAN /\ Len(iban) = 22
      /\ iban[1] = 13 /\ iban[2] = 14 /\ iban[5] = 9
      /\ \A i \in 3..22 : iban[i] \in 0..9
      /\ mod97(iban) = 1
  BY MadeIBAN
<1> HIDE DEF iban
<1>2. Sound(iban)
  BY <1>1 DEF Sound
<1>3. ValidateIBAN(iban)
  BY <1>1 DEF ValidateIBAN, GermanIBANLength, IsDigit, IsLetter
<1> QED BY <1>2, <1>3 DEF iban

\* Who an IBAN is for, and what it is like.
LEMMA IBANsAre ==
  ASSUME NEW i \in IBANs
  PROVE  i = <<i[1], i[2]>> /\ i[1] \in Numbers /\ Sound(i[2])
<1>1. PICK n \in Numbers : i = <<n, GermanDemoIBANForAccount(n)>>
  BY DEF IBANs
<1>2. n \in Nat
  BY DrawnDigits
<1>3. Sound(GermanDemoIBANForAccount(n))
  BY <1>2, MadeIBANIsSound
<1> DEFINE iban == GermanDemoIBANForAccount(n)
<1> HIDE DEF iban
<1>4. i = <<n, iban>> /\ Sound(iban)
  BY <1>1, <1>3 DEF iban
<1> QED BY <1>4

\* What gets past the validation is what was meant, but for the letters that
\* are not noticed.
LEMMA TypedMayPass ==
  ASSUME NEW t \in Typed
  PROVE  t \in MayPass
<1>1. PICK i \in IBANs : \E s \in OneSlip(i[2]) : t = Accept(i, s)
  BY DEF Typed
<1>2. PICK s \in OneSlip(i[2]) : t = Accept(i, s)
  BY <1>1
<1> DEFINE n == i[1]
           iban == i[2]
<1>3. i = <<n, iban>> /\ Sound(iban)
  BY IBANsAre
<1>4. t = <<n, IF ValidateIBAN(s) THEN s ELSE iban>> /\ s \in OneSlip(iban)
  BY <1>2 DEF Accept
<1>5. Len(iban) = 22 /\ iban = [k \in 1..22 |-> iban[k]]
  BY <1>3 DEF Sound, IBAN
<1> HIDE DEF n, iban
<1>6. CASE ~ValidateIBAN(s) \/ s = iban
  BY <1>3, <1>4, <1>6 DEF MayPass
<1>7. CASE ValidateIBAN(s) /\ s # iban
  <2>1. t = <<n, s>>
    BY <1>4, <1>7
  <2>2. ASSUME NEW p \in 1..21, s = Swapped(iban, p)
        PROVE  FALSE
    BY <1>3, <1>7, <2>2, SwappedIsRefused
  <2>3. PICK p \in 1..22, c \in 0..36 : s = Mistyped(iban, p, c)
    <3>1. \/ \E k \in 1..22 : \E c \in 0..36 : s = Mistyped(iban, k, c)
          \/ \E k \in 1..22 - 1 : s = Swapped(iban, k)
      BY <1>4, <1>5, SlipsAre
    <3>2. 22 - 1 = 21
      OBVIOUS
    <3> QED BY <2>2, <3>1, <3>2
  <2>4. c # iban[p]
    BY <1>5, <1>7, <2>3 DEF Mistyped
  <2>5. <<p, c>> \in Unnoticed(iban)
    BY <1>3, <1>7, <2>3, <2>4, MistypedIsRefused
  <2>6. t = <<n, Mistyped(iban, p, c)>>
    BY <2>1, <2>3
  <2>7. <<n, Mistyped(iban, <<p, c>>[1], <<p, c>>[2])>> \in WithLetter
    BY <2>5 DEF WithLetter, n, iban
  <2> QED BY <2>6, <2>7 DEF MayPass
<1> QED BY <1>6, <1>7

\* All of that does get past it, and leads to no account of the bank.
LEMMA WithLetterIs ==
  ASSUME NEW t \in WithLetter
  PROVE  /\ t = <<t[1], t[2]>> /\ t[1] \in Numbers
         /\ t \in Typed
         /\ \A j \in IBANs : j[2] # t[2]
<1>1. PICK i \in IBANs :
        \E u \in Unnoticed(i[2]) : t = <<i[1], Mistyped(i[2], u[1], u[2])>>
  BY DEF WithLetter
<1>2. PICK u \in Unnoticed(i[2]) : t = <<i[1], Mistyped(i[2], u[1], u[2])>>
  BY <1>1
<1> DEFINE n == i[1]
           iban == i[2]
           p == u[1]
           c == u[2]
           s == Mistyped(iban, p, c)
<1>3. i = <<n, iban>> /\ n \in Numbers /\ Sound(iban)
  BY IBANsAre
<1>4. u = <<p, c>>
  BY DEF Unnoticed
<1>5. t = <<n, s>> /\ u \in Unnoticed(iban)
  BY <1>2
<1>6. p \in 5..22 /\ c \in 10..35 /\ ValidateIBAN(s) /\ s[p] = c
  <2> HIDE DEF n, iban, p, c
  <2> QED BY <1>3, <1>4, <1>5, UnnoticedPasses
<1>7. s \in OneSlip(iban)
  <2>1. Len(iban) = 22
    BY <1>3 DEF Sound
  <2>2. p \in 1..Len(iban) /\ c \in 0..36
    BY <1>6, <2>1
  <2> HIDE DEF n, iban, p, c
  <2> QED BY <2>2, SlipsAre DEF s
<1>8. Accept(i, s) = t
  <2>1. Accept(i, s) = <<n, IF ValidateIBAN(s) THEN s ELSE iban>>
    BY DEF Accept
  <2> HIDE DEF n, iban, p, c, s
  <2> QED BY <1>5, <1>6, <2>1
<1>9. t \in Typed
  <2> HIDE DEF s
  <2>1. s \in OneSlip(i[2])
    BY <1>7
  <2> HIDE DEF n, iban, p, c
  <2> QED BY <1>8, <2>1 DEF Typed
<1>10. ASSUME NEW j \in IBANs
       PROVE  j[2] # t[2]
  <2>1. Sound(j[2])
    BY IBANsAre
  <2>2. j[2][p] \in 0..9
    BY <1>6, <2>1 DEF Sound
  <2> HIDE DEF n, iban, p, c, s
  <2>3. t[2] = s
    BY <1>5
  <2>4. c \notin 0..9
    BY <1>6
  <2> QED BY <1>6, <2>2, <2>3, <2>4
<1>11. t = <<t[1], t[2]>> /\ t[1] \in Numbers
  <2> HIDE DEF n, s
  <2> QED BY <1>3, <1>5
<1> QED BY <1>9, <1>10, <1>11

\* An IBAN typed right gets past it too.
LEMMA MayPassIsTyped == Typed = MayPass
<1>1. ASSUME NEW i \in IBANs
      PROVE  i \in Typed
  <2> DEFINE n == i[1]
             iban == i[2]
  <2>1. i = <<n, iban>> /\ Sound(iban)
    BY IBANsAre
  <2>2. Mistyped(iban, 1, 13) = iban /\ 1 \in 1..Len(iban) /\ 13 \in 0..36
    <3>1. iban \in IBAN /\ Len(iban) = 22 /\ iban[1] = 13
      BY <2>1 DEF Sound
    <3> HIDE DEF iban
    <3>2. iban = [k \in 1..22 |-> iban[k]]
      BY <3>1 DEF IBAN
    <3> QED BY <3>1, <3>2 DEF Mistyped
  <2>3. iban \in OneSlip(iban)
    <3> HIDE DEF iban, n
    <3> QED BY <2>2, SlipsAre
  <2>4. Accept(i, iban) = i
    <3>1. Accept(i, iban) = <<n, IF ValidateIBAN(iban) THEN iban ELSE iban>>
      BY DEF Accept
    <3> HIDE DEF iban, n
    <3> QED BY <2>1, <3>1
  <2> QED BY <2>3, <2>4 DEF Typed
<1> QED BY <1>1, TypedMayPass, WithLetterIs DEF MayPass

\* What may pass is for an account number.
LEMMA MayPassIs ==
  ASSUME NEW t \in MayPass
  PROVE  t = <<t[1], t[2]>> /\ t[1] \in Numbers
BY IBANsAre, WithLetterIs DEF MayPass

\* Every IBAN that is made is valid.
LEMMA IBANsAreGood == GoodIBANs = IBANs
<1>1. ASSUME NEW i \in IBANs
      PROVE  ValidateIBAN(i[2])
  <2>1. PICK n \in Numbers : i = <<n, GermanDemoIBANForAccount(n)>>
    BY DEF IBANs
  <2>2. n \in Nat
    BY DrawnDigits
  <2> QED BY <2>1, <2>2, MadeIBANIsSound
<1> QED BY <1>1 DEF GoodIBANs

\* Every card number catches the slips made in it.
LEMMA CardNumbersCatch == CardNumbersCaught = PanPrefixes
<1>1. ASSUME NEW p \in PanPrefixes
      PROVE  /\ validPAN(generatePAN(p))
             /\ \A s \in PANSlips(generatePAN(p)) : ~validPAN(s)
  <2>1. p \in [1..14 -> 0..9]
    BY DrawnDigits
  <2>2. generatePAN(p) \in PAN /\ validPAN(generatePAN(p))
    BY <2>1, MadePAN
  <2> QED BY <2>2, PANSlipsAreRefused
<1> QED BY <1>1 DEF CardNumbersCaught

-----------------------------------------------------------------------------
(* Checks and saved payees.                                                 *)

\* A check has the parts of one.
CheckShape(c) ==
  c = [step |-> c.step, asker |-> c.asker, meant |-> c.meant, iban |-> c.iban,
       provided |-> c.provided, actual |-> c.actual, result |-> c.result,
       suggested |-> c.suggested]

\* No check is made for, and no payee saved under, an IBAN nobody meant.
MeantOnly ==
  /\ CheckShape(check)
  /\ check.step # "idle" => <<check.meant, check.iban>> \in MayPass
  /\ \A b \in beneficiaries : \E n \in Numbers : <<n, b.iban>> \in MayPass

\* Before a check there is none for anybody.
LEMMA NoCheckShape == CheckShape(NoCheck) /\ NoCheck.step = "idle"
<1> DEFINE a == CHOOSE o \in Customers : TRUE
<1>1. NoCheck = [step |-> "idle", asker |-> a, meant |-> 0, iban |-> <<>>,
                 provided |-> 0, actual |-> 0, result |-> "", suggested |-> 0]
  BY DEF NoCheck
<1> HIDE DEF a
<1> QED BY <1>1 DEF CheckShape

\* Nothing is checked and nobody saved at first.
LEMMA InitMeantOnly == PayeesInit => MeantOnly
<1> SUFFICES ASSUME PayeesInit
             PROVE  MeantOnly
  OBVIOUS
<1>1. check = NoCheck /\ beneficiaries = {}
  BY DEF PayeesInit
<1>2. check.step = "idle" /\ CheckShape(check)
  BY <1>1, NoCheckShape
<1> QED BY <1>1, <1>2 DEF MeantOnly

\* A check that is begun is for the IBAN that is meant, and so is its answer.
LEMMA VerifyPayeeKeeps ==
  ASSUME MeantOnly, NEW o, NEW p, NEW t \in Typed, VerifyPayee(o, p, t[1], t[2])
  PROVE  MeantOnly'
<1> DEFINE c == [NoCheck EXCEPT !.asker = o, !.meant = t[1], !.iban = t[2],
                   !.provided = p]
           names == LookupPayeeByIBAN(t[2])
<1>1. <<t[1], t[2]>> \in MayPass
  <2>1. t \in MayPass
    BY TypedMayPass
  <2> QED BY <2>1, MayPassIs
<1>2. \/ \E name : Answer(c, name)
      \/ check' = [c EXCEPT !.step = "saved"]
  BY DEF VerifyPayee
<1>3. CheckShape(c) /\ c.meant = t[1] /\ c.iban = t[2]
  <2> DEFINE m == t[1]
             s == t[2]
  <2>1. c = [NoCheck EXCEPT !.asker = o, !.meant = m, !.iban = s, !.provided = p]
    OBVIOUS
  <2> HIDE DEF m, s, c
  <2>2. CheckShape(c) /\ c.meant = m /\ c.iban = s
    BY <2>1, NoCheckShape DEF CheckShape
  <2> QED BY <2>2 DEF m, s
<1> HIDE DEF c
<1>4. check'.meant = t[1] /\ check'.iban = t[2] /\ CheckShape(check)'
  <2>1. ASSUME NEW name, Answer(c, name)
        PROVE  check'.meant = t[1] /\ check'.iban = t[2] /\ CheckShape(check)'
    BY <1>3, <2>1 DEF Answer, CheckShape
  <2>2. CASE check' = [c EXCEPT !.step = "saved"]
    BY <1>3, <2>2 DEF CheckShape
  <2> QED BY <1>2, <2>1, <2>2
<1>5. beneficiaries' = beneficiaries
  BY DEF VerifyPayee
<1> QED BY <1>1, <1>4, <1>5 DEF MeantOnly

\* The second answer is for the same IBAN.
LEMMA VerifySavedPayeeKeeps ==
  ASSUME MeantOnly, VerifySavedPayee
  PROVE  MeantOnly'
<1>1. check.step = "saved" /\ \E name : Answer(check, name)
  BY DEF VerifySavedPayee
<1>2. beneficiaries' = beneficiaries
  BY DEF VerifySavedPayee
<1>3. /\ check'.meant = check.meant /\ check'.iban = check.iban
      /\ CheckShape(check)'
  BY <1>1 DEF MeantOnly, CheckShape, Answer
<1> QED BY <1>1, <1>2, <1>3 DEF MeantOnly

\* A payee is saved under the IBAN that is meant.
LEMMA CreateBeneficiaryKeeps ==
  ASSUME MeantOnly, NEW o, NEW name, NEW t \in Typed,
         CreateBeneficiary(o, name, t[2])
  PROVE  MeantOnly'
<1>1. t \in MayPass /\ t = <<t[1], t[2]>> /\ t[1] \in Numbers
  BY TypedMayPass, MayPassIs
<1>2. \E n \in Numbers : <<n, t[2]>> \in MayPass
  <2>1. <<t[1], t[2]>> \in MayPass
    BY <1>1
  <2> QED BY <1>1, <2>1
<1>3. check' = check
  BY DEF CreateBeneficiary
<1>4. \A b \in beneficiaries' : b \in beneficiaries \/ b.iban = t[2]
  BY DEF CreateBeneficiary, SaveBeneficiary
<1> QED BY <1>2, <1>3, <1>4 DEF MeantOnly, CheckShape

\* Nothing else touches the checks and the saved payees.
LEMMA OthersKeepMeant ==
  ASSUME MeantOnly, check' = check, beneficiaries' = beneficiaries
  PROVE  MeantOnly'
BY DEF MeantOnly, CheckShape

\* Every step keeps the invariant.
LEMMA NextKeepsMeant == ASSUME MeantOnly, [PayeesNext]_allVars PROVE MeantOnly'
<1>1. CASE UNCHANGED payeeVars
  BY <1>1, OthersKeepMeant DEF payeeVars
<1>2. ASSUME NEW o \in Askers, NEW p \in DOMAIN TypedNames, NEW t \in Typed,
             VerifyPayee(o, p, t[1], t[2])
      PROVE  MeantOnly'
  BY <1>2, VerifyPayeeKeeps
<1>3. CASE VerifySavedPayee
  BY <1>3, VerifySavedPayeeKeeps
<1>4. ASSUME NEW o \in Askers, NEW name \in Known, NEW t \in Typed,
             CreateBeneficiary(o, name, t[2])
      PROVE  MeantOnly'
  BY <1>4, CreateBeneficiaryKeeps
<1>5. ASSUME NEW o \in Customers, NEW name \in Known, UpdateProfile(o, name)
      PROVE  MeantOnly'
  BY <1>5, OthersKeepMeant DEF UpdateProfile
<1> QED BY <1>1, <1>2, <1>3, <1>4, <1>5 DEF PayeesNext, allVars

\* IBANs and card numbers catch what a customer gets wrong, whatever account
\* numbers and digits are drawn, whoever asks and whatever names there are.
THEOREM SlipsCaught == PayeesSpec => []SlipsAreCaught
<1>1. MeantOnly => SlipsAreCaught
  BY IBANsAreGood, MayPassIsTyped, WithLetterIs, CardNumbersCatch
  DEF MeantOnly, SlipsAreCaught
<1> QED BY <1>1, InitMeantOnly, NextKeepsMeant, PTL DEF PayeesSpec

-----------------------------------------------------------------------------
(* The verdicts.                                                            *)

\* An answered check has the verdict of the code, and tells a name that is close.
Evaluated(c) ==
  /\ <<c.provided, c.actual, c.result>> \in Evaluations
  /\ c.suggested # 0 <=> c.result = "CLOSE_MATCH"
ChecksEvaluated ==
  CheckShape(check) /\ (check.step = "answered" => Evaluated(check))

\* The verdicts of the code are the right ones.
LEMMA EvaluationsAreRight == Evaluations = RightVerdicts
<1>1. \A a \in {0} \cup Known : IsName(NameAt(a))
  <2>1. IsName(NoName)
    BY DEF IsName, NoName
  <2> QED BY <2>1, NamesAreNames DEF NameAt, Known
<1>2. ASSUME NEW p \in DOMAIN TypedNames, NEW a \in {0} \cup Known
      PROVE  EvaluateVoP(TypedNames[p], NameAt(a)) = Verdict(TypedNames[p], NameAt(a))
  BY <1>1, NamesAreNames, VerdictsAgree
<1> QED BY <1>2 DEF Evaluations, RightVerdicts

\* Without a name on record the verdict is OTHER.
LEMMA NoNameIsOther ==
  ASSUME NEW p, NEW v, <<p, 0, v>> \in Evaluations
  PROVE  v = "OTHER"
<1>1. PICK q \in DOMAIN TypedNames, a \in {0} \cup Known :
        <<p, 0, v>> = <<q, a, EvaluateVoP(TypedNames[q], NameAt(a))>>
  BY DEF Evaluations
<1> DEFINE e == EvaluateVoP(TypedNames[q], NameAt(a))
<1>2. a = 0 /\ v = e
  <2> HIDE DEF e
  <2>1. <<p, 0, v>> = <<q, a, e>>
    BY <1>1 DEF e
  <2> QED BY <2>1
<1>3. NameAt(a) = NoName
  BY <1>2 DEF NameAt
<1>4. e = "OTHER"
  BY <1>3, Zenon DEF EvaluateVoP
<1> QED BY <1>2, <1>4

\* An answer is the verdict of the code.
LEMMA AnswersAreEvaluated ==
  ASSUME NEW c, CheckShape(c), NEW name, Answer(c, name)
  PROVE  ChecksEvaluated'
<1>1. PICK v \in Verdicts :
        /\ <<c.provided, name, v>> \in Evaluations
        /\ check' = [c EXCEPT !.step = "answered", !.actual = name, !.result = v,
                       !.suggested = IF v = "CLOSE_MATCH" THEN name ELSE 0]
  BY DEF Answer
<1>2. /\ check'.provided = c.provided /\ check'.actual = name /\ check'.result = v
      /\ check'.suggested = IF v = "CLOSE_MATCH" THEN name ELSE 0
      /\ CheckShape(check)'
  BY <1>1 DEF CheckShape
<1>3. name = 0 => v = "OTHER"
  BY <1>1, NoNameIsOther
<1>4. check'.suggested # 0 <=> check'.result = "CLOSE_MATCH"
  BY <1>2, <1>3
<1>5. <<check'.provided, check'.actual, check'.result>> \in Evaluations
  BY <1>1, <1>2
<1>6. Evaluations' = Evaluations
  BY DEF Evaluations
<1> QED BY <1>2, <1>4, <1>5, <1>6 DEF ChecksEvaluated, Evaluated

\* Every step keeps the answers: a check that is begun has no answer yet, and
\* nothing but a check changes one.
LEMMA NextKeepsEvaluated ==
  ASSUME ChecksEvaluated, [PayeesNext]_allVars
  PROVE  ChecksEvaluated'
<1>0. Evaluations' = Evaluations
  BY DEF Evaluations
<1>1. CASE check' = check
  BY <1>0, <1>1 DEF ChecksEvaluated, Evaluated, CheckShape
<1>2. ASSUME NEW o, NEW p, NEW n, NEW s, VerifyPayee(o, p, n, s)
      PROVE  ChecksEvaluated'
  <2> DEFINE c == [NoCheck EXCEPT !.asker = o, !.meant = n, !.iban = s,
                     !.provided = p]
             names == LookupPayeeByIBAN(s)
  <2>1. \/ \E name : Answer(c, name)
        \/ check' = [c EXCEPT !.step = "saved"]
    BY <1>2 DEF VerifyPayee
  <2>2. CheckShape(c)
    <3>1. c = [NoCheck EXCEPT !.asker = o, !.meant = n, !.iban = s, !.provided = p]
      OBVIOUS
    <3> HIDE DEF c, names
    <3> QED BY <3>1, NoCheckShape DEF CheckShape
  <2> HIDE DEF c, names
  <2>3. ASSUME NEW name, Answer(c, name)
        PROVE  ChecksEvaluated'
    BY <2>2, <2>3, AnswersAreEvaluated
  <2>4. CASE check' = [c EXCEPT !.step = "saved"]
    <3>1. CheckShape(check)' /\ check'.step = "saved"
      BY <2>2, <2>4 DEF CheckShape
    <3> QED BY <3>1 DEF ChecksEvaluated
  <2> QED BY <2>1, <2>3, <2>4
<1>3. CASE VerifySavedPayee
  <2>1. \E name : Answer(check, name)
    BY <1>3 DEF VerifySavedPayee
  <2>2. CheckShape(check)
    BY DEF ChecksEvaluated
  <2> QED BY <2>1, <2>2, AnswersAreEvaluated
<1>4. ASSUME NEW o, NEW name, NEW s, CreateBeneficiary(o, name, s)
      PROVE  check' = check
  BY <1>4 DEF CreateBeneficiary
<1>5. ASSUME NEW o, NEW name, UpdateProfile(o, name)
      PROVE  check' = check
  BY <1>5 DEF UpdateProfile
<1>6. UNCHANGED payeeVars => check' = check
  BY DEF payeeVars
<1> QED BY <1>1, <1>2, <1>3, <1>4, <1>5, <1>6 DEF PayeesNext, allVars

\* Whatever names customers type and the bank knows, the answer to a check is
\* the verdict the plain definitions give: the four outcomes of vop.go, with its
\* normalization, its distance table and its counting of tokens.
THEOREM VerdictsAreRight == PayeesSpec => []VerdictIsRight
<1>1. PayeesInit => ChecksEvaluated
  <2>1. PayeesInit => check = NoCheck
    BY DEF PayeesInit
  <2> QED BY <2>1, NoCheckShape DEF ChecksEvaluated
<1>2. ChecksEvaluated => VerdictIsRight
  BY EvaluationsAreRight DEF ChecksEvaluated, Evaluated, VerdictIsRight
<1> QED BY <1>1, <1>2, NextKeepsEvaluated, PTL DEF PayeesSpec

\* Payees only read the accounts: what is proved of Cards holds with them too.
THEOREM PayeesLeaveCardsAlone == PayeesSpec => Spec
<1>1. PayeesInit => Init
  BY DEF PayeesInit
<1>2. [PayeesNext]_allVars => [Next]_vars
  <2>1. ASSUME NEW o, NEW p, NEW t, VerifyPayee(o, p, t[1], t[2])
        PROVE  UNCHANGED vars
    BY <2>1 DEF VerifyPayee
  <2>2. VerifySavedPayee => UNCHANGED vars
    BY DEF VerifySavedPayee
  <2>3. ASSUME NEW o, NEW name, NEW t, CreateBeneficiary(o, name, t[2])
        PROVE  UNCHANGED vars
    BY <2>3 DEF CreateBeneficiary
  <2>4. ASSUME NEW o, NEW name, UpdateProfile(o, name)
        PROVE  UNCHANGED vars
    BY <2>4 DEF UpdateProfile
  <2>5. UNCHANGED allVars => UNCHANGED vars
    BY DEF allVars
  <2> QED BY <2>1, <2>2, <2>3, <2>4, <2>5 DEF PayeesNext
<1> QED BY <1>1, <1>2, PTL DEF PayeesSpec, Spec
=============================================================================
