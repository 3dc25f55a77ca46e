--------------------------- MODULE PaymentPromise ---------------------------
(***************************************************************************)
(* What the bank promises about a payment order, with no worker, claim,     *)
(* ledger or clock in it: the agreement is fixed when the order is opened,  *)
(* the order has at most one outcome, and money moves once, as agreed, in   *)
(* the very step that makes the outcome "paid".                             *)
(***************************************************************************)
EXTENDS Naturals

CONSTANTS
  Orders,
  Parties,         \* the accounts money moves between
  Amounts,
  NoAgreement,     \* what an order has before it is opened
  MaxMoves         \* bound on the numbers that identify moves

VARIABLES
  agreed,          \* the agreement of each order that was opened
  outcome,         \* none, open, paid, rejected or withdrawn
  moves            \* the movements of money made for orders

promiseVars == <<agreed, outcome, moves>>

Agreement == [from : Parties, to : Parties, amount : Amounts]

Open(o, agreement) ==
  /\ outcome[o] = "none"
  /\ outcome' = [outcome EXCEPT ![o] = "open"]
  /\ agreed' = [agreed EXCEPT ![o] = agreement]
  /\ UNCHANGED moves

\* "id" is fresh: it tells two movements for one order apart.
Pay(o, id) ==
  /\ outcome[o] = "open"
  /\ \A m \in moves : m.id # id
  /\ outcome' = [outcome EXCEPT ![o] = "paid"]
  /\ moves' = moves \union
       {[id |-> id, order |-> o, from |-> agreed[o].from, to |-> agreed[o].to,
         amount |-> agreed[o].amount]}
  /\ UNCHANGED agreed

Close(o, result) ==
  /\ outcome[o] = "open"
  /\ outcome' = [outcome EXCEPT ![o] = result]
  /\ UNCHANGED <<agreed, moves>>

PromiseInit ==
  /\ agreed = [o \in Orders |-> NoAgreement]
  /\ outcome = [o \in Orders |-> "none"]
  /\ moves = {}

PromiseNext ==
  \E o \in Orders :
    \/ \E agreement \in Agreement : Open(o, agreement)
    \/ \E id \in 1..MaxMoves : Pay(o, id)
    \/ \E result \in {"rejected", "withdrawn"} : Close(o, result)

PromiseSpec == PromiseInit /\ [][PromiseNext]_promiseVars
=============================================================================
