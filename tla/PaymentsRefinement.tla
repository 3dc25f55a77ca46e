------------------------- MODULE PaymentsRefinement -------------------------
(***************************************************************************)
(* The payment tables and the ledger implement PaymentPromise: claims,      *)
(* recoveries, crashes, clock ticks and all other use of the ledger are     *)
(* stuttering steps of the promise.                                         *)
(***************************************************************************)
EXTENDS Payments

Outcome(status) ==
  CASE status = "NONE" -> "none"
    [] status = "BOOKED" -> "paid"
    [] status = "FAILED" -> "rejected"
    [] status = "CANCELLED" -> "withdrawn"
    [] OTHER -> "open"

NoDeal == [from |-> NoAccount, to |-> NoAccount, amount |-> 0]

\* What the customer was shown and the tables keep.
Deal(p) ==
  IF p.status = "NONE" THEN NoDeal
  ELSE [from |-> p.source, to |-> Destination(p), amount |-> p.amount]

\* The movements the entries record: a debit leg names the payer, the credit
\* leg of the same ledger transaction the payee.
PaidMoves ==
  {[id |-> leg[1].tx, order |-> leg[1].order, from |-> leg[1].account,
    to |-> leg[2].account, amount |-> leg[1].debit] :
     leg \in {pair \in entries \X entries :
                /\ pair[1].tx = pair[2].tx
                /\ pair[1].order # NoOrder
                /\ pair[1].debit > 0 /\ pair[2].credit > 0}}

Promise == INSTANCE PaymentPromise WITH
  Parties <- Accounts,
  MaxMoves <- MaxTx,
  NoAgreement <- NoDeal,
  agreed <- [o \in Orders |-> Deal(orders[o])],
  outcome <- [o \in Orders |-> Outcome(orders[o].status)],
  moves <- PaidMoves

\* Every behaviour of the payment system is one the promise allows: agreements
\* are kept as they were made, outcomes are final, and the ledger records for
\* an order nothing but the one movement agreed on, made when it becomes paid.
ImplementsPromise == Promise!PromiseSpec
=============================================================================
