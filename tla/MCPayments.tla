----------------------------- MODULE MCPayments -----------------------------
(***************************************************************************)
(* Payments on a small instance: the settlement account, two customer       *)
(* account slots, two customers, one order and two workers.                 *)
(***************************************************************************)
EXTENDS PaymentsRefinement

CONSTANTS settlement, a1, a2, u1, u2, nobody, noOrder, noAccount, p1, w1, w2

MCAccounts == {settlement, a1, a2}

\* Slots and customers are interchangeable and never used a second time, so
\* every behaviour is, but for their names, one that begins with u1 and a1.
FirstComeFirstNamed ==
  /\ accounts[a2].status # "ABSENT" => accounts[a1].status # "ABSENT"
  /\ \A a \in MCAccounts : accounts[a].owner = u2 => \E b \in MCAccounts : accounts[b].owner = u1
=============================================================================
