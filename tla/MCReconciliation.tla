-------------------------- MODULE MCReconciliation --------------------------
(***************************************************************************)
(* The ledger on a small instance, with one reconciliation at a time: the  *)
(* settlement account, two customer account slots, two customers.          *)
(***************************************************************************)
EXTENDS Reconciliation, TLC

CONSTANTS settlement, a1, a2, u1, u2, nobody, noOrder

MCAccounts == {settlement, a1, a2}
MCCustomers == {u1, u2}

\* The slots and the customers are interchangeable: no definition orders them.
Symmetry == Permutations({a1, a2}) \union Permutations(MCCustomers)
=============================================================================
