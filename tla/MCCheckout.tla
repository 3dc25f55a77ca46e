----------------------------- MODULE MCCheckout -----------------------------
(***************************************************************************)
(* Checkout on a small instance.                                            *)
(***************************************************************************)
EXTENDS Checkout, TLC

\* Customers, order ids and calls are alike.
Symmetry ==
  Permutations(Customers) \union Permutations(OrderIds) \union Permutations(Calls)

\* Bound: only payloads without a schedule are asked for as instant transfers,
\* and merchants bank elsewhere.  Approvals all ask for standard transfers, so
\* whether their orders are internal tells no two requests apart.
KindsThatMatter ==
  /\ \A c \in Calls : call[c].transfer = "INSTANT" => call[c].payload \notin Scheduled
  /\ \A n \in Rows : orders[n].key \in Intents => orders[n].kind # "INTERNAL"
=============================================================================
