--------------------------- MODULE Reconciliation ---------------------------
(***************************************************************************)
(* GET /accounts/{id}/reconcile beside the running ledger.  The handler     *)
(* authorizes the caller, then ReconcileAccount reads the cached balance    *)
(* and, in a second statement with a snapshot of its own, sums the entries: *)
(* no transaction spans the two reads, so postings may commit in between.   *)
(***************************************************************************)
EXTENDS Ledger

VARIABLE check     \* the one reconciliation under way

reconciliationVars == <<accounts, entries, lastTx, adminAudit, check>>

Phases == {"idle", "read", "MATCHED", "MISMATCH"}

\* "seen" is the number of ledger transactions committed when the cached
\* balance was read; it is a history variable, the code has no such value.
Idle == [phase |-> "idle", account |-> Settlement, stored |-> 0, seen |-> 0]

\* The ownership check of the handler, then the first read.
ReadStoredBalance(customer, a) ==
  /\ check.phase = "idle"
  /\ Exists(a) /\ CustomerCanOperate(customer, a)
  /\ check' = [phase |-> "read", account |-> a,
               stored |-> accounts[a].balance, seen |-> lastTx]
  /\ UNCHANGED ledgerVars

\* The second read and the comparison; a mismatch is answered with a 500.
CompareWithEntries ==
  /\ check.phase = "read"
  /\ check' = [check EXCEPT !.phase =
       IF CalculatedBalance(check.account) = check.stored
       THEN "MATCHED" ELSE "MISMATCH"]
  /\ UNCHANGED ledgerVars

\* The answer is sent and the next request may come.
Answer ==
  /\ check.phase \in {"MATCHED", "MISMATCH"}
  /\ check' = Idle
  /\ UNCHANGED ledgerVars

ReconciliationInit == LedgerInit /\ check = Idle

ReconciliationNext ==
  \/ LedgerNext /\ UNCHANGED check
  \/ \E customer \in Customers, a \in Accounts : ReadStoredBalance(customer, a)
  \/ CompareWithEntries
  \/ Answer

ReconciliationSpec == ReconciliationInit /\ [][ReconciliationNext]_reconciliationVars

-----------------------------------------------------------------------------
(* Properties *)

\* The verdict a step is about to give.
Verdict == check.phase = "read" /\ check'.phase \in {"MATCHED", "MISMATCH"}

\* The entries posted to the account between the two reads.
PostedBetween == {e \in EntriesOf(check.account) : e.tx > check.seen}

\* What the verdict says for certain: MISMATCH exactly when the entries that
\* were posted between the two reads do not cancel out.  So the answer is right
\* about every account that is quiet, and never hides an older difference.
VerdictExplainedByRace ==
  [][Verdict =>
       (check'.phase = "MISMATCH"
          <=> MapThenSumSet(LAMBDA e : e.credit - e.debit, PostedBetween) # 0)
    ]_reconciliationVars

\* The comment of ReconcileAccount: "Mismatch means denormalized cache drifted
\* from ledger truth."  An account that is reported has a cached balance that
\* is not the sum of its entries.
MismatchMeansDrift ==
  check.phase = "MISMATCH" =>
    accounts[check.account].balance # CalculatedBalance(check.account)
=============================================================================
