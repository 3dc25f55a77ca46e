---------------------------- MODULE BookingCall ----------------------------
(***************************************************************************)
(* One call of ConfirmPayment (for an order that is due) or of              *)
(* processClaimedPayment, statement by statement, inside the retry loop of  *)
(* Store.ExecTxWithHandle, while rival transactions commit.  PostgreSQL is  *)
(* external: a SERIALIZABLE transaction that wants a row which somebody     *)
(* changed after its snapshot gets SQLSTATE 40001, and so may any COMMIT of *)
(* a transaction that overlapped a rival; after an error every further      *)
(* statement of the transaction fails with 25P02, which is not retried.     *)
(***************************************************************************)
EXTENDS Naturals, PaymentLifecycle

CONSTANTS
  MaxAttempts      \* attempts of the retry loop (10)

ASSUME BookingCallAssumption == MaxAttempts \in Nat \ {0}

VARIABLES
  caller,          \* "confirm" or "worker"
  order,           \* committed: the status of the order
  payable,         \* committed: what PlanCustomerTransfer would say
  posted,          \* committed: ledger transactions for the order
  step,            \* where the call is
  attempt,         \* the attempt under way
  touched,         \* rows rivals changed since the attempt's snapshot
  inTx,            \* the outcome this attempt has written, not committed
  businessErr,     \* the variable of that name: declared outside the closure
  answer,          \* what the call returned
  effect           \* history: the outcome this call committed

databaseVars == <<order, payable, posted>>
callVars == <<step, attempt, inTx, businessErr, answer, effect>>
bookingVars == <<caller, databaseVars, callVars, touched>>

Outcomes == {"BOOKED", "FAILED"}

\* The status the caller insists on when it has locked the order.
Expected == IF caller = "confirm" THEN "AWAITING_CONFIRMATION" ELSE "PROCESSING"

\* REJECTED is the business error of a booking that was refused; NOT_FOUND and
\* INVALID_STATE are the errors of that name; ABORTED is 25P02; UNKNOWN a
\* connection lost at COMMIT; EXHAUSTED and CANCELLED end the retry loop.
Answers == {"none", "OK", "REJECTED", "NOT_FOUND", "INVALID_STATE", "ABORTED",
            "UNKNOWN", "EXHAUSTED", "CANCELLED"}

-----------------------------------------------------------------------------
(* Ends of an attempt *)

\* Rollback, and an error the retry loop does not recognise.
ReturnError(error) ==
  /\ step' = "answered"
  /\ answer' = error
  /\ inTx' = "none"
  /\ UNCHANGED <<databaseVars, attempt, businessErr, effect>>

\* Rollback after a 40001 the retry loop does see.
Conflict ==
  /\ step' = "conflict"
  /\ inTx' = "none"
  /\ UNCHANGED <<databaseVars, attempt, businessErr, answer, effect>>

-----------------------------------------------------------------------------
(* The call *)

\* BEGIN; the first statement takes the snapshot.
Begin ==
  /\ step = "begin"
  /\ step' = "started"
  /\ touched' = {}
  /\ UNCHANGED <<caller, databaseVars, attempt, inTx, businessErr, answer, effect>>

\* GetPaymentOrderForUpdate gets 40001.  ConfirmPayment tests the owner of the
\* empty row before it looks at the error.
LockOrderConflict ==
  /\ step = "started" /\ "order" \in touched
  /\ IF caller = "confirm" THEN ReturnError("NOT_FOUND") ELSE Conflict
  /\ UNCHANGED <<caller, touched>>

\* Mutant: the state of the locked order is not checked.
LockOrderInAnyState ==
  /\ step = "started" /\ "order" \notin touched
  /\ step' = "locked"
  /\ UNCHANGED <<caller, touched, databaseVars, attempt, inTx, businessErr,
                 answer, effect>>

\* It gets the row: the state is checked under the row lock.
LockOrder ==
  /\ step = "started" /\ "order" \notin touched
  /\ IF order = Expected
     THEN /\ step' = "locked"
          /\ UNCHANGED <<databaseVars, attempt, inTx, businessErr, answer, effect>>
     ELSE ReturnError("INVALID_STATE")
  /\ UNCHANGED <<caller, touched>>

\* bookPaymentTx gets 40001 from ListAccountsForUpdate; the caller takes it
\* for a rejection and runs markFailed in the aborted transaction.
LockAccountsConflict ==
  /\ step = "locked" /\ "accounts" \in touched
  /\ ReturnError("ABORTED")
  /\ UNCHANGED <<caller, touched>>

\* The posting, the order's outcome, its events and its audit row.
BookOrReject ==
  /\ step = "locked" /\ "accounts" \notin touched
  /\ step' = "executed"
  /\ inTx' = IF payable THEN "BOOKED" ELSE "FAILED"
  /\ businessErr' = IF payable THEN businessErr ELSE "REJECTED"
  /\ UNCHANGED <<caller, databaseVars, attempt, answer, effect, touched>>

\* What the committed transaction leaves in the database.
Effect ==
  /\ order' = inTx
  /\ posted' = IF inTx = "BOOKED" THEN posted + 1 ELSE posted
  /\ effect' = inTx
  /\ UNCHANGED payable

Commit ==
  /\ step = "executed"
  /\ Effect
  /\ step' = "answered"
  /\ answer' = IF businessErr = "nil" THEN "OK" ELSE businessErr
  /\ UNCHANGED <<caller, attempt, inTx, businessErr, touched>>

\* Mutant: the error of COMMIT is dropped.
CommitErrorDropped ==
  /\ step = "executed" /\ touched # {}
  /\ step' = "answered"
  /\ answer' = IF businessErr = "nil" THEN "OK" ELSE businessErr
  /\ UNCHANGED <<caller, touched, databaseVars, attempt, inTx, businessErr, effect>>

CommitConflict ==
  /\ step = "executed" /\ touched # {}
  /\ Conflict
  /\ UNCHANGED <<caller, touched>>

\* The connection is lost: the server committed, or it did not.
CommitUnknown ==
  /\ step = "executed"
  /\ step' = "answered"
  /\ answer' = "UNKNOWN"
  /\ Effect \/ UNCHANGED <<databaseVars, effect>>
  /\ UNCHANGED <<caller, attempt, inTx, businessErr, touched>>

\* Mutant: attempts are not counted.
RetryForEver ==
  /\ step = "conflict"
  /\ step' = "begin"
  /\ UNCHANGED <<caller, databaseVars, attempt, inTx, businessErr, answer, effect, touched>>

\* Back off and try again.
Retry ==
  /\ step = "conflict" /\ attempt < MaxAttempts
  /\ step' = "begin"
  /\ attempt' = attempt + 1
  /\ UNCHANGED <<caller, databaseVars, inTx, businessErr, answer, effect, touched>>

\* The last attempt is over, or the caller's context ends during the backoff.
GiveUp ==
  /\ step = "conflict"
  /\ ReturnError(IF attempt = MaxAttempts THEN "EXHAUSTED" ELSE "CANCELLED")
  /\ UNCHANGED <<caller, touched>>

-----------------------------------------------------------------------------
(* Rivals: other transactions that commit while the call runs.  There may be
   any number of them. *)

Rival(rows) ==
  /\ step # "answered"
  /\ touched' = touched \union rows
  /\ UNCHANGED <<caller, callVars>>

\* A second session, a worker or the stale recovery moves the order; the row
\* is not locked by the call.
RivalMovesOrder ==
  /\ Rival({"order"})
  /\ step \notin {"locked", "executed"}
  /\ \/ order = "AWAITING_CONFIRMATION" /\ order' \in {"BOOKED", "FAILED", "CANCELLED"}
     \/ order = "PROCESSING" /\ order' \in {"BOOKED", "FAILED", "SCHEDULED"}
     \/ order = "SCHEDULED" /\ order' \in {"PROCESSING", "CANCELLED"}
  /\ posted' = IF order' = "BOOKED" THEN posted + 1 ELSE posted
  /\ UNCHANGED payable

\* A posting to one of the two accounts, the settlement account included, or
\* a block; the rows are not locked by the call.
RivalUsesAccounts ==
  /\ Rival({"accounts"})
  /\ step # "executed"
  /\ payable' \in BOOLEAN
  /\ UNCHANGED <<order, posted>>

\* A transaction that only overlaps: it reads or writes neighbouring rows.
RivalOverlaps == Rival({"neighbours"}) /\ UNCHANGED databaseVars

-----------------------------------------------------------------------------

BookingInit ==
  /\ caller \in {"confirm", "worker"}
  /\ order = Expected
  /\ payable \in BOOLEAN
  /\ posted = 0
  /\ step = "begin"
  /\ attempt = 1
  /\ touched = {}
  /\ inTx = "none"
  /\ businessErr = "nil"
  /\ answer = "none"
  /\ effect = "none"

CallStep ==
  \/ Begin
  \/ LockOrderConflict \/ LockOrder
  \/ LockAccountsConflict \/ BookOrReject
  \/ Commit \/ CommitConflict \/ CommitUnknown
  \/ Retry \/ GiveUp

RivalStep == RivalMovesOrder \/ RivalUsesAccounts \/ RivalOverlaps

BookingNext == CallStep \/ RivalStep

\* The goroutine runs; nothing is assumed of the rivals.
BookingSpec == BookingInit /\ [][BookingNext]_bookingVars /\ WF_bookingVars(CallStep)

-----------------------------------------------------------------------------
(* Properties *)

\* Type correctness.
BookingTypeOK ==
  /\ caller \in {"confirm", "worker"}
  /\ order \in PaymentStatus
  /\ payable \in BOOLEAN
  /\ posted \in Nat
  /\ step \in {"begin", "started", "locked", "executed", "conflict", "answered"}
  /\ attempt \in 1..MaxAttempts
  /\ touched \subseteq {"order", "accounts", "neighbours"}
  /\ inTx \in Outcomes \union {"none"}
  /\ businessErr \in {"nil", "REJECTED"}
  /\ answer \in Answers
  /\ effect \in Outcomes \union {"none"}

\* However often the closure runs and whoever else settles the order, the
\* ledger has one transaction for it if it is BOOKED and none otherwise.
RetriesPostOnce == posted = IF order = "BOOKED" THEN 1 ELSE 0

\* The answer never hides a commit or claims one that did not happen: OK means
\* this call booked the order, REJECTED that this call settled it, and every
\* other error but a lost COMMIT that this call changed nothing.
AnswerTellsCommit ==
  step = "answered" =>
    /\ answer = "OK" => effect = "BOOKED"
    /\ answer = "REJECTED" => effect \in Outcomes
    /\ answer \notin {"OK", "REJECTED", "UNKNOWN"} => effect = "none"

\* Every call returns: the retry loop ends, however many rivals interfere.
CallReturns == <>(step = "answered")

\* The comment of ConfirmPayment: "Any booking failure leaves no partial
\* ledger entry."  A call that reports a booking failure has booked nothing.
RejectionMeansNotBooked == answer = "REJECTED" => effect # "BOOKED"

=============================================================================
