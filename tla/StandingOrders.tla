--------------------------- MODULE StandingOrders ---------------------------
(***************************************************************************)
(* Standing orders: what the customer agrees to, edits, pauses and cancels, *)
(* and the occurrences the worker creates from them as payment orders.  An  *)
(* occurrence is followed up to its creation here and from there on in      *)
(* Payments.  Every action is one transaction or one UPDATE statement.      *)
(*                                                                          *)
(* Left out: accounts (CreateStandingOrder checks them, foreign keys keep   *)
(* them), amounts, purposes and payees, which are copied to the occurrence. *)
(***************************************************************************)
EXTENDS Calendar, Sequences

CONSTANTS
  StandingOrderIds, \* rows that may be created
  Customers,        \* user ids
  NoOwner,          \* the row does not exist yet
  Days,             \* the dates customers use and the clock shows
  Never,            \* end_date IS NULL
  Unlimited,        \* max_occurrences IS NULL
  Limits,           \* occurrence limits customers ask for
  FirstDay,         \* the day the model starts on
  BatchSize,        \* standing orders claimed per cycle
  MaxOccurrences,   \* bound: occurrences of one order
  MaxEdits,         \* bound: updates of one order
  MaxOwnKeys        \* bound: dates of one order the owner's own payments name

ASSUME StandingOrdersAssumption ==
  /\ NoOwner \notin Customers
  /\ Days \subseteq [month : Nat, day : 1..31]
  /\ FirstDay \in Days /\ \A d \in Days : ValidDate(d)
  /\ Never \notin Days
  /\ Limits \subseteq Nat \ {0} /\ Unlimited \notin Nat
  /\ BatchSize \in Nat \ {0}
  /\ MaxOccurrences \in Nat /\ MaxEdits \in Nat /\ MaxOwnKeys \in Nat

VARIABLES
  standing,        \* the standing_orders table
  occurrences,     \* payment_orders with a standing_order_id, by order
  ownKeys,         \* dates of an order whose key a payment of the owner's has
  audited,         \* orders whose STANDING_ORDER_CREATED row was written
  today            \* the clock

standingVars == <<standing, occurrences, ownKeys, audited, today>>

StandingStatus == {"NONE", "ACTIVE", "PAUSED", "CANCELLED", "COMPLETED"}

\* cancelled and edits are history variables: the customer has cancelled the
\* order at some time, and how often it was updated.
StandingOrder ==
  [status: StandingStatus, owner: Customers \union {NoOwner},
   frequency: Frequency, start: Days, end: Days \union {Never},
   limit: Limits \union {Unlimited}, created: 0..MaxOccurrences,
   next: [month: Nat, day: 1..31], cancelled: BOOLEAN, edits: 0..MaxEdits]

NoStandingOrder ==
  [status |-> "NONE", owner |-> NoOwner, frequency |-> "WEEKLY",
   start |-> FirstDay, end |-> Never, limit |-> Unlimited, created |-> 0,
   next |-> FirstDay, cancelled |-> FALSE, edits |-> 0]

-----------------------------------------------------------------------------
(* Customer operations *)

\* start_date may be as old as a day; the row is committed before its audit row
\* is written, which may fail and turn the answer into an error.
CreateStandingOrder(customer, s, f, first, last, limit) ==
  /\ standing[s].status = "NONE"
  /\ ~After(today, AddDays(first, 1))
  /\ last # Never => ~After(first, last)
  /\ standing' = [standing EXCEPT ![s] =
       [NoStandingOrder EXCEPT !.status = "ACTIVE", !.owner = customer,
          !.frequency = f, !.start = first, !.end = last, !.limit = limit,
          !.next = first]]
  /\ audited' \in {audited, audited \union {s}}
  /\ UNCHANGED <<occurrences, ownKeys, today>>

\* The whole row is overwritten with what the client sends, which it may have
\* read long ago; the present status is not looked at.
UpdateStandingOrder(customer, s, status, last, limit) ==
  /\ standing[s].owner = customer
  /\ standing[s].edits < MaxEdits
  /\ status \in {"ACTIVE", "PAUSED"}
  /\ last # Never => ~After(standing[s].start, last)
  /\ standing' = [standing EXCEPT ![s].status = status, ![s].end = last,
                                  ![s].limit = limit, ![s].edits = @ + 1]
  /\ UNCHANGED <<occurrences, ownKeys, audited, today>>

CancelStandingOrder(customer, s) ==
  /\ standing[s].owner = customer
  /\ standing[s].status \in {"ACTIVE", "PAUSED"}
  /\ standing' = [standing EXCEPT ![s].status = "CANCELLED", ![s].cancelled = TRUE]
  /\ UNCHANGED <<occurrences, ownKeys, audited, today>>

\* Any text of 8 to 128 bytes may be the Idempotency-Key of a payment, also
\* "standing:<id>:<time>"; the keys of an owner's payments are one name space.
\* Only the next date matters: a key is looked at when its date has come.
UseKey(customer, s) ==
  /\ standing[s].owner = customer
  /\ Cardinality(ownKeys[s]) < MaxOwnKeys
  /\ standing[s].next \notin ownKeys[s]
  /\ ownKeys' = [ownKeys EXCEPT ![s] = @ \union {standing[s].next}]
  /\ UNCHANGED <<standing, occurrences, audited, today>>

-----------------------------------------------------------------------------
(* The worker *)

Due(s) == standing[s].status = "ACTIVE" /\ ~After(standing[s].next, today)

\* Mutant: the occurrence being created is not counted.
CompleteOneTooLate(p, next) ==
  \/ p.limit # Unlimited /\ p.created >= p.limit
  \/ p.end # Never /\ After(next, p.end)

shouldCompleteStanding(p, next) ==
  \/ p.limit # Unlimited /\ p.created + 1 >= p.limit
  \/ p.end # Never /\ After(next, p.end)

\* Mutant: the next date is computed from the day the worker runs.
AdvanceFromToday(p) ==
  LET next == nextStandingExecution(today, p.frequency) IN
  [p EXCEPT !.created = @ + 1, !.next = next,
            !.status = IF shouldCompleteStanding(p, next) THEN "COMPLETED"
                       ELSE "ACTIVE"]

\* Mutant: the next date is not stored, and the occurrence's key is taken.
AdvanceWithoutDate(p) ==
  LET next == nextStandingExecution(p.next, p.frequency) IN
  [p EXCEPT !.created = @ + 1,
            !.status = IF shouldCompleteStanding(p, next) THEN "COMPLETED"
                       ELSE "ACTIVE"]

AdvanceStandingOrder(p) ==
  LET next == nextStandingExecution(p.next, p.frequency) IN
  [p EXCEPT !.created = @ + 1, !.next = next,
            !.status = IF shouldCompleteStanding(p, next) THEN "COMPLETED"
                       ELSE "ACTIVE"]

\* The occurrence is a payment order whose key names the order and the date;
\* a second one with that key violates UNIQUE (owner_id, idempotency_key).
CreateOccurrence(s) == Append(occurrences[s], standing[s].next)

KeyIsFree(s) ==
  /\ \A i \in DOMAIN occurrences[s] : occurrences[s][i] # standing[s].next
  /\ standing[s].next \notin ownKeys[s]

\* A batch with an order whose key its owner has used fails, in every cycle.
Jammed == \E s \in StandingOrderIds : Due(s) /\ standing[s].next \in ownKeys[s]

\* One transaction of a cycle of either scheduler: a batch of due orders that
\* nobody else has locked, each with one occurrence, all or none of them.
MaterializeStandingOrders(batch) ==
  /\ batch # {}
  /\ Cardinality(batch) <= BatchSize
  /\ \A s \in batch : Due(s) /\ KeyIsFree(s) /\ standing[s].created < MaxOccurrences
  /\ standing' = [s \in StandingOrderIds |->
       IF s \in batch THEN AdvanceStandingOrder(standing[s]) ELSE standing[s]]
  /\ occurrences' = [s \in StandingOrderIds |->
       IF s \in batch THEN CreateOccurrence(s) ELSE occurrences[s]]
  /\ UNCHANGED <<ownKeys, audited, today>>

-----------------------------------------------------------------------------

\* The schedulers may be down for any length of time.
TimePasses ==
  /\ today' \in {d \in Days : After(d, today)}
  /\ UNCHANGED <<standing, occurrences, ownKeys, audited>>

StandingInit ==
  /\ standing = [s \in StandingOrderIds |-> NoStandingOrder]
  /\ occurrences = [s \in StandingOrderIds |-> << >>]
  /\ ownKeys = [s \in StandingOrderIds |-> {}]
  /\ audited = {}
  /\ today = FirstDay

CustomerStep(customer, s) ==
  \/ \E f \in Frequency, first \in Days, last \in Days \union {Never},
        limit \in Limits \union {Unlimited} :
       CreateStandingOrder(customer, s, f, first, last, limit)
  \/ \E status \in {"ACTIVE", "PAUSED"}, last \in Days \union {Never},
        limit \in Limits \union {Unlimited} :
       UpdateStandingOrder(customer, s, status, last, limit)
  \/ CancelStandingOrder(customer, s)
  \/ UseKey(customer, s)

StandingNext ==
  \/ \E customer \in Customers, s \in StandingOrderIds : CustomerStep(customer, s)
  \/ \E batch \in SUBSET StandingOrderIds : MaterializeStandingOrders(batch)
  \/ TimePasses

StandingSpec == StandingInit /\ [][StandingNext]_standingVars

\* Both schedulers start a cycle on every tick; claims take the longest due
\* orders first, and an order is skipped only while somebody else's
\* transaction has it locked, or the batch fails for one of its orders.
FairStandingSpec ==
  /\ StandingSpec
  /\ \A s \in StandingOrderIds :
       WF_standingVars(/\ ~Jammed
                       /\ \E batch \in SUBSET StandingOrderIds :
                            s \in batch /\ MaterializeStandingOrders(batch))

-----------------------------------------------------------------------------
(* Properties *)

\* Type correctness of the standing orders and their occurrences.
StandingTypeOK ==
  /\ standing \in [StandingOrderIds -> StandingOrder]
  /\ occurrences \in [StandingOrderIds -> Seq([month: Nat, day: 1..31])]
  /\ ownKeys \in [StandingOrderIds -> SUBSET [month: Nat, day: 1..31]]
  /\ audited \subseteq StandingOrderIds
  /\ today \in Days

\* The dates the agreed start and frequency give, one after the other.
Execution(p, n) ==
  LET date[i \in 0..n] ==
        IF i = 0 THEN p.start ELSE nextStandingExecution(date[i - 1], p.frequency)
  IN date[n]

\* An order's occurrences are the first dates of its schedule, each once, none
\* left out and none before its day, however often it is paused, resumed,
\* edited or cancelled and however long the workers were down.
OccurrencesFollowSchedule ==
  \A s \in StandingOrderIds :
    LET p == standing[s] IN
    /\ Len(occurrences[s]) = p.created
    /\ \A i \in 1..p.created :
         /\ occurrences[s][i] = Execution(p, i - 1)
         /\ ~After(occurrences[s][i], today)
    /\ p.next = Execution(p, p.created)

\* Months between two executions of an order that counts months.
Stride(p) == CASE p.frequency = "MONTHLY" -> 1 [] p.frequency = "QUARTERLY" -> 3
               [] OTHER -> 12

\* Days from the start of the month an order began in, counted month by month.
DaysSinceStart(p) ==
  p.next.day + MapThenSumSet(MonthLength, p.start.month..p.next.month - 1)

\* A monthly, quarterly or yearly order is due in every month it should be and
\* in no other, whatever the lengths of the months between; a weekly order
\* keeps its weekday: its dates are 7 days apart across months and years.
NoPeriodSkipped ==
  \A s \in StandingOrderIds :
    LET p == standing[s] IN
    IF p.frequency = "WEEKLY"
    THEN DaysSinceStart(p) = p.start.day + 7 * p.created
    ELSE p.next.month = p.start.month + Stride(p) * p.created

\* Every date is on an existing day: the start day or the last day of the
\* shortest month the order has come through.  It never moves to a later day
\* again: an order of the 31st stays on the 28th after February.
DayIsShortestMonthSoFar ==
  \A s \in StandingOrderIds :
    LET p == standing[s] IN
    p.frequency # "WEEKLY" =>
      p.next.day = Min({p.start.day} \union
                       {MonthLength(p.start.month + Stride(p) * i) : i \in 0..p.created})

\* An order nobody edited keeps its limits to the day: it stays open as long as
\* a further occurrence is allowed and is completed with the last one, so that
\* neither one too many nor one too few is ever paid.
LimitsKept ==
  \A s \in StandingOrderIds :
    LET p == standing[s]
        exhausted == \/ p.limit # Unlimited /\ p.created = p.limit
                     \/ p.end # Never /\ After(p.next, p.end)
    IN p.edits = 0 /\ p.status # "NONE" =>
         /\ p.limit # Unlimited => p.created <= p.limit
         /\ \A i \in DOMAIN occurrences[s] :
              p.end # Never => ~After(occurrences[s][i], p.end)
         /\ p.status = "COMPLETED" <=> exhausted

\* CancelStandingOrder's comment: a cancelled standing order is prevented from
\* creating new occurrences.
CancelPreventsOccurrences ==
  [][\A s \in StandingOrderIds :
       standing[s].cancelled => occurrences'[s] = occurrences[s]]_standingVars

\* Every due occurrence is created in the end, or its customer pauses or
\* cancels the order: workers do not lose an order after a long absence.  Only
\* a due order whose next key a payment of its owner's has stops this, and it
\* stops every other order too, for as long as it stays active.
DueOccurrencesHappen ==
  \/ []<>Jammed
  \/ \A s \in StandingOrderIds, n \in 0..MaxOccurrences - 1 :
       (Due(s) /\ standing[s].created = n)
         ~> (standing[s].created > n \/ standing[s].status # "ACTIVE")
=============================================================================
