------------------------- MODULE StandingOrdersProofs -------------------------
(***************************************************************************)
(* Standing orders for every calendar, customer, limit and number of edits: *)
(* the limits are kept, the dates of an order go up, and so the key of an   *)
(* occurrence is never taken.                                               *)
(***************************************************************************)
EXTENDS StandingOrders, FoldTheorems

\* A date as far as the calendar computes with it.
Date == [month : Nat, day : 1..31]

\* The row is not full yet.
Open(p) ==
  /\ p.limit # Unlimited => p.created < p.limit
  /\ p.end # Never => ~After(p.next, p.end)

\* LimitsKept of one order with the dates d.
LimitSound(p, d) ==
  p.edits = 0 /\ p.status # "NONE" =>
    /\ p.limit # Unlimited => p.created <= p.limit
    /\ \A i \in 1..Len(d) : p.end # Never => ~After(d[i], p.end)
    /\ p.status # "COMPLETED" => Open(p)
    /\ p.status = "COMPLETED" => ~Open(p)

\* The dates of one order go up, and the next one is later than all of them.
DatesRise(p, d) ==
  /\ \A i, j \in 1..Len(d) : i < j => After(d[j], d[i])
  /\ \A i \in 1..Len(d) : After(p.next, d[i])

\* An order, taken by itself.
OrderSound(p, d) ==
  /\ ValidDate(p.next)
  /\ p.status = "NONE" <=> p.owner = NoOwner
  /\ p.status = "NONE" => d = << >>
  /\ LimitSound(p, d)
  /\ DatesRise(p, d)

\* The inductive invariant.
StandingInv ==
  /\ standing \in [StandingOrderIds -> StandingOrder]
  /\ occurrences \in [StandingOrderIds -> Seq(Date)]
  /\ ownKeys \in [StandingOrderIds -> SUBSET Date]
  /\ audited \subseteq StandingOrderIds
  /\ today \in Days
  /\ \A s \in StandingOrderIds : OrderSound(standing[s], occurrences[s])

-----------------------------------------------------------------------------
(* The calendar *)

\* A month has 28 to 31 days.
LEMMA MonthLengths ==
  ASSUME NEW m \in Nat
  PROVE  MonthLength(m) \in 28..31
BY DEF MonthLength

\* A date is never after itself, and what is after a later date is after it.
LEMMA AfterIsOrder ==
  ASSUME NEW d \in Date, NEW e \in Date, NEW f \in Date
  PROVE  ~After(d, d) /\ (After(d, e) /\ After(e, f) => After(d, f))
BY DEF Date, After

\* A valid date is a date.
LEMMA ValidDateTyped ==
  ASSUME NEW d \in [month : Nat, day : Int], ValidDate(d)
  PROVE  d \in Date
BY MonthLengths DEF ValidDate, Date

\* The smaller of two numbers.
LEMMA MinOfTwo ==
  ASSUME NEW m \in Int, NEW n \in Int
  PROVE  Min({m, n}) = IF m <= n THEN m ELSE n
BY DEF Min

\* The days of a month and more are carried into the next one.
LEMMA AddDaysSound ==
  ASSUME NEW d \in Date, ValidDate(d), NEW n \in 1..28
  PROVE  LET e == AddDays(d, n)
         IN  e \in Date /\ ValidDate(e) /\ After(e, d)
<1>1. /\ d.month \in Nat /\ d.day \in 1..31 /\ d.month + 1 \in Nat
      /\ MonthLength(d.month) \in 28..31 /\ MonthLength(d.month + 1) \in 28..31
      /\ d.day <= MonthLength(d.month)
  BY MonthLengths DEF Date, ValidDate
<1>2. CASE d.day + n <= MonthLength(d.month)
  <2>1. AddDays(d, n) = [d EXCEPT !.day = d.day + n]
    BY <1>2 DEF AddDays
  <2>2. /\ AddDays(d, n) \in Date
        /\ AddDays(d, n).month = d.month /\ AddDays(d, n).day = d.day + n
    BY <1>1, <1>2, <2>1 DEF Date
  <2> QED BY <1>1, <1>2, <2>2 DEF ValidDate, After
<1>3. CASE ~(d.day + n <= MonthLength(d.month))
  <2>1. AddDays(d, n) = [month |-> d.month + 1, day |-> d.day + n - MonthLength(d.month)]
    BY <1>3 DEF AddDays
  <2>2. d.day + n - MonthLength(d.month) \in 1..28
    BY <1>1, <1>3
  <2> QED BY <1>1, <2>1, <2>2 DEF ValidDate, After, Date
<1> QED BY <1>2, <1>3

\* The day is clamped to the month that is counted to.
LEMMA AddMonthsSound ==
  ASSUME NEW d \in Date, ValidDate(d), NEW n \in 1..12
  PROVE  LET e == addMonthsClamped(d, n)
         IN  e \in Date /\ ValidDate(e) /\ After(e, d)
<1>1. /\ d.month \in Nat /\ d.day \in 1..31 /\ d.month + n \in Nat
      /\ MonthLength(d.month + n) \in 28..31
  BY MonthLengths DEF Date
<1>2. Min({d.day, MonthLength(d.month + n)}) \in 1..MonthLength(d.month + n)
  BY <1>1, MinOfTwo
<1>3. addMonthsClamped(d, n) =
        [month |-> d.month + n, day |-> Min({d.day, MonthLength(d.month + n)})]
  BY DEF addMonthsClamped
<1> QED BY <1>1, <1>2, <1>3 DEF ValidDate, After, Date

\* The next execution is on an existing day, and later (nextStandingExecution).
THEOREM NextExecutionIsLater ==
  ASSUME NEW d \in Date, ValidDate(d), NEW f \in Frequency
  PROVE  LET e == nextStandingExecution(d, f)
         IN  e \in Date /\ ValidDate(e) /\ After(e, d)
BY AddDaysSound, AddMonthsSound DEF nextStandingExecution, Frequency

-----------------------------------------------------------------------------
(* One order *)

\* A new row, written out.
NewOrder(u, f, first, last, limit) ==
  [status |-> "ACTIVE", owner |-> u, frequency |-> f, start |-> first,
   end |-> last, limit |-> limit, created |-> 0, next |-> first,
   cancelled |-> FALSE, edits |-> 0]

\* It is sound.
LEMMA NewOrderSound ==
  ASSUME StandingOrdersAssumption, NEW u \in Customers, NEW f \in Frequency,
         NEW first \in Days, NEW last \in Days \union {Never},
         NEW limit \in Limits \union {Unlimited},
         last # Never => ~After(first, last)
  PROVE  /\ NewOrder(u, f, first, last, limit) \in StandingOrder
         /\ OrderSound(NewOrder(u, f, first, last, limit), << >>)
<1> DEFINE p == NewOrder(u, f, first, last, limit)
<1>1. p \in StandingOrder
  <2>1. /\ 0 \in 0..MaxOccurrences /\ 0 \in 0..MaxEdits
        /\ first \in [month : Nat, day : 1..31]
    BY DEF StandingOrdersAssumption
  <2> QED BY <2>1 DEF StandingOrder, StandingStatus, NewOrder
<1>2. /\ p.limit = limit /\ p.created = 0 /\ p.status = "ACTIVE"
      /\ p.next = first /\ p.end = last /\ p.owner = u
  BY DEF NewOrder
<1>3. limit # Unlimited => 0 < limit /\ 0 <= limit
  BY DEF StandingOrdersAssumption
<1>4. ValidDate(first) /\ u # NoOwner
  BY DEF StandingOrdersAssumption
<1> HIDE DEF p
<1>5. LimitSound(p, << >>)
  BY <1>2, <1>3 DEF LimitSound, Open
<1>6. OrderSound(p, << >>)
  BY <1>2, <1>4, <1>5 DEF OrderSound, DatesRise
<1> QED BY <1>1, <1>6 DEF p

\* An edited or cancelled row.
LEMMA EditedOrderSound ==
  ASSUME NEW p \in StandingOrder, NEW d \in Seq(Date), OrderSound(p, d),
         NEW r \in StandingOrder, r.next = p.next, r.owner = p.owner,
         p.status # "NONE", r.status # "NONE",
         \/ r.edits # 0
         \/ /\ p.status # "COMPLETED" /\ r.status # "COMPLETED"
            /\ r.edits = p.edits /\ r.limit = p.limit /\ r.end = p.end
            /\ r.created = p.created
  PROVE  OrderSound(r, d)
BY DEF OrderSound, LimitSound, DatesRise, Open

\* AdvanceStandingOrder on a row that is due.
LEMMA AdvanceSound ==
  ASSUME StandingOrdersAssumption, NEW p \in StandingOrder, NEW d \in Seq(Date),
         OrderSound(p, d), p.status = "ACTIVE", p.created < MaxOccurrences
  PROVE  /\ AdvanceStandingOrder(p) \in StandingOrder
         /\ OrderSound(AdvanceStandingOrder(p), Append(d, p.next))
<1> DEFINE r == AdvanceStandingOrder(p)
           next == nextStandingExecution(p.next, p.frequency)
           dates == Append(d, p.next)
<1>1. p.next \in Date /\ ValidDate(p.next) /\ p.frequency \in Frequency
  BY DEF StandingOrder, Date, OrderSound
<1>2. next \in Date /\ ValidDate(next) /\ After(next, p.next)
  BY <1>1, NextExecutionIsLater
<1>3. /\ p.created \in Nat /\ p.created + 1 \in 0..MaxOccurrences
      /\ p.limit # Unlimited => p.limit \in Nat
  <2>1. p.created \in 0..MaxOccurrences /\ p.limit \in Limits \union {Unlimited}
    BY DEF StandingOrder
  <2>2. p.limit # Unlimited => p.limit \in Nat
    BY <2>1 DEF StandingOrdersAssumption
  <2>3. MaxOccurrences \in Nat
    BY DEF StandingOrdersAssumption
  <2> QED BY <2>1, <2>2, <2>3
<1>4. r = [p EXCEPT !.created = p.created + 1, !.next = next,
             !.status = IF shouldCompleteStanding(p, next) THEN "COMPLETED" ELSE "ACTIVE"]
  BY DEF AdvanceStandingOrder
<1> HIDE DEF r, next
<1>5. /\ r \in StandingOrder
      /\ r.created = p.created + 1 /\ r.next = next /\ r.owner = p.owner
      /\ r.edits = p.edits /\ r.limit = p.limit /\ r.end = p.end
      /\ r.status = IF shouldCompleteStanding(p, next) THEN "COMPLETED" ELSE "ACTIVE"
  BY <1>2, <1>3, <1>4 DEF StandingOrder, StandingStatus, Date
<1>6. /\ Len(dates) = Len(d) + 1 /\ dates[Len(d) + 1] = p.next
      /\ \A i \in 1..Len(d) : dates[i] = d[i] /\ dates[i] \in Date
      /\ Len(d) \in Nat
  BY <1>1
<1> HIDE DEF dates
<1>7. DatesRise(r, dates)
  <2>1. \A i \in 1..Len(d) : After(p.next, d[i])
    BY DEF OrderSound, DatesRise
  <2>2. \A i \in 1..Len(d) + 1 : After(next, dates[i])
    BY <1>1, <1>2, <1>6, <2>1, AfterIsOrder
  <2>3. \A i, j \in 1..Len(d) + 1 : i < j => After(dates[j], dates[i])
    <3> TAKE i, j \in 1..Len(d) + 1
    <3> HAVE i < j
    <3>1. CASE j = Len(d) + 1
      BY <1>6, <2>1, <3>1
    <3>2. CASE j # Len(d) + 1
      BY <1>6, <3>2 DEF OrderSound, DatesRise
    <3> QED BY <3>1, <3>2
  <2> QED BY <1>5, <1>6, <2>2, <2>3 DEF DatesRise
<1>8. LimitSound(r, dates)
  <2> SUFFICES ASSUME p.edits = 0
               PROVE  /\ p.limit # Unlimited => r.created <= p.limit
                      /\ \A i \in 1..Len(dates) : p.end # Never => ~After(dates[i], p.end)
                      /\ r.status # "COMPLETED" => Open(r)
                      /\ r.status = "COMPLETED" => ~Open(r)
    BY <1>5 DEF LimitSound
  <2>1. Open(p) /\ \A i \in 1..Len(d) : p.end # Never => ~After(d[i], p.end)
    BY DEF OrderSound, LimitSound
  <2>2. p.limit # Unlimited => r.created <= p.limit
    BY <1>3, <1>5, <2>1 DEF Open
  <2>3. \A i \in 1..Len(dates) : p.end # Never => ~After(dates[i], p.end)
    BY <1>6, <2>1 DEF Open
  <2>4. shouldCompleteStanding(p, next) <=> ~Open(r)
    BY <1>3, <1>5, <2>2 DEF shouldCompleteStanding, Open
  <2> QED BY <1>5, <2>2, <2>3, <2>4
<1>9. /\ r.status # "NONE" /\ r.owner # NoOwner /\ ValidDate(r.next)
  BY <1>2, <1>5 DEF OrderSound
<1> QED BY <1>5, <1>7, <1>8, <1>9 DEF OrderSound, r, dates

-----------------------------------------------------------------------------
(* Steps *)

\* A step that changes one row and no dates.
LEMMA OneOrderChanged ==
  ASSUME StandingInv, NEW s \in StandingOrderIds, NEW r \in StandingOrder,
         standing' = [standing EXCEPT ![s] = r], OrderSound(r, occurrences[s]),
         occurrences' = occurrences, ownKeys' = ownKeys,
         audited' \subseteq StandingOrderIds,
         today' \in Days
  PROVE  StandingInv'
BY DEF StandingInv

\* CreateStandingOrder.
LEMMA CreateKeepsInv ==
  ASSUME StandingOrdersAssumption, StandingInv, NEW u \in Customers,
         NEW s \in StandingOrderIds, NEW f \in Frequency, NEW first \in Days,
         NEW last \in Days \union {Never}, NEW limit \in Limits \union {Unlimited},
         CreateStandingOrder(u, s, f, first, last, limit)
  PROVE  StandingInv'
<1>1. PICK p : p = [NoStandingOrder EXCEPT !.status = "ACTIVE", !.owner = u,
                       !.frequency = f, !.start = first, !.end = last,
                       !.limit = limit, !.next = first]
  OBVIOUS
<1>2. p = NewOrder(u, f, first, last, limit)
  BY <1>1 DEF NewOrder, NoStandingOrder
<1>3. /\ standing[s].status = "NONE" /\ (last # Never => ~After(first, last))
      /\ standing' = [standing EXCEPT ![s] = p]
      /\ occurrences' = occurrences /\ ownKeys' = ownKeys /\ today' = today
      /\ audited' \subseteq audited \union {s}
  BY <1>1 DEF CreateStandingOrder
<1>4. p \in StandingOrder /\ OrderSound(p, << >>)
  BY <1>2, <1>3, NewOrderSound
<1>5. occurrences[s] = << >> /\ audited' \subseteq StandingOrderIds /\ today' \in Days
  BY <1>3 DEF StandingInv, OrderSound
<1>6. OrderSound(p, occurrences[s])
  BY <1>4, <1>5
<1> QED BY <1>3, <1>4, <1>5, <1>6, OneOrderChanged

\* UpdateStandingOrder.
LEMMA UpdateKeepsInv ==
  ASSUME StandingOrdersAssumption, StandingInv, NEW u \in Customers,
         NEW s \in StandingOrderIds, NEW status \in {"ACTIVE", "PAUSED"},
         NEW last \in Days \union {Never}, NEW limit \in Limits \union {Unlimited},
         UpdateStandingOrder(u, s, status, last, limit)
  PROVE  StandingInv'
<1> DEFINE p == standing[s]
           r == [p EXCEPT !.status = status, !.end = last, !.limit = limit,
                          !.edits = p.edits + 1]
<1>1. p \in StandingOrder /\ OrderSound(p, occurrences[s])
      /\ occurrences[s] \in Seq(Date)
  BY DEF StandingInv
<1>2. /\ p.owner = u /\ p.edits < MaxEdits /\ standing' = [standing EXCEPT ![s] = r]
      /\ occurrences' = occurrences /\ ownKeys' = ownKeys
      /\ today' = today /\ audited' = audited
  BY DEF UpdateStandingOrder, StandingInv
<1> HIDE DEF p, r
<1>3. p.edits \in Nat /\ p.edits + 1 \in 0..MaxEdits /\ status \in StandingStatus
  <2>1. p.edits \in 0..MaxEdits
    BY <1>1 DEF StandingOrder
  <2> QED BY <1>2, <2>1 DEF StandingOrdersAssumption, StandingStatus
<1>4. /\ r \in StandingOrder /\ r.status = status /\ r.next = p.next
      /\ r.owner = p.owner /\ r.edits = p.edits + 1
  BY <1>1, <1>3 DEF r, StandingOrder
<1>5. p.status # "NONE"
  BY <1>1, <1>2 DEF OrderSound, StandingOrdersAssumption
<1>6. OrderSound(r, occurrences[s])
  BY <1>1, <1>3, <1>4, <1>5, EditedOrderSound
<1> QED BY <1>2, <1>4, <1>6, OneOrderChanged DEF StandingInv

\* CancelStandingOrder.
LEMMA CancelKeepsInv ==
  ASSUME StandingInv, NEW u \in Customers, NEW s \in StandingOrderIds,
         CancelStandingOrder(u, s)
  PROVE  StandingInv'
<1> DEFINE p == standing[s]
           r == [p EXCEPT !.status = "CANCELLED", !.cancelled = TRUE]
<1>1. p \in StandingOrder /\ OrderSound(p, occurrences[s])
      /\ occurrences[s] \in Seq(Date)
  BY DEF StandingInv
<1>2. /\ p.status \in {"ACTIVE", "PAUSED"} /\ standing' = [standing EXCEPT ![s] = r]
      /\ occurrences' = occurrences /\ ownKeys' = ownKeys
      /\ today' = today /\ audited' = audited
  BY DEF CancelStandingOrder, StandingInv
<1> HIDE DEF p, r
<1>3. /\ r \in StandingOrder /\ r.status = "CANCELLED" /\ r.next = p.next
      /\ r.owner = p.owner /\ r.edits = p.edits /\ r.limit = p.limit
      /\ r.end = p.end /\ r.created = p.created
  BY <1>1 DEF r, StandingOrder, StandingStatus
<1>4. OrderSound(r, occurrences[s])
  BY <1>1, <1>2, <1>3, EditedOrderSound
<1> QED BY <1>2, <1>3, <1>4, OneOrderChanged DEF StandingInv

\* CreatePayment with the key of a standing order's date.
LEMMA UseKeyKeepsInv ==
  ASSUME StandingInv, NEW u \in Customers, NEW s \in StandingOrderIds, UseKey(u, s)
  PROVE  StandingInv'
<1>1. standing[s].next \in Date
  BY DEF StandingInv, StandingOrder, Date
<1>2. ownKeys' \in [StandingOrderIds -> SUBSET Date]
  BY <1>1 DEF UseKey, StandingInv
<1> QED BY <1>2 DEF UseKey, StandingInv

\* materializeStandingOrders.
LEMMA MaterializeKeepsInv ==
  ASSUME StandingOrdersAssumption, StandingInv, NEW batch \in SUBSET StandingOrderIds,
         MaterializeStandingOrders(batch)
  PROVE  StandingInv'
<1>1. /\ \A s \in batch : standing[s].status = "ACTIVE"
                          /\ standing[s].created < MaxOccurrences
      /\ standing' = [s \in StandingOrderIds |->
           IF s \in batch THEN AdvanceStandingOrder(standing[s]) ELSE standing[s]]
      /\ occurrences' = [s \in StandingOrderIds |->
           IF s \in batch THEN Append(occurrences[s], standing[s].next)
           ELSE occurrences[s]]
      /\ ownKeys' = ownKeys /\ audited' = audited /\ today' = today
  BY DEF MaterializeStandingOrders, CreateOccurrence, Due
<1>2. ASSUME NEW s \in StandingOrderIds
      PROVE  /\ standing'[s] \in StandingOrder
             /\ occurrences'[s] \in Seq(Date)
             /\ OrderSound(standing'[s], occurrences'[s])
  <2>1. /\ standing[s] \in StandingOrder /\ occurrences[s] \in Seq(Date)
        /\ OrderSound(standing[s], occurrences[s])
        /\ standing[s].next \in Date
    BY DEF StandingInv, StandingOrder, Date
  <2>2. CASE s \in batch
    <3>1. /\ standing'[s] = AdvanceStandingOrder(standing[s])
          /\ occurrences'[s] = Append(occurrences[s], standing[s].next)
      BY <1>1, <2>2
    <3>2. Append(occurrences[s], standing[s].next) \in Seq(Date)
      BY <2>1
    <3> QED BY <1>1, <2>1, <2>2, <3>1, <3>2, AdvanceSound
  <2>3. CASE s \notin batch
    BY <1>1, <2>1, <2>3
  <2> QED BY <2>2, <2>3
<1> QED BY <1>1, <1>2 DEF StandingInv

\* The migrated database has no standing orders.
LEMMA StandingInitSound ==
  ASSUME StandingOrdersAssumption, StandingInit
  PROVE  StandingInv
<1>1. /\ 0 \in 0..MaxOccurrences /\ 0 \in 0..MaxEdits
      /\ FirstDay \in [month : Nat, day : 1..31] /\ ValidDate(FirstDay)
  BY DEF StandingOrdersAssumption
<1>2. NoStandingOrder \in StandingOrder
  BY <1>1 DEF NoStandingOrder, StandingOrder, StandingStatus, Frequency,
       StandingOrdersAssumption
<1>3. OrderSound(NoStandingOrder, << >>)
  BY <1>1 DEF NoStandingOrder, OrderSound, LimitSound, DatesRise
<1> QED BY <1>2, <1>3 DEF StandingInit, StandingInv, StandingOrdersAssumption

\* Every step keeps the invariant: one case per action.
LEMMA StandingNextSound ==
  ASSUME StandingOrdersAssumption, StandingInv, [StandingNext]_standingVars
  PROVE  StandingInv'
<1>1. ASSUME NEW u \in Customers, NEW s \in StandingOrderIds, CustomerStep(u, s)
      PROVE  StandingInv'
  BY <1>1, CreateKeepsInv, UpdateKeepsInv, CancelKeepsInv, UseKeyKeepsInv
     DEF CustomerStep
<1>2. ASSUME NEW batch \in SUBSET StandingOrderIds, MaterializeStandingOrders(batch)
      PROVE  StandingInv'
  BY <1>2, MaterializeKeepsInv
<1>3. CASE TimePasses
  BY <1>3 DEF TimePasses, StandingInv
<1>4. CASE UNCHANGED standingVars
  BY <1>4 DEF standingVars, StandingInv
<1> QED BY <1>1, <1>2, <1>3, <1>4 DEF StandingNext

-----------------------------------------------------------------------------
(* The schedule of an order *)

\* The dates an order may come to.
ValidDates == {d \in Date : ValidDate(d)}

\* g holds the first dates of the schedule that starts with p, in order.
Schedule(p, n, g) ==
  g = [i \in 0..n |->
         IF i = 0 THEN p.start ELSE nextStandingExecution(g[i - 1], p.frequency)]

\* The steps of a schedule, as a function.
NextDates(f) == [x \in Nat \X ValidDates |-> nextStandingExecution(x[2], f)]

\* What a schedule holds, date by date.
LEMMA ScheduleSteps ==
  ASSUME NEW p, NEW n \in Nat, NEW g, Schedule(p, n, g)
  PROVE  /\ g[0] = p.start
         /\ \A i \in 1..n : g[i] = nextStandingExecution(g[i - 1], p.frequency)
<1> DEFINE steps == [i \in 0..n |->
              IF i = 0 THEN p.start ELSE nextStandingExecution(g[i - 1], p.frequency)]
<1>1. g = steps
  BY DEF Schedule
<1>2. /\ steps[0] = p.start
      /\ \A i \in 1..n : steps[i] = nextStandingExecution(g[i - 1], p.frequency)
  OBVIOUS
<1> HIDE DEF steps
<1> QED BY <1>1, <1>2

\* Execution reads its date from a schedule of existing days.
LEMMA ExecutionIsScheduled ==
  ASSUME NEW p, p.start \in ValidDates, p.frequency \in Frequency, NEW n \in Nat
  PROVE  \E g \in [0..n -> ValidDates] :
           Recurrence(g, n, p.start, NextDates(p.frequency)) /\ Execution(p, n) = g[n]
<1> DEFINE F == NextDates(p.frequency)
           first == p.start
<1>1. F \in [Nat \X ValidDates -> ValidDates] /\ first \in ValidDates
  BY NextExecutionIsLater DEF NextDates, ValidDates
<1>2. \A i \in Nat, d \in ValidDates : F[<<i, d>>] = nextStandingExecution(d, p.frequency)
  BY DEF NextDates
<1> HIDE DEF F, first
<1>3. PICK g \in [0..n -> ValidDates] : Recurrence(g, n, first, F)
  BY <1>1, RecurrenceExists
<1>4. /\ g[0] = first
      /\ \A i \in 1..n : g[i] = F[<<i, g[i - 1]>>] /\ g[i - 1] \in ValidDates
  BY <1>3 DEF Recurrence
<1>5. Schedule(p, n, g)
  <2>1. ASSUME NEW i \in 1..n
        PROVE  g[i] = nextStandingExecution(g[i - 1], p.frequency)
    <3>1. i \in Nat /\ g[i] = F[<<i, g[i - 1]>>] /\ g[i - 1] \in ValidDates
      BY <1>4
    <3> QED BY <1>2, <3>1
  <2>2. g = [i \in 0..n |-> g[i]]
    OBVIOUS
  <2> QED BY <1>4, <2>1, <2>2 DEF Schedule, first
<1> DEFINE date == CHOOSE h : Schedule(p, n, h)
<1>6. Schedule(p, n, date)
  BY <1>5
<1>7. Execution(p, n) = date[n]
  BY DEF Execution, Schedule
<1> HIDE DEF date
<1>8. /\ date[0] = first
      /\ \A i \in 1..n : date[i] = nextStandingExecution(date[i - 1], p.frequency)
  BY <1>6, ScheduleSteps DEF first
<1>9. date[n] = g[n]
  <2> DEFINE Same == {i \in Nat : i <= n => date[i] = g[i]}
  <2>1. 0 \in Same
    BY <1>4, <1>8
  <2>2. ASSUME NEW i \in Nat, i \in Same
        PROVE  i + 1 \in Same
    <3>1. SUFFICES ASSUME i + 1 <= n
                   PROVE  date[i + 1] = g[i + 1]
      OBVIOUS
    <3>2. date[i] = g[i] /\ i + 1 \in 1..n /\ (i + 1) - 1 = i
      BY <2>2, <3>1
    <3>3. /\ date[i + 1] = nextStandingExecution(date[i], p.frequency)
          /\ g[i + 1] = F[<<i + 1, g[i]>>] /\ g[i] \in ValidDates
      BY <1>4, <1>8, <3>2
    <3> QED BY <1>2, <3>2, <3>3
  <2>3. Nat \subseteq Same
    <3> HIDE DEF Same
    <3> QED BY <2>1, <2>2, NumberInduction
  <2> QED BY <2>3
<1> QED BY <1>3, <1>7, <1>9 DEF F, first

\* The first date is the start, and each further one follows from its
\* predecessor, for a number of occurrences of any size.
LEMMA ExecutionSteps ==
  ASSUME NEW p, p.start \in ValidDates, p.frequency \in Frequency, NEW n \in Nat
  PROVE  /\ Execution(p, n) \in ValidDates
         /\ Execution(p, 0) = p.start
         /\ Execution(p, n + 1) = nextStandingExecution(Execution(p, n), p.frequency)
<1> DEFINE F == NextDates(p.frequency)
           m == n + 1
<1>1. /\ m \in Nat /\ m = n + 1 /\ n <= m /\ n \in 0..n
      /\ \A i \in Nat, d \in ValidDates : F[<<i, d>>] = nextStandingExecution(d, p.frequency)
  BY DEF NextDates
<1> HIDE DEF F, m
<1>2. PICK g \in [0..n -> ValidDates] :
        Recurrence(g, n, p.start, F) /\ Execution(p, n) = g[n]
  BY ExecutionIsScheduled DEF F
<1>3. PICK h \in [0..m -> ValidDates] :
        Recurrence(h, m, p.start, F) /\ Execution(p, m) = h[m]
  BY <1>1, ExecutionIsScheduled DEF F
<1>4. g[n] = h[n]
  <2>1. \A i \in 0..n : g[i] = h[i]
    BY <1>1, <1>2, <1>3, RecurrencesAgree
  <2> QED BY <1>1, <2>1
<1>5. h[m] = nextStandingExecution(h[n], p.frequency)
  <2>1. h[m] = F[<<m, h[n]>>] /\ h[n] \in ValidDates
    BY <1>1, <1>3 DEF Recurrence
  <2> QED BY <1>1, <2>1
<1>6. Execution(p, 0) = p.start
  <2>1. PICK k : Recurrence(k, 0, p.start, F) /\ Execution(p, 0) = k[0]
    BY ExecutionIsScheduled DEF F
  <2> QED BY <2>1 DEF Recurrence
<1> QED BY <1>1, <1>2, <1>3, <1>4, <1>5, <1>6

\* The dates depend on the start and the frequency alone.
LEMMA SameSchedule ==
  ASSUME NEW p, p.start \in ValidDates, p.frequency \in Frequency,
         NEW r, r.start = p.start, r.frequency = p.frequency, NEW n \in Nat
  PROVE  Execution(r, n) = Execution(p, n)
<1> DEFINE Same == {i \in Nat : Execution(r, i) = Execution(p, i)}
<1>1. 0 \in Same
  BY ExecutionSteps
<1>2. \A i \in Nat : i \in Same => i + 1 \in Same
  BY ExecutionSteps
<1>3. Nat \subseteq Same
  <2> HIDE DEF Same
  <2> QED BY <1>1, <1>2, NumberInduction
<1> QED BY <1>3

\* How long the months are.
Lengths == [m \in Nat |-> MonthLength(m)]

\* The sum of the source is Total, whatever order the months are taken in.
LEMMA MonthSumIsTotal ==
  ASSUME NEW S \in SUBSET Nat, IsFiniteSet(S)
  PROVE  MapThenSumSet(MonthLength, S) = Total(Lengths, S)
<1> DEFINE First(V) == CHOOSE x \in V : TRUE
           Adds(sums) ==
             sums = [V \in SUBSET S |->
                       IF V = {} THEN 0
                       ELSE MonthLength(First(V)) + sums[V \ {First(V)}]]
           chosen == CHOOSE sums : Adds(sums)
<1>1. MapThenSumSet(MonthLength, S) = chosen[S]
  BY DEF MapThenSumSet, MapThenFoldSet
<1>2. ASSUME NEW sums
      PROVE  Adds(sums) <=> SumsOver(Lengths, S, sums)
  <2>1. \A V \in SUBSET S : V # {} => Lengths[Picked(V)] = MonthLength(First(V))
    BY PickedIsMember DEF Lengths, Picked
  <2>2. [V \in SUBSET S |->
           IF V = {} THEN 0 ELSE MonthLength(First(V)) + sums[V \ {First(V)}]]
        = [V \in SUBSET S |->
             IF V = {} THEN 0 ELSE Lengths[Picked(V)] + sums[V \ {Picked(V)}]]
    BY <2>1 DEF Picked
  <2> QED BY <2>2 DEF SumsOver
<1> HIDE DEF Adds
<1>3. \A m \in S : Lengths[m] \in Int
  BY MonthLengths DEF Lengths
<1>4. PICK sums : Sums(Lengths, S, sums)
  BY <1>3, SumsExist
<1>5. SumsOver(Lengths, S, sums)
  BY <1>4 DEF Sums, SumsOver
<1>6. Adds(chosen)
  BY <1>2, <1>5
<1> HIDE DEF chosen
<1>7. SumsOver(Lengths, S, chosen)
  BY <1>2, <1>6
<1>8. chosen[S] = Total(Lengths, S)
  BY <1>3, <1>7, SumsOverIsTotal
<1> QED BY <1>1, <1>8

\* One month more adds its length.
LEMMA MonthsAddUp ==
  ASSUME NEW m \in Nat, NEW n \in Nat, m <= n
  PROVE  /\ Total(Lengths, m..n - 1) \in Int
         /\ Total(Lengths, m..n) = Total(Lengths, m..n - 1) + MonthLength(n)
         /\ MapThenSumSet(MonthLength, m..n - 1) = Total(Lengths, m..n - 1)
<1> DEFINE S == m..n - 1
<1>1. /\ IsFiniteSet(S) /\ S \in SUBSET Nat /\ n \notin S /\ m..n = S \union {n}
  BY FS_Interval
<1>2. (\A k \in S : Lengths[k] \in Int) /\ Lengths[n] = MonthLength(n) /\ Lengths[n] \in Int
  BY MonthLengths DEF Lengths
<1> HIDE DEF S
<1>3. Total(Lengths, S \union {n}) = Total(Lengths, S) + Lengths[n]
  BY <1>1, <1>2, TotalAdds
<1>4. Total(Lengths, S) \in Int
  BY <1>1, <1>2, TotalTyped
<1>5. MapThenSumSet(MonthLength, S) = Total(Lengths, S)
  BY <1>1, MonthSumIsTotal
<1> QED BY <1>1, <1>2, <1>3, <1>4, <1>5 DEF S

\* The number of months, or of days, that lie behind the next date.
PeriodSound(p) ==
  IF p.frequency = "WEEKLY"
  THEN p.next.day + Total(Lengths, p.start.month..p.next.month - 1)
         = p.start.day + 7 * p.created
  ELSE p.next.month = p.start.month + Stride(p) * p.created

\* The start day, and the last days of the months the order has come through.
DaysSoFar(p) ==
  {p.start.day} \union {MonthLength(p.start.month + Stride(p) * i) : i \in 0..p.created}

DaySound(p) ==
  p.frequency # "WEEKLY" =>
    p.next.day \in DaysSoFar(p) /\ \A d \in DaysSoFar(p) : p.next.day <= d

\* An order and its dates d follow the schedule agreed on.
ScheduleSound(p, d) ==
  /\ Len(d) = p.created
  /\ \A i \in 1..p.created : d[i] = Execution(p, i - 1)
  /\ p.next = Execution(p, p.created)
  /\ p.start.month <= p.next.month
  /\ PeriodSound(p)
  /\ DaySound(p)

\* Numbers of a row.
LEMMA RowNumbers ==
  ASSUME StandingOrdersAssumption, NEW p \in StandingOrder, ValidDate(p.next)
  PROVE  /\ p.start \in ValidDates /\ p.next \in ValidDates /\ p.frequency \in Frequency
         /\ p.created \in Nat
         /\ p.start.month \in Nat /\ p.start.day \in 1..31
         /\ p.start.day <= MonthLength(p.start.month)
         /\ p.next.month \in Nat /\ p.next.day \in 1..31
         /\ p.next.day <= MonthLength(p.next.month)
<1>1. p.created \in 0..MaxOccurrences /\ MaxOccurrences \in Nat
  BY DEF StandingOrder, StandingOrdersAssumption
<1>2. p.start \in Date /\ ValidDate(p.start) /\ p.next \in Date /\ p.frequency \in Frequency
  BY DEF StandingOrder, StandingOrdersAssumption, Date
<1> QED BY <1>1, <1>2 DEF ValidDates, ValidDate, Date

\* What does not touch start, frequency, count and next date leaves it so.
LEMMA SchedulesStay ==
  ASSUME StandingOrdersAssumption, NEW p \in StandingOrder, ValidDate(p.next),
         NEW r, r.start = p.start, r.frequency = p.frequency,
         r.created = p.created, r.next = p.next,
         NEW d, ScheduleSound(p, d)
  PROVE  ScheduleSound(r, d)
<1>1. /\ p.start \in ValidDates /\ p.frequency \in Frequency /\ p.created \in Nat
  BY RowNumbers
<1>2. \A n \in Nat : Execution(r, n) = Execution(p, n)
  BY <1>1, SameSchedule
<1>3. \A i \in 1..p.created : i - 1 \in Nat
  BY <1>1
<1>4. Stride(r) = Stride(p)
  BY DEF Stride
<1>5. PeriodSound(r) /\ DaySound(r)
  BY <1>4 DEF ScheduleSound, PeriodSound, DaySound, DaysSoFar
<1> QED BY <1>1, <1>2, <1>3, <1>5 DEF ScheduleSound

\* A new order starts with its start.
LEMMA SchedulesStart ==
  ASSUME StandingOrdersAssumption, NEW r \in StandingOrder,
         r.next = r.start, r.created = 0, ValidDate(r.start)
  PROVE  ScheduleSound(r, << >>)
<1>1. /\ r.start \in ValidDates /\ r.frequency \in Frequency
      /\ r.start.month \in Nat /\ r.start.day \in 1..31
      /\ r.start.day <= MonthLength(r.start.month)
  BY RowNumbers
<1>2. Execution(r, 0) = r.start
  BY <1>1, ExecutionSteps
<1>3. PeriodSound(r)
  <2>1. r.start.month..r.start.month - 1 = {}
    BY <1>1
  <2>2. Total(Lengths, r.start.month..r.start.month - 1) = 0
    BY <2>1, TotalOfNothing
  <2>3. Stride(r) * 0 = 0
    BY DEF Stride
  <2> QED BY <1>1, <2>2, <2>3 DEF PeriodSound
<1>4. DaySound(r)
  <2>1. \A i \in 0..0 : Stride(r) * i = 0
    BY DEF Stride
  <2>2. DaysSoFar(r) = {r.start.day, MonthLength(r.start.month)}
    BY <1>1, <2>1 DEF DaysSoFar
  <2> QED BY <1>1, <2>2 DEF DaySound
<1> QED BY <1>1, <1>2, <1>3, <1>4 DEF ScheduleSound

\* One more week on either side.
LEMMA OneMoreWeek ==
  ASSUME NEW day \in Int, NEW before \in Int, NEW first \in Int, NEW weeks \in Int,
         day + before = first + 7 * weeks
  PROVE  (day + 7) + before = first + 7 * (weeks + 1)
OBVIOUS

\* A week later, in this month or the next.
LEMMA WeekAdvances ==
  ASSUME StandingOrdersAssumption, NEW p \in StandingOrder, ValidDate(p.next),
         p.frequency = "WEEKLY", p.start.month <= p.next.month, PeriodSound(p),
         NEW r, r.start = p.start, r.frequency = p.frequency,
         r.created = p.created + 1, r.next = nextStandingExecution(p.next, "WEEKLY")
  PROVE  r.start.month <= r.next.month /\ PeriodSound(r)
<1> DEFINE a == p.start.month
           m == p.next.month
<1>1. /\ a \in Nat /\ m \in Nat /\ a <= m /\ p.created \in Nat /\ p.start.day \in Nat
      /\ p.next.day \in 1..31 /\ p.next = [month |-> m, day |-> p.next.day]
  BY RowNumbers DEF StandingOrder
<1>2. MonthLength(m) \in 28..31
  BY <1>1, MonthLengths
<1>3. p.next.day + Total(Lengths, a..m - 1) = p.start.day + 7 * p.created
  BY DEF PeriodSound
<1>4. /\ Total(Lengths, a..m - 1) \in Int
      /\ Total(Lengths, a..m) = Total(Lengths, a..m - 1) + MonthLength(m)
  BY <1>1, MonthsAddUp
<1>5. r.next = IF p.next.day + 7 <= MonthLength(m)
               THEN [month |-> m, day |-> p.next.day + 7]
               ELSE [month |-> m + 1, day |-> p.next.day + 7 - MonthLength(m)]
  BY <1>1 DEF nextStandingExecution, AddDays
<1>6. (m + 1) - 1 = m
  BY <1>1
<1> HIDE DEF a, m
<1>7. r.next.day + Total(Lengths, a..r.next.month - 1) = p.start.day + 7 * (p.created + 1)
  <2> DEFINE before == Total(Lengths, a..m - 1)
             day == p.next.day
             long == MonthLength(m)
  <2>1. /\ day \in Nat /\ long \in Nat /\ before \in Int
        /\ p.start.day \in Nat /\ p.created \in Nat
        /\ day + before = p.start.day + 7 * p.created
        /\ Total(Lengths, a..m) = before + long
    <3>1. day \in Nat /\ long \in Nat /\ p.start.day \in Nat /\ p.created \in Nat
      BY <1>1, <1>2
    <3>2. day + before = p.start.day + 7 * p.created
      BY <1>3
    <3>3. before \in Int /\ Total(Lengths, a..m) = before + long
      BY <1>4
    <3> QED BY <3>1, <3>2, <3>3
  <2>2. (day + 7) + before = p.start.day + 7 * (p.created + 1)
    <3> HIDE DEF before, day
    <3>1. /\ day \in Int /\ before \in Int /\ p.start.day \in Int
          /\ p.created \in Int /\ day + before = p.start.day + 7 * p.created
      BY <2>1
    <3> QED BY <3>1, OneMoreWeek
  <2>3. CASE day + 7 <= long
    <3>1. r.next.month = m /\ r.next.day = day + 7
      BY <1>5, <2>3
    <3>2. Total(Lengths, a..r.next.month - 1) = before
      BY <3>1
    <3>3. (day + 7) + before = p.start.day + 7 * (p.created + 1)
      BY <2>2
    <3> QED BY <3>1, <3>2, <3>3
  <2>4. CASE ~(day + 7 <= long)
    <3>1. r.next.month - 1 = m /\ r.next.day = day + 7 - long
      BY <1>5, <1>6, <2>4
    <3>2. Total(Lengths, a..r.next.month - 1) = before + long
      BY <2>1, <3>1
    <3>3. (day + 7 - long) + (before + long) = (day + 7) + before
      <4> HIDE DEF before, day, long
      <4> QED BY <2>1
    <3>4. (day + 7) + before = p.start.day + 7 * (p.created + 1)
      BY <2>2
    <3> QED BY <3>1, <3>2, <3>3, <3>4
  <2> QED BY <2>3, <2>4
<1>8. a <= r.next.month
  BY <1>1, <1>5
<1> QED BY <1>7, <1>8 DEF PeriodSound, a

\* Months later, on the same day or the last one there is.
LEMMA MonthsAdvance ==
  ASSUME StandingOrdersAssumption, NEW p \in StandingOrder, ValidDate(p.next),
         p.frequency # "WEEKLY", p.start.month <= p.next.month, PeriodSound(p),
         DaySound(p),
         NEW r, r.start = p.start, r.frequency = p.frequency,
         r.created = p.created + 1,
         r.next = nextStandingExecution(p.next, p.frequency)
  PROVE  r.start.month <= r.next.month /\ PeriodSound(r) /\ DaySound(r)
<1> DEFINE a == p.start.month
           k == Stride(p)
           n == p.created
           m == p.next.month
           length == MonthLength(m + k)
<1>1. /\ a \in Nat /\ m \in Nat /\ a <= m /\ n \in Nat /\ p.next.day \in 1..31
      /\ p.start.day \in 1..31
  BY RowNumbers
<1>2. k \in {1, 3, 12} /\ Stride(r) = k
  BY DEF Stride, StandingOrder
<1>3. r.next = addMonthsClamped(p.next, k)
  BY DEF Stride, StandingOrder, Frequency, nextStandingExecution
<1>4. m = a + k * n /\ m + k = a + k * (n + 1)
  <2>1. m = a + k * n
    BY DEF PeriodSound
  <2>2. k * (n + 1) = k * n + k
    BY <1>1, <1>2
  <2> QED BY <1>1, <1>2, <2>1, <2>2
<1>5. length \in 28..31
  BY <1>1, <1>2, MonthLengths
<1> DEFINE day == IF p.next.day <= length THEN p.next.day ELSE length
<1>6. r.next = [month |-> m + k, day |-> day]
  <2>1. Min({p.next.day, length}) = day
    <3>1. p.next.day \in Int /\ length \in Int
      BY <1>1, <1>5
    <3> HIDE DEF length
    <3> QED BY ONLY <3>1, MinOfTwo DEF day
  <2> QED BY <1>3, <2>1 DEF addMonthsClamped
<1>7. DaysSoFar(r) = DaysSoFar(p) \union {length}
  <2>1. 0..n + 1 = (0..n) \union {n + 1}
    BY <1>1
  <2>2. {MonthLength(a + k * i) : i \in 0..n + 1}
          = {MonthLength(a + k * i) : i \in 0..n} \union {length}
    BY ONLY <1>4, <2>1 DEF length
  <2> DEFINE LengthsUpTo(top) == {MonthLength(a + k * i) : i \in 0..top}
  <2>3. DaysSoFar(p) = {p.start.day} \union LengthsUpTo(n)
    BY ONLY DEF DaysSoFar
  <2>4. DaysSoFar(r) = {p.start.day} \union LengthsUpTo(n + 1)
    BY ONLY <1>2, r.start = p.start, r.created = p.created + 1 DEF DaysSoFar
  <2>5. LengthsUpTo(n + 1) = LengthsUpTo(n) \union {length}
    BY ONLY <2>2
  <2> HIDE DEF LengthsUpTo, length
  <2> QED BY ONLY <2>3, <2>4, <2>5
<1>8. /\ p.next.day \in DaysSoFar(p) /\ \A d \in DaysSoFar(p) : p.next.day <= d
      /\ DaysSoFar(p) \subseteq Int
  <2>1. \A i \in 0..n : a + k * i \in Nat
    BY <1>1, <1>2
  <2>2. DaysSoFar(p) \subseteq Int
    BY <1>1, <2>1, MonthLengths DEF DaysSoFar
  <2> QED BY <2>2 DEF DaySound
<1> HIDE DEF length
<1>9. day \in DaysSoFar(r) /\ \A d \in DaysSoFar(r) : day <= d
  <2>1. CASE p.next.day <= length
    BY <1>1, <1>5, <1>7, <1>8, <2>1
  <2>2. CASE ~(p.next.day <= length)
    <3>1. day = length
      BY <2>2
    <3>2. \A d \in DaysSoFar(p) : length <= d
      BY <1>1, <1>5, <1>8, <2>2
    <3> QED BY <1>5, <1>7, <3>1, <3>2
  <2> QED BY <2>1, <2>2
<1> HIDE DEF day, k
<1>10. r.next.month = m + k /\ r.next.day = day
  BY <1>6
<1>11. PeriodSound(r)
  BY <1>2, <1>4, <1>10 DEF PeriodSound
<1>12. DaySound(r)
  BY <1>9, <1>10 DEF DaySound
<1>13. r.start.month <= r.next.month
  BY <1>1, <1>2, <1>10
<1> QED BY <1>11, <1>12, <1>13

\* AdvanceStandingOrder takes the schedule's next date.
LEMMA ScheduleAdvances ==
  ASSUME StandingOrdersAssumption, NEW p \in StandingOrder, ValidDate(p.next),
         NEW d \in Seq(Date), ScheduleSound(p, d),
         NEW r, r.start = p.start, r.frequency = p.frequency,
         r.created = p.created + 1,
         r.next = nextStandingExecution(p.next, p.frequency)
  PROVE  ScheduleSound(r, Append(d, p.next))
<1>1. /\ p.start \in ValidDates /\ p.frequency \in Frequency /\ p.created \in Nat
      /\ p.next \in Date
  BY RowNumbers DEF ValidDates
<1>2. \A n \in Nat : Execution(r, n) = Execution(p, n)
  BY <1>1, SameSchedule
<1>3. r.next = Execution(r, r.created)
  <2>1. Execution(p, p.created + 1)
          = nextStandingExecution(Execution(p, p.created), p.frequency)
    BY <1>1, ExecutionSteps
  <2> QED BY <1>1, <1>2, <2>1 DEF ScheduleSound
<1> DEFINE e == Append(d, p.next)
<1>4. /\ Len(e) = p.created + 1 /\ e[p.created + 1] = p.next
      /\ \A i \in 1..p.created : e[i] = d[i]
  <2>1. /\ Len(e) = Len(d) + 1 /\ e[Len(d) + 1] = p.next
        /\ \A i \in 1..Len(d) : e[i] = d[i]
    BY <1>1
  <2>2. Len(d) = p.created
    BY DEF ScheduleSound
  <2> HIDE DEF e
  <2> QED BY <2>1, <2>2
<1> HIDE DEF e
<1>5. ASSUME NEW i \in 1..p.created + 1
      PROVE  e[i] = Execution(r, i - 1)
  <2>1. CASE i = p.created + 1
    BY <1>1, <1>2, <1>4, <2>1 DEF ScheduleSound
  <2>2. CASE i # p.created + 1
    <3>1. i \in 1..p.created /\ i - 1 \in Nat
      BY <1>1, <2>2
    <3> QED BY <1>2, <1>4, <3>1 DEF ScheduleSound
  <2> QED BY <2>1, <2>2
<1>6. r.start.month <= r.next.month /\ PeriodSound(r) /\ DaySound(r)
  <2>1. CASE p.frequency = "WEEKLY"
    BY <2>1, WeekAdvances DEF ScheduleSound, DaySound
  <2>2. CASE p.frequency # "WEEKLY"
    BY <2>2, MonthsAdvance DEF ScheduleSound
  <2> QED BY <2>1, <2>2
<1>7. ScheduleSound(r, e)
  BY <1>3, <1>4, <1>5, <1>6 DEF ScheduleSound
<1> QED BY <1>7 DEF e

-----------------------------------------------------------------------------
(* All orders on their schedules *)

\* With StandingInv, the inductive invariant of the dates: every order is on its
\* schedule and was never early.
ScheduleInv ==
  \A s \in StandingOrderIds :
    /\ ScheduleSound(standing[s], occurrences[s])
    /\ \A i \in 1..Len(occurrences[s]) : ~After(occurrences[s][i], today)

\* What passes the time, or changes no date of any order, keeps it.
LEMMA DatesStay ==
  ASSUME StandingOrdersAssumption, StandingInv, ScheduleInv,
         occurrences' = occurrences, today' = today \/ TimePasses, today' \in Days,
         \A s \in StandingOrderIds :
           /\ standing'[s].start = standing[s].start
           /\ standing'[s].frequency = standing[s].frequency
           /\ standing'[s].created = standing[s].created
           /\ standing'[s].next = standing[s].next
  PROVE  ScheduleInv'
<1> SUFFICES ASSUME NEW s \in StandingOrderIds
             PROVE  /\ ScheduleSound(standing'[s], occurrences[s])
                    /\ \A i \in 1..Len(occurrences[s]) : ~After(occurrences[s][i], today')
  BY DEF ScheduleInv
<1>1. /\ standing[s] \in StandingOrder /\ ValidDate(standing[s].next)
      /\ ScheduleSound(standing[s], occurrences[s])
      /\ occurrences[s] \in Seq(Date) /\ today \in Date /\ today' \in Date
  BY DEF StandingInv, OrderSound, ScheduleInv, StandingOrdersAssumption, Date
<1>2. ScheduleSound(standing'[s], occurrences[s])
  BY <1>1, SchedulesStay
<1>3. ASSUME NEW i \in 1..Len(occurrences[s])
      PROVE  ~After(occurrences[s][i], today')
  <2>1. occurrences[s][i] \in Date /\ ~After(occurrences[s][i], today)
    BY <1>1 DEF ScheduleInv
  <2>2. CASE today' = today
    BY <2>1, <2>2
  <2>3. CASE TimePasses
    <3>1. After(today', today)
      BY <2>3 DEF TimePasses
    <3> QED BY <1>1, <2>1, <3>1, AfterIsOrder
  <2> QED BY <2>2, <2>3
<1> QED BY <1>2, <1>3

\* CreateStandingOrder.
LEMMA CreateKeepsDates ==
  ASSUME StandingOrdersAssumption, StandingInv, ScheduleInv, NEW u \in Customers,
         NEW s \in StandingOrderIds, NEW f \in Frequency, NEW first \in Days,
         NEW last \in Days \union {Never}, NEW limit \in Limits \union {Unlimited},
         CreateStandingOrder(u, s, f, first, last, limit)
  PROVE  ScheduleInv'
<1>1. PICK p : p = [NoStandingOrder EXCEPT !.status = "ACTIVE", !.owner = u,
                       !.frequency = f, !.start = first, !.end = last,
                       !.limit = limit, !.next = first]
  OBVIOUS
<1>2. p = NewOrder(u, f, first, last, limit)
  BY <1>1 DEF NewOrder, NoStandingOrder
<1>3. /\ standing[s].status = "NONE" /\ (last # Never => ~After(first, last))
      /\ standing' = [standing EXCEPT ![s] = p]
      /\ occurrences' = occurrences /\ today' = today
  BY <1>1 DEF CreateStandingOrder
<1>4. p \in StandingOrder
  BY <1>2, <1>3, NewOrderSound
<1>5. p.next = first /\ p.start = first /\ p.created = 0 /\ ValidDate(first)
  BY <1>2 DEF NewOrder, StandingOrdersAssumption
<1>6. ScheduleSound(p, << >>)
  BY <1>4, <1>5, SchedulesStart
<1>7. occurrences[s] = << >>
  BY <1>3 DEF StandingInv, OrderSound
<1>8. standing'[s] = p /\ \A t \in StandingOrderIds \ {s} : standing'[t] = standing[t]
  BY <1>3 DEF StandingInv
<1> QED BY <1>3, <1>6, <1>7, <1>8 DEF ScheduleInv

\* UpdateStandingOrder and CancelStandingOrder.
LEMMA EditKeepsDates ==
  ASSUME StandingOrdersAssumption, StandingInv, ScheduleInv, StandingInv',
         NEW u \in Customers, NEW s \in StandingOrderIds,
         \/ \E status \in {"ACTIVE", "PAUSED"}, last \in Days \union {Never},
              limit \in Limits \union {Unlimited} :
              UpdateStandingOrder(u, s, status, last, limit)
         \/ CancelStandingOrder(u, s)
  PROVE  ScheduleInv'
<1>1. ASSUME NEW t \in StandingOrderIds
      PROVE  /\ standing'[t].start = standing[t].start
             /\ standing'[t].frequency = standing[t].frequency
             /\ standing'[t].created = standing[t].created
             /\ standing'[t].next = standing[t].next
  <2>1. standing[t] \in StandingOrder /\ standing \in [StandingOrderIds -> StandingOrder]
    BY DEF StandingInv
  <2>2. CASE CancelStandingOrder(u, s)
    BY <2>1, <2>2 DEF CancelStandingOrder, StandingOrder
  <2>3. ASSUME NEW status, NEW last, NEW limit,
               UpdateStandingOrder(u, s, status, last, limit)
        PROVE  /\ standing'[t].start = standing[t].start
               /\ standing'[t].frequency = standing[t].frequency
               /\ standing'[t].created = standing[t].created
               /\ standing'[t].next = standing[t].next
    BY <2>1, <2>3 DEF UpdateStandingOrder, StandingOrder
  <2> QED BY <2>2, <2>3
<1>2. occurrences' = occurrences /\ today' = today /\ today' \in Days
  BY DEF UpdateStandingOrder, CancelStandingOrder, StandingInv
<1> QED BY <1>1, <1>2, DatesStay

\* materializeStandingOrders: the date that is paid is due and on the schedule.
LEMMA MaterializeKeepsDates ==
  ASSUME StandingOrdersAssumption, StandingInv, ScheduleInv,
         NEW batch \in SUBSET StandingOrderIds, MaterializeStandingOrders(batch)
  PROVE  ScheduleInv'
<1> SUFFICES ASSUME NEW s \in StandingOrderIds
             PROVE  /\ ScheduleSound(standing'[s], occurrences'[s])
                    /\ \A i \in 1..Len(occurrences'[s]) : ~After(occurrences'[s][i], today)
  BY DEF ScheduleInv, MaterializeStandingOrders
<1> DEFINE p == standing[s]
           r == standing'[s]
           d == occurrences[s]
           e == Append(d, p.next)
<1>1. /\ p \in StandingOrder /\ ValidDate(p.next) /\ p.next \in Date /\ d \in Seq(Date)
      /\ ScheduleSound(p, d) /\ \A i \in 1..Len(d) : ~After(d[i], today)
  BY DEF StandingInv, OrderSound, ScheduleInv, StandingOrder, Date
<1>2. CASE s \notin batch
  BY <1>1, <1>2 DEF MaterializeStandingOrders
<1>3. CASE s \in batch
  <2>1. /\ r = AdvanceStandingOrder(p) /\ occurrences'[s] = e /\ ~After(p.next, today)
    BY <1>3 DEF MaterializeStandingOrders, CreateOccurrence, Due
  <2>2. /\ r.start = p.start /\ r.frequency = p.frequency
        /\ r.created = p.created + 1
        /\ r.next = nextStandingExecution(p.next, p.frequency)
    <3> HIDE DEF p, r
    <3> QED BY <1>1, <2>1 DEF AdvanceStandingOrder, StandingOrder
  <2>3. ScheduleSound(r, e)
    <3> HIDE DEF p, r, d
    <3> QED BY <1>1, <2>2, ScheduleAdvances
  <2>4. /\ Len(e) = Len(d) + 1 /\ e[Len(d) + 1] = p.next
        /\ \A i \in 1..Len(d) : e[i] = d[i]
    BY <1>1
  <2>5. \A i \in 1..Len(e) : ~After(e[i], today)
    <3> HIDE DEF p, d, e
    <3>1. Len(d) \in Nat
      BY <1>1
    <3>2. \A i \in 1..Len(d) + 1 : i \in 1..Len(d) \/ i = Len(d) + 1
      BY <3>1
    <3> QED BY <1>1, <2>1, <2>4, <3>2
  <2> QED BY <2>1, <2>3, <2>5
<1> QED BY <1>2, <1>3

\* Every step keeps every order on its schedule: one case per action.
LEMMA NextKeepsDates ==
  ASSUME StandingOrdersAssumption, StandingInv, ScheduleInv, StandingInv',
         [StandingNext]_standingVars
  PROVE  ScheduleInv'
<1>1. ASSUME NEW u \in Customers, NEW s \in StandingOrderIds, CustomerStep(u, s)
      PROVE  ScheduleInv'
  <2>1. CASE UseKey(u, s)
    BY <2>1 DEF UseKey, ScheduleInv
  <2> QED BY <1>1, <2>1, CreateKeepsDates, EditKeepsDates DEF CustomerStep
<1>2. ASSUME NEW batch \in SUBSET StandingOrderIds, MaterializeStandingOrders(batch)
      PROVE  ScheduleInv'
  BY <1>2, MaterializeKeepsDates
<1>3. CASE TimePasses
  BY <1>3, DatesStay DEF TimePasses
<1>4. CASE UNCHANGED standingVars
  BY <1>4 DEF standingVars, ScheduleInv
<1> QED BY <1>1, <1>2, <1>3, <1>4 DEF StandingNext

\* Rows that do not exist yet count as orders that start on the first day.
LEMMA FirstDates ==
  ASSUME StandingOrdersAssumption, StandingInit
  PROVE  ScheduleInv
<1>1. NoStandingOrder \in StandingOrder
  BY StandingInitSound, StandingOrdersAssumption
     DEF StandingInit, NoStandingOrder, StandingOrder, StandingStatus, Frequency,
         StandingOrdersAssumption
<1>2. /\ NoStandingOrder.next = NoStandingOrder.start /\ NoStandingOrder.created = 0
      /\ ValidDate(NoStandingOrder.start)
  BY DEF NoStandingOrder, StandingOrdersAssumption
<1>3. ScheduleSound(NoStandingOrder, << >>)
  BY <1>1, <1>2, SchedulesStart
<1> QED BY <1>3 DEF StandingInit, ScheduleInv

-----------------------------------------------------------------------------
(* The theorems *)

\* The inductive invariant holds in every state.
THEOREM StandingInvariant == StandingSpec => []StandingInv
<1>1. StandingInit => StandingInv
  BY StandingOrdersAssumption, StandingInitSound
<1>2. StandingInv /\ [StandingNext]_standingVars => StandingInv'
  BY StandingOrdersAssumption, StandingNextSound
<1> QED BY <1>1, <1>2, PTL DEF StandingSpec

\* Rows, dates and clock are of their types.
THEOREM StandingTypes == StandingSpec => []StandingTypeOK
<1>1. StandingInv => StandingTypeOK
  BY DEF StandingInv, StandingTypeOK, Date
<1> QED BY <1>1, StandingInvariant, PTL

\* An order nobody edited pays as often as it may and no more
\* (shouldCompleteStanding, materializeStandingOrders).
THEOREM LimitsAreKept == StandingSpec => []LimitsKept
<1>1. StandingInv => LimitsKept
  <2> SUFFICES ASSUME StandingInv, NEW s \in StandingOrderIds,
                      standing[s].edits = 0, standing[s].status # "NONE"
               PROVE  LET p == standing[s]
                          exhausted == \/ p.limit # Unlimited /\ p.created = p.limit
                                       \/ p.end # Never /\ After(p.next, p.end)
                      IN /\ p.limit # Unlimited => p.created <= p.limit
                         /\ \A i \in DOMAIN occurrences[s] :
                              p.end # Never => ~After(occurrences[s][i], p.end)
                         /\ p.status = "COMPLETED" <=> exhausted
    BY DEF LimitsKept
  <2>1. LimitSound(standing[s], occurrences[s]) /\ occurrences[s] \in Seq(Date)
    BY DEF StandingInv, OrderSound
  <2>2. /\ standing[s].created \in Nat
        /\ standing[s].limit # Unlimited => standing[s].limit \in Nat
    <3>1. /\ standing[s].created \in 0..MaxOccurrences
          /\ standing[s].limit \in Limits \union {Unlimited}
      BY DEF StandingInv, StandingOrder
    <3>2. Limits \subseteq Nat /\ MaxOccurrences \in Nat
      BY StandingOrdersAssumption DEF StandingOrdersAssumption
    <3>3. standing[s].created \in Nat
      BY <3>1, <3>2
    <3>4. standing[s].limit # Unlimited => standing[s].limit \in Nat
      BY <3>1, <3>2
    <3> QED BY <3>3, <3>4
  <2> QED BY <2>1, <2>2 DEF LimitSound, Open
<1> QED BY <1>1, StandingInvariant, PTL

\* Every order is on its schedule in every state.
THEOREM ScheduleInvariant == StandingSpec => [](StandingInv /\ ScheduleInv)
<1>1. StandingInit => StandingInv /\ ScheduleInv
  BY StandingOrdersAssumption, StandingInitSound, FirstDates
<1>2. StandingInv /\ ScheduleInv /\ [StandingNext]_standingVars
        => (StandingInv /\ ScheduleInv)'
  BY StandingOrdersAssumption, StandingNextSound, NextKeepsDates
<1> QED BY <1>1, <1>2, PTL DEF StandingSpec

\* The occurrences of an order are the first dates of the schedule its start and
\* frequency give, each once, none left out and none before its day
\* (materializeStandingOrders, nextStandingExecution).
THEOREM OccurrencesAreScheduled == StandingSpec => []OccurrencesFollowSchedule
<1>1. StandingInv /\ ScheduleInv => OccurrencesFollowSchedule
  BY DEF ScheduleInv, ScheduleSound, OccurrencesFollowSchedule
<1> QED BY <1>1, ScheduleInvariant, PTL

\* The next date is always as many months, or weeks, after the start as there
\* were occurrences, over years and leap years (nextStandingExecution).
THEOREM PeriodsAreComplete == StandingSpec => []NoPeriodSkipped
<1>1. ASSUME StandingInv, ScheduleInv, NEW s \in StandingOrderIds
      PROVE  LET p == standing[s]
             IN  IF p.frequency = "WEEKLY"
                 THEN DaysSinceStart(p) = p.start.day + 7 * p.created
                 ELSE p.next.month = p.start.month + Stride(p) * p.created
  <2> DEFINE p == standing[s]
  <2>1. /\ p.start.month \in Nat /\ p.next.month \in Nat
        /\ p.start.month <= p.next.month /\ PeriodSound(p)
    BY <1>1, StandingOrdersAssumption, RowNumbers
       DEF StandingInv, OrderSound, ScheduleInv, ScheduleSound
  <2>2. MapThenSumSet(MonthLength, p.start.month..p.next.month - 1)
          = Total(Lengths, p.start.month..p.next.month - 1)
    BY <2>1, MonthsAddUp
  <2> QED BY <2>1, <2>2 DEF PeriodSound, DaysSinceStart
<1>2. StandingInv /\ ScheduleInv => NoPeriodSkipped
  BY <1>1 DEF NoPeriodSkipped
<1> QED BY <1>2, ScheduleInvariant, PTL

\* An order that counts months is due on its start day or on the last day of the
\* shortest month it has come through (addMonthsClamped).
THEOREM DayIsClampedForGood == StandingSpec => []DayIsShortestMonthSoFar
<1>1. ASSUME StandingInv, ScheduleInv, NEW s \in StandingOrderIds,
             standing[s].frequency # "WEEKLY"
      PROVE  standing[s].next.day = Min(DaysSoFar(standing[s]))
  <2> DEFINE day == standing[s].next.day
             days == DaysSoFar(standing[s])
  <2>1. day \in days /\ \A n \in days : day <= n
    BY <1>1 DEF ScheduleInv, ScheduleSound, DaySound
  <2>2. days \subseteq Int
    <3>1. standing[s] \in StandingOrder /\ ValidDate(standing[s].next)
      BY <1>1 DEF StandingInv, OrderSound
    <3>2. /\ standing[s].start.day \in Int /\ standing[s].start.month \in Nat
          /\ standing[s].created \in Nat
      BY <3>1, StandingOrdersAssumption, RowNumbers
    <3>3. Stride(standing[s]) \in {1, 3, 12}
      BY DEF Stride
    <3>4. \A i \in 0..standing[s].created :
            standing[s].start.month + Stride(standing[s]) * i \in Nat
      BY <3>2, <3>3
    <3> QED BY <3>2, <3>4, MonthLengths DEF DaysSoFar
  <2> HIDE DEF day, days
  <2>3. \A n \in days : (\A k \in days : n <= k) => n = day
    BY <2>1, <2>2
  <2> QED BY <2>1, <2>3 DEF Min, day, days
<1>2. StandingInv /\ ScheduleInv => DayIsShortestMonthSoFar
  BY <1>1 DEF DayIsShortestMonthSoFar, DaysSoFar
<1> QED BY <1>2, ScheduleInvariant, PTL

\* UNIQUE (owner_id, idempotency_key) stops a due order only where a payment of
\* its owner's own has the key of the date: no earlier occurrence has it, however
\* the order was edited, paused or resumed, because its dates only go up
\* (materializeStandingOrders, CreatePayment).
THEOREM OnlyOwnersTakeKeys ==
  StandingSpec => [](\A s \in StandingOrderIds :
                       KeyIsFree(s) \/ standing[s].next \in ownKeys[s])
<1>1. StandingInv => \A s \in StandingOrderIds :
                       KeyIsFree(s) \/ standing[s].next \in ownKeys[s]
  <2> SUFFICES ASSUME StandingInv, NEW s \in StandingOrderIds,
                      NEW i \in DOMAIN occurrences[s]
               PROVE  occurrences[s][i] # standing[s].next
    BY DEF KeyIsFree
  <2>1. occurrences[s] \in Seq(Date) /\ standing[s].next \in Date
    BY DEF StandingInv, StandingOrder, Date
  <2>2. After(standing[s].next, occurrences[s][i])
    BY <2>1 DEF StandingInv, OrderSound, DatesRise
  <2> QED BY <2>1, <2>2, AfterIsOrder
<1> QED BY <1>1, StandingInvariant, PTL

\* No date of an order is paid twice, and none is paid out of order.
THEOREM DatesOnlyRise ==
  StandingSpec => [](\A s \in StandingOrderIds :
                       \A i, j \in DOMAIN occurrences[s] :
                         i < j => After(occurrences[s][j], occurrences[s][i]))
<1>1. StandingInv => \A s \in StandingOrderIds :
                       \A i, j \in DOMAIN occurrences[s] :
                         i < j => After(occurrences[s][j], occurrences[s][i])
  <2> SUFFICES ASSUME StandingInv, NEW s \in StandingOrderIds,
                      NEW i \in DOMAIN occurrences[s],
                      NEW j \in DOMAIN occurrences[s], i < j
               PROVE  After(occurrences[s][j], occurrences[s][i])
    OBVIOUS
  <2>1. occurrences[s] \in Seq(Date)
    BY DEF StandingInv
  <2> QED BY <2>1 DEF StandingInv, OrderSound, DatesRise
<1> QED BY <1>1, StandingInvariant, PTL
=============================================================================
