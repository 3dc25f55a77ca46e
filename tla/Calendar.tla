------------------------------ MODULE Calendar ------------------------------
(***************************************************************************)
(* The calendar arithmetic of standing orders.  A date is a month, counted *)
(* from January of year 0, and a day of that month; all dates are midnight *)
(* UTC, as the API parses them.                                            *)
(***************************************************************************)
EXTENDS Integers, FiniteSetsExt

Frequency == {"WEEKLY", "MONTHLY", "QUARTERLY", "YEARLY"}

LeapYear(year) == (year % 4 = 0 /\ year % 100 # 0) \/ year % 400 = 0

MonthLength(month) ==
  LET inYear == (month % 12) + 1 IN
  CASE inYear \in {4, 6, 9, 11} -> 30
    [] inYear = 2 -> IF LeapYear(month \div 12) THEN 29 ELSE 28
    [] OTHER -> 31

DateOf(year, month, day) == [month |-> 12 * year + month - 1, day |-> day]

ValidDate(d) == d.month \in Nat /\ d.day \in 1..MonthLength(d.month)

After(d, e) == d.month > e.month \/ (d.month = e.month /\ d.day > e.day)

\* Mutant: a month is taken to have 31 days.
AddDaysInLongMonths(d, n) ==
  IF d.day + n <= 31
  THEN [d EXCEPT !.day = @ + n]
  ELSE [month |-> d.month + 1, day |-> d.day + n - 31]

\* time.Time.AddDate(0, 0, n) for n of at most a month.
AddDays(d, n) ==
  IF d.day + n <= MonthLength(d.month)
  THEN [d EXCEPT !.day = @ + n]
  ELSE [month |-> d.month + 1, day |-> d.day + n - MonthLength(d.month)]

\* Mutant: the day is not clamped; time.Date carries it into the next month.
addMonthsCarrying(d, months) ==
  LET target == d.month + months IN
  IF d.day <= MonthLength(target)
  THEN [month |-> target, day |-> d.day]
  ELSE [month |-> target + 1, day |-> d.day - MonthLength(target)]

addMonthsClamped(d, months) ==
  LET target == d.month + months IN
  [month |-> target, day |-> Min({d.day, MonthLength(target)})]

nextStandingExecution(d, f) ==
  CASE f = "WEEKLY"    -> AddDays(d, 7)
    [] f = "MONTHLY"   -> addMonthsClamped(d, 1)
    [] f = "QUARTERLY" -> addMonthsClamped(d, 3)
    [] OTHER           -> addMonthsClamped(d, 12)
=============================================================================
