-------------------------- MODULE MCStandingOrders --------------------------
EXTENDS StandingOrders

\* Month ends around a leap year's February, and the spring of the year after.
MCFirstDay == DateOf(2027, 12, 31)
MCDays == {MCFirstDay, DateOf(2028, 2, 29), DateOf(2028, 4, 30), DateOf(2029, 3, 1)}
MCLimits == {1, 2}
=============================================================================
