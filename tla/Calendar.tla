------------------------------ MODULE Calendar ------------------------------
(***************************************************************************)
(* The four functions of BokkyPooBahsDateTimeLibrary that                  *)
(* InterestPayments.sol calls (timestampFromDate, getYear, addMonths and   *)
(* diffDays), over UNIX timestamps in seconds, with the Gregorian leap     *)
(* rule; getMonth tells the quarter of a date, which the contract finds by *)
(* comparing dates.  The library is a dependency of the contracts.         *)
(***************************************************************************)
EXTENDS Integers, FiniteSetsExt

DaySeconds == 86400

\* The days that a date of type uint32 can tell apart.
LastDay == 49710

IsLeap(y) == (y % 4 = 0 /\ y % 100 # 0) \/ y % 400 = 0

\* Leap years before year y, counted from year 1.
LeapsBefore(y) == ((y - 1) \div 4) - ((y - 1) \div 100) + ((y - 1) \div 400)

\* Days from 1 January 1970 to 1 January of y.
YearStart(y) == 365 * (y - 1970) + LeapsBefore(y) - LeapsBefore(1970)

MonthLength(y, m) ==
    IF m = 2 THEN (IF IsLeap(y) THEN 29 ELSE 28)
    ELSE IF m \in {4, 6, 9, 11} THEN 30 ELSE 31

\* Days of a common year before each month.
DaysBefore == <<0, 31, 59, 90, 120, 151, 181, 212, 243, 273, 304, 334>>

MonthStart(y, m) ==
    YearStart(y) + DaysBefore[m] + (IF m > 2 /\ IsLeap(y) THEN 1 ELSE 0)

timestampFromDate(y, m, d) == (MonthStart(y, m) + d - 1) * DaySeconds

\* _daysToDate.  Dividing the days by 366 misses at most one year up to the
\* end of uint32.
YearOf[day \in Nat] ==
    LET y == 1970 + day \div 366
    IN  IF YearStart(y + 1) <= day THEN y + 1 ELSE y

MonthOf[day \in Nat] ==
    CHOOSE m \in 1..12 :
        /\ MonthStart(YearOf[day], m) <= day
        /\ day < MonthStart(YearOf[day], m) + MonthLength(YearOf[day], m)

DayOfMonth(day) == day - MonthStart(YearOf[day], MonthOf[day]) + 1

getYear(ts) == YearOf[ts \div DaySeconds]
getMonth(ts) == MonthOf[ts \div DaySeconds]

\* The same day of the month n months after the given day's, cut back to the
\* end of a shorter month.
MonthsLater(day, n) ==
    LET months == MonthOf[day] + n - 1
        y      == YearOf[day] + months \div 12
        m      == (months % 12) + 1
    IN  MonthStart(y, m) + Min({DayOfMonth(day), MonthLength(y, m)}) - 1

\* At the same time of day.
addMonths(ts, n) == MonthsLater(ts \div DaySeconds, n) * DaySeconds + (ts % DaySeconds)

\* The library requires fromTimestamp <= toTimestamp.
diffDays(from, to) == (to - from) \div DaySeconds

=============================================================================
