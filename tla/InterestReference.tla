------------------------- MODULE InterestReference -------------------------
(***************************************************************************)
(* InterestPayments against a day-by-day definition of compounding, as a   *)
(* machine: the ledger has one entry, each step is a day, each day adds    *)
(* the daily interest, and on the first day of every period the daily      *)
(* interest is computed anew from the total so far.  At every day the      *)
(* invariants ask the contract what it would take as outstanding.          *)
(***************************************************************************)
EXTENDS InterestPayments

CONSTANTS
    compoundingInterval,    \* one of the two compounding periods
    EntryTimes,     \* times of the entry
    Capitals,       \* capital of the entry
    Interests,      \* interest outstanding on top of it
    Rates,          \* values of the fund's prefRate
    Horizon         \* days a run follows

ASSUME ReferenceAssumption ==
    /\ compoundingInterval \in {ANNUAL_COMPOUNDING, QUARTERLY_COMPOUNDING}
    /\ EntryTimes \subseteq Nat \ {0}
    /\ Capitals \cup Interests \cup Rates \subseteq Nat
    /\ Horizon \in Nat
    /\ \A t \in EntryTimes : Days(t) + Horizon < LastDay

VARIABLES
    rate,           \* the fund's prefRate
    day,            \* today, in days since 1970
    total, daily    \* the reference: what is outstanding, and what it earns

refVars == <<interestEntries, rate, day, total, daily>>

Init ==
    /\ rate \in Rates
    /\ \E t \in EntryTimes, c \in Capitals, i \in Interests :
          interestEntries = <<Entry(t, c, DailyInterest(c + i, rate), c + i)>>
    /\ day = Days(LastInterestEntry.timestamp)
    /\ total = LastInterestEntry.totalCashFlow
    /\ daily = LastInterestEntry.daily

FirstDay == Days(LastInterestEntry.timestamp)

PeriodMonths ==
    IF compoundingInterval = ANNUAL_COMPOUNDING THEN {1} ELSE {1, 4, 7, 10}

StartsPeriod(d) ==
    \E m \in PeriodMonths :
        d * DaySeconds = timestampFromDate(getYear(d * DaySeconds), m, 1)

DayPasses ==
    /\ day < FirstDay + Horizon
    /\ day' = day + 1
    /\ total' = total + daily
    /\ daily' = IF StartsPeriod(day') THEN DailyInterest(total', rate) ELSE daily
    /\ UNCHANGED <<interestEntries, rate>>

Next == DayPasses

Spec == Init /\ [][Next]_refVars

\* What the contract takes as outstanding when a cash flow arrives today.
Outstanding ==
    LET noon == day * DaySeconds + DaySeconds \div 2
    IN  Accrued(ComputeCompounding(compoundingInterval, rate, noon).entry, noon)

AtMidnight == LastInterestEntry.timestamp % DaySeconds = 0
SameYear == getYear(LastInterestEntry.timestamp) = getYear(day * DaySeconds)

\* Annual compounding adds exactly the interest of every day since the entry,
\* over any number of years and leap days, unless the entry was made during a
\* day and is carried over a New Year: then some of it is lost, never added.
AnnualMatchesDaily ==
    /\ AtMidnight \/ SameYear => Outstanding = total
    /\ Outstanding <= total

\* "Compound interest quarterly": the interest of each day is added once.
QuarterlyMatchesDaily == AtMidnight => Outstanding = total

=============================================================================
