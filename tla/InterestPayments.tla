-------------------------- MODULE InterestPayments --------------------------
(***************************************************************************)
(* The preferred-return ledger of src/fund/InterestPayments.sol: a list of *)
(* entries, one per cash flow and per compounding date, each holding the   *)
(* capital outstanding, the total with interest and the daily interest.    *)
(*                                                                         *)
(* _addInflow and _addOutflow are internal: the fund runs them inside      *)
(* capitalCall and distribute.  Each is an operator that yields what the   *)
(* function returns, the entries it pushes, and whether it completes:      *)
(* arithmetic that would fall below zero reverts the whole transaction.    *)
(***************************************************************************)
EXTENDS Calendar, Sequences

CONSTANT scale           \* the fund's uint8 scale

ASSUME InterestAssumption == scale \in 1..255

\* enum CompoundingPeriod
ANNUAL_COMPOUNDING == 0
QUARTERLY_COMPOUNDING == 1

VARIABLE interestEntries

InterestEntry ==
    [timestamp : Nat, capital : Nat, daily : Nat, totalCashFlow : Nat]

InterestTypeOK == interestEntries \in Seq(InterestEntry)

InterestInit == interestEntries = << >>

Entry(time, capital, daily, tcf) ==
    [timestamp |-> time, capital |-> capital, daily |-> daily, totalCashFlow |-> tcf]

\* _getLastInterestEntry: four zeroes stand for "no entry yet".
LastInterestEntry ==
    IF interestEntries = << >> THEN Entry(0, 0, 0, 0)
    ELSE interestEntries[Len(interestEntries)]

Days(timestamp) == timestamp \div DaySeconds

\* d = ((tcf * interestRate) / scale) / 1000
DailyInterest(tcf, rate) == ((tcf * rate) \div scale) \div 1000

-----------------------------------------------------------------------------
(* Compounding.  A run is the entry computed so far (its timestamp is the  *)
(* contract's dt), the sequence of entries pushed on the way, and whether  *)
(* no number of days has been negative, which reverts.                     *)

Started(entry) == [entry |-> entry, pushed |-> << >>, completes |-> TRUE]

\* Add the interest of `days`, push an entry, move dt on.
CompoundedTo(run, days, rate, stamp, next) ==
    LET e   == run.entry
        tcf == e.totalCashFlow + e.daily * days
        d   == DailyInterest(tcf, rate)
    IN  [entry     |-> Entry(next, e.capital, d, tcf),
         pushed    |-> Append(run.pushed, Entry(stamp, e.capital, d, tcf)),
         completes |-> run.completes /\ days \in Nat]

\* A wrong AnnualStep: every year has 365 days.
AnnualStepOfCommonYears(run, year, rate) ==
    LET dt   == run.entry.timestamp
        jan  == timestampFromDate(year, 1, 1)
        days == IF diffDays(dt, jan) > 365 THEN 365 ELSE diffDays(dt, jan)
    IN  CompoundedTo(run, days, rate, dt, jan)

AnnualStep(run, year, rate) ==
    LET dt  == run.entry.timestamp
        jan == timestampFromDate(year, 1, 1)
    IN  CompoundedTo(run, diffDays(dt, jan), rate, dt, jan)

CompoundAnnual(last, rate, time) ==
    LET first  == getYear(last.timestamp) + 1
        latest == getYear(time)
        upTo[y \in (first - 1)..latest] ==
            IF y < first THEN Started(last)
            ELSE AnnualStep(upTo[y - 1], y, rate)
    IN  IF first <= latest THEN upTo[latest] ELSE Started(last)

QuarterStart(time) ==
    LET m == getMonth(time)
    IN  timestampFromDate(getYear(time), 3 * ((m - 1) \div 3) + 1, 1)

NextQuarter(time) == QuarterStart(addMonths(time, 3))

\* The loop variable od counts days and is passed to _nextQuarter as seconds,
\* which lands in April 1970, day 90 counted as 7776000: past any quarter's
\* day number, so the loop body runs at most once.
CompoundQuarterly(last, rate, time) ==
    LET od  == Days(last.timestamp)
        oqt == Days(NextQuarter(last.timestamp))
        nqt == Days(QuarterStart(time))
        day == od * DaySeconds
    IN  IF od <= nqt
        THEN CompoundedTo(Started(last), oqt - od, rate, day, day)
        ELSE Started(last)

ComputeCompounding(cp, rate, time) ==
    LET last == LastInterestEntry
    IN  IF last.timestamp = 0 THEN Started(last)
        ELSE IF cp = ANNUAL_COMPOUNDING
             THEN CompoundAnnual(last, rate, time)
             ELSE CompoundQuarterly(last, rate, time)

-----------------------------------------------------------------------------
(* Cash flows.                                                             *)

\* Interest for the whole days since the entry; delta < 0 reverts.
Accrued(entry, time) ==
    IF entry.timestamp = 0 THEN entry.totalCashFlow
    ELSE entry.totalCashFlow + entry.daily * (Days(time) - Days(entry.timestamp))

\* A wrong NotEarlier: a negative number of days is let through.
NotEarlierUnchecked(entry, time) == TRUE

NotEarlier(entry, time) ==
    entry.timestamp > 0 => Days(entry.timestamp) <= Days(time)

\* What the functions compute with is unsigned: an entry that would not be
\* reverts the call, and so does a cash flow of an earlier day.
Computed(run, time) ==
    /\ run.completes
    /\ run.entry \in InterestEntry
    /\ run.pushed \in Seq(InterestEntry)
    /\ NotEarlier(run.entry, time)

\* A wrong InflowAfter: interest is carried into the capital.
InflowAfterCapitalised(run, amount, rate, time) ==
    LET tcf == Accrued(run.entry, time) + amount
    IN  [completes |-> Computed(run, time),
         pushed    |-> Append(run.pushed,
                          Entry(time, tcf, DailyInterest(tcf, rate), tcf))]

InflowAfter(run, amount, rate, time) ==
    LET tcf == Accrued(run.entry, time) + amount
    IN  [completes |-> Computed(run, time),
         pushed    |-> Append(run.pushed,
                          Entry(time, run.entry.capital + amount,
                                DailyInterest(tcf, rate), tcf))]

Inflow(amount, rate, time, cp) ==
    InflowAfter(ComputeCompounding(cp, rate, time), amount, rate, time)

\* What an outflow pays when there is something outstanding, by its size.
\* A wrong CapitalOnly: what was paid is said to remain as well.
CapitalOnlyPaidTwice(amount, capital, tcf) ==
    [completes |-> amount <= tcf,
     remaining |-> amount, capitalPaid |-> amount, interestPaid |-> 0,
     capital |-> capital - amount, totalCashFlow |-> tcf - amount]

CapitalOnly(amount, capital, tcf) ==
    [completes |-> amount <= tcf,
     remaining |-> 0, capitalPaid |-> amount, interestPaid |-> 0,
     capital |-> capital - amount, totalCashFlow |-> tcf - amount]

CapitalAndInterest(amount, capital, tcf) ==
    [completes |-> TRUE,
     remaining |-> 0, capitalPaid |-> capital, interestPaid |-> amount - capital,
     capital |-> 0, totalCashFlow |-> tcf - amount]

\* A wrong Everything: only the capital is taken off what is outstanding.
EverythingButInterest(amount, capital, tcf) ==
    [completes |-> capital <= tcf,
     remaining |-> amount - tcf, capitalPaid |-> capital, interestPaid |-> tcf - capital,
     capital |-> capital, totalCashFlow |-> tcf - capital]

Everything(amount, capital, tcf) ==
    [completes |-> capital <= tcf,
     remaining |-> amount - tcf, capitalPaid |-> capital, interestPaid |-> tcf - capital,
     capital |-> capital, totalCashFlow |-> 0]

Payout(amount, capital, tcf) ==
    IF amount <= capital THEN CapitalOnly(amount, capital, tcf)
    ELSE IF amount <= tcf THEN CapitalAndInterest(amount, capital, tcf)
    ELSE Everything(amount, capital, tcf)

OutflowPaid(run, pay, rate, time) ==
    [completes    |-> Computed(run, time) /\ pay.completes,
     remaining    |-> pay.remaining,
     capitalPaid  |-> pay.capitalPaid,
     interestPaid |-> pay.interestPaid,
     pushed       |-> Append(run.pushed,
                          Entry(time, pay.capital,
                                DailyInterest(pay.totalCashFlow, rate),
                                pay.totalCashFlow))]

\* With nothing outstanding all of the amount remains, and only what
\* compounding pushed is recorded.
OutflowUntouched(run, amount) ==
    [completes |-> run.completes /\ run.pushed \in Seq(InterestEntry),
     remaining |-> amount, capitalPaid |-> 0, interestPaid |-> 0, pushed |-> run.pushed]

OutflowAfter(run, amount, rate, time) ==
    IF run.entry.timestamp > 0 /\ run.entry.totalCashFlow > 0
    THEN OutflowPaid(run,
                     Payout(amount, run.entry.capital, Accrued(run.entry, time)),
                     rate, time)
    ELSE OutflowUntouched(run, amount)

Outflow(amount, rate, time, cp) ==
    OutflowAfter(ComputeCompounding(cp, rate, time), amount, rate, time)

=============================================================================
