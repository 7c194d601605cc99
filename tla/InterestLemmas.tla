--------------------------- MODULE InterestLemmas ---------------------------
(***************************************************************************)
(* What compounding and a cash flow of InterestPayments return and push,   *)
(* over any number of years: well-typed entries in the order of their      *)
(* days, and a payout whose parts add up to the amount.                    *)
(***************************************************************************)
EXTENDS InterestPayments, WellFoundedInduction, TLAPS

LEMMA DaysType ==
    ASSUME NEW t \in Nat
    PROVE  Days(t) \in Nat
  BY DEF Days, DaySeconds

\* _addInterestEntry's daily interest is a number, at any rate and any scale.
LEMMA DailyInterestType ==
    ASSUME NEW tcf \in Nat, NEW rate \in Nat
    PROVE  DailyInterest(tcf, rate) \in Nat
  <1>1. tcf * rate \in Nat
    OBVIOUS
  <1>2. scale \in Nat \ {0}
    BY InterestAssumption
  <1> DEFINE m == tcf * rate
  <1> HIDE DEF m
  <1>3. m \div scale \in Nat
    BY <1>1, <1>2 DEF m
  <1>4. \A n \in Nat : n \div 1000 \in Nat
    OBVIOUS
  <1> QED BY <1>3, <1>4 DEF DailyInterest, m

\* Interest accrued since an entry of an earlier or the same day only adds.
LEMMA AccruedType ==
    ASSUME NEW entry \in InterestEntry, NEW time \in Nat, NotEarlier(entry, time)
    PROVE  /\ Accrued(entry, time) \in Nat
           /\ Accrued(entry, time) >= entry.totalCashFlow
  <1>1. /\ entry.totalCashFlow \in Nat /\ entry.daily \in Nat /\ entry.timestamp \in Nat
    BY DEF InterestEntry
  <1>2. CASE entry.timestamp = 0
    BY <1>1, <1>2 DEF Accrued
  <1>3. CASE entry.timestamp > 0
    <2> DEFINE delta == Days(time) - Days(entry.timestamp)
    <2>1. delta \in Nat
      BY <1>1, <1>3, DaysType DEF NotEarlier
    <2>2. Accrued(entry, time) = entry.totalCashFlow + entry.daily * delta
      BY <1>1, <1>3 DEF Accrued
    <2> HIDE DEF delta
    <2>3. entry.daily * delta \in Nat
      BY <1>1, <2>1
    <2> QED BY <1>1, <2>2, <2>3
  <1> QED BY <1>1, <1>2, <1>3

LEMMA InflowType ==
    ASSUME NEW run, NEW amount \in Nat, NEW rate \in Nat, NEW time \in Nat,
           InflowAfter(run, amount, rate, time).completes
    PROVE  InflowAfter(run, amount, rate, time).pushed \in Seq(InterestEntry)
  <1> DEFINE tcf == Accrued(run.entry, time) + amount
             e   == Entry(time, run.entry.capital + amount, DailyInterest(tcf, rate), tcf)
  <1>1. Computed(run, time)
    BY DEF InflowAfter
  <1>2. run.entry \in InterestEntry /\ run.pushed \in Seq(InterestEntry)
    BY <1>1 DEF Computed
  <1>3. tcf \in Nat
    BY <1>1, <1>2, AccruedType DEF Computed
  <1>4. run.entry.capital + amount \in Nat
    BY <1>2 DEF InterestEntry
  <1>5. e \in InterestEntry
    BY <1>3, <1>4, DailyInterestType DEF Entry, InterestEntry
  <1>6. InflowAfter(run, amount, rate, time).pushed = Append(run.pushed, e)
    BY DEF InflowAfter
  <1> HIDE DEF e
  <1> QED BY <1>2, <1>5, <1>6

\* Whichever branch an outflow takes, what it pays as capital, pays as
\* interest and leaves over is the amount, and nothing becomes negative.
LEMMA PayoutAddsUp ==
    ASSUME NEW amount \in Nat, NEW capital \in Nat, NEW tcf \in Nat,
           Payout(amount, capital, tcf).completes
    PROVE  LET pay == Payout(amount, capital, tcf) IN
           /\ pay.remaining \in Nat /\ pay.capitalPaid \in Nat /\ pay.interestPaid \in Nat
           /\ pay.capital \in Nat /\ pay.totalCashFlow \in Nat
           /\ pay.capitalPaid + pay.interestPaid + pay.remaining = amount
  <1>1. CASE amount <= capital
    <2>1. Payout(amount, capital, tcf) = CapitalOnly(amount, capital, tcf)
      BY <1>1 DEF Payout
    <2>2. CapitalOnly(amount, capital, tcf).completes = (amount <= tcf)
      BY DEF CapitalOnly
    <2>3. amount <= tcf
      BY <2>1, <2>2, Zenon
    <2> QED BY <1>1, <2>1, <2>3 DEF CapitalOnly
  <1>2. CASE ~ (amount <= capital) /\ amount <= tcf
    BY <1>2 DEF Payout, CapitalAndInterest
  <1>3. CASE ~ (amount <= capital) /\ ~ (amount <= tcf)
    <2>1. Payout(amount, capital, tcf) = Everything(amount, capital, tcf)
      BY <1>3 DEF Payout
    <2>2. Everything(amount, capital, tcf).completes = (capital <= tcf)
      BY DEF Everything
    <2>3. capital <= tcf
      BY <2>1, <2>2, Zenon
    <2> QED BY <1>3, <2>1, <2>3 DEF Everything
  <1> QED BY <1>1, <1>2, <1>3

LEMMA OutflowType ==
    ASSUME NEW run, NEW amount \in Nat, NEW rate \in Nat, NEW time \in Nat,
           OutflowAfter(run, amount, rate, time).completes
    PROVE  LET pay == OutflowAfter(run, amount, rate, time) IN
           /\ pay.remaining \in Nat /\ pay.capitalPaid \in Nat /\ pay.interestPaid \in Nat
           /\ pay.capitalPaid + pay.interestPaid + pay.remaining = amount
           /\ pay.pushed \in Seq(InterestEntry)
  <1> DEFINE out == OutflowAfter(run, amount, rate, time)
             p   == Payout(amount, run.entry.capital, Accrued(run.entry, time))
             e   == Entry(time, p.capital, DailyInterest(p.totalCashFlow, rate),
                          p.totalCashFlow)
  <1>1. CASE run.entry.timestamp > 0 /\ run.entry.totalCashFlow > 0
    <2>1. out = OutflowPaid(run, p, rate, time)
      BY <1>1 DEF OutflowAfter
    <2> HIDE DEF p
    <2>a. OutflowPaid(run, p, rate, time).completes = (Computed(run, time) /\ p.completes)
      BY DEF OutflowPaid
    <2>2. Computed(run, time) /\ p.completes
      BY <2>1, <2>a, Zenon
    <2>3. /\ run.entry \in InterestEntry /\ run.pushed \in Seq(InterestEntry)
          /\ run.entry.capital \in Nat /\ Accrued(run.entry, time) \in Nat
      BY <2>2, AccruedType DEF Computed, InterestEntry
    <2>4. /\ p.remaining \in Nat /\ p.capitalPaid \in Nat /\ p.interestPaid \in Nat
          /\ p.capital \in Nat /\ p.totalCashFlow \in Nat
          /\ p.capitalPaid + p.interestPaid + p.remaining = amount
      BY <2>2, <2>3, PayoutAddsUp DEF p
    <2>5. e \in InterestEntry
      BY <2>4, DailyInterestType DEF Entry, InterestEntry
    <2>6. /\ out.remaining = p.remaining /\ out.capitalPaid = p.capitalPaid
          /\ out.interestPaid = p.interestPaid /\ out.pushed = Append(run.pushed, e)
      BY <2>1 DEF OutflowPaid
    <2> HIDE DEF out, e
    <2>7. out.pushed \in Seq(InterestEntry)
      BY <2>3, <2>5, <2>6
    <2> QED BY <2>4, <2>6, <2>7 DEF out
  <1>2. CASE ~ (run.entry.timestamp > 0 /\ run.entry.totalCashFlow > 0)
    <2>1. out = OutflowUntouched(run, amount)
      BY <1>2 DEF OutflowAfter
    <2>2. OutflowUntouched(run, amount).completes
            = (run.completes /\ run.pushed \in Seq(InterestEntry))
      BY DEF OutflowUntouched
    <2>3. run.pushed \in Seq(InterestEntry)
      BY <2>1, <2>2, Zenon
    <2>4. /\ out.remaining = amount /\ out.capitalPaid = 0
          /\ out.interestPaid = 0 /\ out.pushed = run.pushed
      BY <2>1 DEF OutflowUntouched
    <2> HIDE DEF out
    <2>5. out.capitalPaid + out.interestPaid + out.remaining = amount
      BY <2>4
    <2> QED BY <2>3, <2>4, <2>5 DEF out
  <1> QED BY <1>1, <1>2

-----------------------------------------------------------------------------
(* Compounding: what is outstanding grows, the capital stays, and the      *)
(* entries pushed on the way run forward in time.                          *)

\* Induction over the natural numbers, the property a set.
LEMMA NatSetInduction ==
    ASSUME NEW P, 0 \in P, \A n \in Nat : n \in P => n + 1 \in P
    PROVE  Nat \subseteq P
  <1> SUFFICES ASSUME Nat \ P # {} PROVE FALSE
    OBVIOUS
  <1>1. PICK m \in Nat \ P : \A n \in Nat \ P : ~ (<<n, m>> \in OpToRel(<, Nat))
    <2> DEFINE R == OpToRel(<, Nat)
               T == Nat \ P
    <2>1. IsWellFoundedOn(R, Nat)
      BY NatLessThanWellFounded
    <2> HIDE DEF R
    <2>2. \E m \in T : \A n \in T : ~ (<<n, m>> \in R)
      BY <2>1, WFMin
    <2> QED BY <2>2 DEF R
  <1>2. \A n \in Nat \ P : ~ (n < m)
    BY <1>1 DEF OpToRel
  <1> QED BY <1>2

InDayOrder(s) ==
    \A i \in 1..(Len(s) - 1) : Days(s[i].timestamp) <= Days(s[i + 1].timestamp)

\* What compounding makes of an entry, unless it reverts.
Grown(last, run) ==
    /\ run.entry \in InterestEntry
    /\ run.pushed \in Seq(InterestEntry)
    /\ run.entry.capital = last.capital
    /\ run.entry.totalCashFlow >= last.totalCashFlow
    /\ Days(last.timestamp) <= Days(run.entry.timestamp)
    /\ InDayOrder(run.pushed)
    /\ run.pushed = << >> => run.entry = last
    /\ run.pushed # << >> =>
          /\ Days(last.timestamp) <= Days(run.pushed[1].timestamp)
          /\ Days(last.timestamp) <= Days(run.pushed[Len(run.pushed)].timestamp)
          /\ Days(run.pushed[Len(run.pushed)].timestamp) <= Days(run.entry.timestamp)
          /\ run.pushed[Len(run.pushed)].capital = run.entry.capital
          /\ run.pushed[Len(run.pushed)].totalCashFlow = run.entry.totalCashFlow

LEMMA OrderAppend ==
    ASSUME NEW s \in Seq(InterestEntry), NEW e \in InterestEntry, InDayOrder(s),
           s # << >> => Days(s[Len(s)].timestamp) <= Days(e.timestamp)
    PROVE  InDayOrder(Append(s, e))
  <1> SUFFICES ASSUME NEW i \in 1..(Len(Append(s, e)) - 1)
               PROVE  Days(Append(s, e)[i].timestamp) <= Days(Append(s, e)[i + 1].timestamp)
    BY DEF InDayOrder
  <1>1. i \in 1..Len(s) /\ Len(s) \in Nat /\ Append(s, e)[i] = s[i]
    OBVIOUS
  <1>2. CASE i = Len(s)
    <2>1. Append(s, e)[i + 1] = e /\ s # << >>
      BY <1>1, <1>2
    <2> QED BY <1>1, <1>2, <2>1
  <1>3. CASE i # Len(s)
    <2>1. Append(s, e)[i + 1] = s[i + 1] /\ i \in 1..(Len(s) - 1)
      BY <1>1, <1>3
    <2> QED BY <1>1, <2>1 DEF InDayOrder
  <1> QED BY <1>2, <1>3

LEMMA AppendEnds ==
    ASSUME NEW s \in Seq(InterestEntry), NEW e \in InterestEntry
    PROVE  /\ Append(s, e) \in Seq(InterestEntry) /\ Append(s, e) # << >>
           /\ Append(s, e)[Len(Append(s, e))] = e
           /\ Append(s, e)[1] = IF s = << >> THEN e ELSE s[1]
  OBVIOUS

LEMMA OrderConcat ==
    ASSUME NEW s \in Seq(InterestEntry), NEW p \in Seq(InterestEntry),
           InDayOrder(s), InDayOrder(p),
           s # << >> /\ p # << >> => Days(s[Len(s)].timestamp) <= Days(p[1].timestamp)
    PROVE  InDayOrder(s \o p)
  <1> SUFFICES ASSUME NEW i \in 1..(Len(s \o p) - 1)
               PROVE  Days((s \o p)[i].timestamp) <= Days((s \o p)[i + 1].timestamp)
    BY DEF InDayOrder
  <1>1. Len(s) \in Nat /\ Len(p) \in Nat /\ Len(s \o p) = Len(s) + Len(p)
    OBVIOUS
  <1>2. CASE i < Len(s)
    <2>1. (s \o p)[i] = s[i] /\ (s \o p)[i + 1] = s[i + 1] /\ i \in 1..(Len(s) - 1)
      BY <1>1, <1>2
    <2> QED BY <2>1 DEF InDayOrder
  <1>3. CASE i = Len(s)
    <2>1. (s \o p)[i] = s[i] /\ (s \o p)[i + 1] = p[1]
      BY <1>1, <1>3
    <2>2. s # << >> /\ p # << >>
      BY <1>1, <1>3
    <2> QED BY <1>3, <2>1, <2>2
  <1>4. CASE i > Len(s)
    <2> DEFINE j == i - Len(s)
    <2>1. j \in 1..(Len(p) - 1) /\ i = Len(s) + j
      BY <1>1, <1>4
    <2>2. (s \o p)[i] = p[j] /\ (s \o p)[i + 1] = p[j + 1]
      BY <1>1, <2>1
    <2> HIDE DEF j
    <2> QED BY <2>1, <2>2 DEF InDayOrder
  <1> QED BY <1>1, <1>2, <1>3, <1>4

LEMMA StartedGrown ==
    ASSUME NEW last \in InterestEntry
    PROVE  Grown(last, Started(last)) /\ Started(last).completes
  <1>1. last.totalCashFlow \in Nat /\ last.timestamp \in Nat
    BY DEF InterestEntry
  <1> QED BY <1>1, DaysType DEF Grown, Started, InDayOrder

\* One step of the loop: interest for a number of days and a new entry.
LEMMA CompoundedToGrown ==
    ASSUME NEW last \in InterestEntry, NEW run, Grown(last, run),
           NEW days \in Nat, NEW rate \in Nat, NEW stamp \in Nat, NEW next \in Nat,
           Days(run.entry.timestamp) <= Days(stamp), Days(stamp) <= Days(next)
    PROVE  Grown(last, CompoundedTo(run, days, rate, stamp, next))
  <1> DEFINE e   == run.entry
             p   == run.pushed
             tcf == e.totalCashFlow + e.daily * days
             d   == DailyInterest(tcf, rate)
             new == Entry(stamp, e.capital, d, tcf)
             end == Entry(next, e.capital, d, tcf)
             res == CompoundedTo(run, days, rate, stamp, next)
  <1>1. /\ e \in InterestEntry /\ p \in Seq(InterestEntry)
        /\ e.capital = last.capital /\ e.totalCashFlow >= last.totalCashFlow
        /\ Days(last.timestamp) <= Days(e.timestamp)
        /\ InDayOrder(p)
    BY DEF Grown
  <1>2. /\ e.totalCashFlow \in Nat /\ e.daily \in Nat /\ e.capital \in Nat /\ e.timestamp \in Nat
        /\ last.totalCashFlow \in Nat /\ last.timestamp \in Nat
    BY <1>1 DEF InterestEntry
  <1>3. e.daily * days \in Nat
    BY <1>2
  <1>4. tcf \in Nat /\ tcf >= e.totalCashFlow
    <2> DEFINE i == e.daily * days
    <2> HIDE DEF i
    <2>1. i \in Nat
      BY <1>3 DEF i
    <2>2. e.totalCashFlow + i \in Nat /\ e.totalCashFlow + i >= e.totalCashFlow
      BY <1>2, <2>1
    <2> QED BY <2>2 DEF i
  <1>5. res.entry = end /\ res.pushed = Append(p, new)
    BY DEF CompoundedTo
  <1> HIDE DEF tcf
  <1>6. d \in Nat
    BY <1>4, DailyInterestType
  <1> HIDE DEF d
  <1>7. new \in InterestEntry /\ end \in InterestEntry
    BY <1>2, <1>4, <1>6 DEF Entry, InterestEntry
  <1>8. /\ new.timestamp = stamp /\ new.capital = e.capital /\ new.totalCashFlow = tcf
        /\ end.timestamp = next /\ end.capital = e.capital /\ end.totalCashFlow = tcf
    BY DEF Entry
  <1>9. /\ Days(e.timestamp) \in Nat /\ Days(stamp) \in Nat /\ Days(next) \in Nat
        /\ Days(last.timestamp) \in Nat
    BY <1>2, DaysType
  <1>10. p # << >> => /\ Days(last.timestamp) <= Days(p[1].timestamp)
                      /\ Days(p[Len(p)].timestamp) <= Days(e.timestamp)
                      /\ Days(p[Len(p)].timestamp) \in Nat
    <2>1. p # << >> => Len(p) \in 1..Len(p)
      BY <1>1
    <2>2. p # << >> => p[Len(p)] \in InterestEntry
      BY <1>1, <2>1
    <2>3. p # << >> => p[Len(p)].timestamp \in Nat
      BY <2>2 DEF InterestEntry
    <2> QED BY <2>3, DaysType DEF Grown
  <1> HIDE DEF new, end, res, e, p
  <1>11. InDayOrder(Append(p, new))
    <2>1. p # << >> => Days(p[Len(p)].timestamp) <= Days(new.timestamp)
      BY <1>8, <1>9, <1>10 DEF e
    <2> QED BY <1>1, <1>7, <2>1, OrderAppend
  <1>12. /\ Append(p, new) \in Seq(InterestEntry) /\ Append(p, new) # << >>
         /\ Append(p, new)[Len(Append(p, new))] = new
         /\ Append(p, new)[1] = IF p = << >> THEN new ELSE p[1]
    BY <1>1, <1>7
  <1>13. Days(last.timestamp) <= Days(Append(p, new)[1].timestamp)
    BY <1>1, <1>8, <1>9, <1>10, <1>12 DEF e
  <1>14. Days(last.timestamp) <= Days(stamp)
    BY <1>1, <1>9 DEF e
  <1>15. /\ end.totalCashFlow >= last.totalCashFlow
         /\ Days(last.timestamp) <= Days(end.timestamp)
    BY <1>1, <1>2, <1>4, <1>8, <1>9 DEF e
  <1> QED BY <1>1, <1>5, <1>7, <1>8, <1>11, <1>12, <1>13, <1>14, <1>15 DEF Grown, res

LEMMA YearStartStep ==
    ASSUME NEW y \in Nat \ {0}
    PROVE  YearStart(y) \in Int /\ YearStart(y + 1) \in Int
           /\ YearStart(y) + 365 <= YearStart(y + 1)
  BY DEF YearStart, LeapsBefore

LEMMA YearStartMonotone ==
    ASSUME NEW y \in Nat \ {0}, NEW z \in Nat \ {0}, y <= z
    PROVE  YearStart(y) <= YearStart(z) /\ YearStart(y) \in Int /\ YearStart(z) \in Int
  BY DEF YearStart, LeapsBefore

\* Up to the last day of a uint32, _daysToDate finds the year a day is in.
LEMMA YearOfDay ==
    ASSUME NEW d \in 0..LastDay
    PROVE  /\ YearOf[d] \in Nat \ {0}
           /\ YearStart(YearOf[d]) <= d
           /\ d < YearStart(YearOf[d] + 1)
  <1> DEFINE k == d \div 366
             y == 1970 + k
  <1>1. k \in 0..136 /\ 366 * k <= d /\ d <= 366 * k + 365
    BY DEF LastDay
  <1>2. YearOf[d] = IF YearStart(y + 1) <= d THEN y + 1 ELSE y
    BY DEF YearOf, LastDay
  <1> HIDE DEF k
  <1>3. YearStart(y) <= d
    BY <1>1 DEF YearStart, LeapsBefore
  <1>4. d < YearStart(y + 2)
    BY <1>1 DEF YearStart, LeapsBefore
  <1>5. y \in Nat \ {0} /\ y + 1 \in Nat \ {0} /\ y + 2 = (y + 1) + 1
    BY <1>1
  <1> HIDE DEF y
  <1>6. CASE YearStart(y + 1) <= d
    BY <1>2, <1>4, <1>5, <1>6
  <1>7. CASE ~ (YearStart(y + 1) <= d)
    <2>1. YearStart(y + 1) \in Int /\ d \in Int
      BY <1>5, YearStartStep
    <2> QED BY <1>2, <1>3, <1>5, <1>7, <2>1
  <1> QED BY <1>6, <1>7

\* A year has 365 days, a leap year one more.
LEMMA YearLength ==
    ASSUME NEW y \in Nat \ {0}
    PROVE  YearStart(y + 1) = YearStart(y) + 365 + (IF IsLeap(y) THEN 1 ELSE 0)
  <1>1. y \div 4 = ((y - 1) \div 4) + (IF y % 4 = 0 THEN 1 ELSE 0)
    OBVIOUS
  <1>2. y \div 100 = ((y - 1) \div 100) + (IF y % 100 = 0 THEN 1 ELSE 0)
    OBVIOUS
  <1>3. y \div 400 = ((y - 1) \div 400) + (IF y % 400 = 0 THEN 1 ELSE 0)
    OBVIOUS
  <1>4. (y % 400 = 0 => y % 100 = 0) /\ (y % 100 = 0 => y % 4 = 0)
    OBVIOUS
  <1>5. (y + 1) - 1 = y /\ (y - 1) \in Nat
    OBVIOUS
  <1> DEFINE a == (y - 1) \div 4
             b == (y - 1) \div 100
             c == (y - 1) \div 400
  <1>6. a \in Nat /\ b \in Nat /\ c \in Nat
    BY <1>5
  <1> HIDE DEF a, b, c
  <1>7. /\ LeapsBefore(y) = a - b + c
        /\ LeapsBefore(y + 1) = a - b + c + (IF IsLeap(y) THEN 1 ELSE 0)
    BY <1>1, <1>2, <1>3, <1>4, <1>5, <1>6 DEF LeapsBefore, IsLeap, a, b, c
  <1>8. LeapsBefore(y) \in Int /\ LeapsBefore(1970) \in Int
    BY DEF LeapsBefore
  <1>9. LeapsBefore(y + 1) = LeapsBefore(y) + (IF IsLeap(y) THEN 1 ELSE 0)
    BY <1>7
  <1> QED BY <1>8, <1>9 DEF YearStart

\* Every day of a year is in a month of it.
LEMMA MonthOfDay ==
    ASSUME NEW d \in 0..LastDay
    PROVE  /\ MonthOf[d] \in 1..12
           /\ MonthStart(YearOf[d], MonthOf[d]) <= d
           /\ d < MonthStart(YearOf[d], MonthOf[d]) + MonthLength(YearOf[d], MonthOf[d])
  <1> DEFINE y == YearOf[d]
             s == YearStart(y)
             P(m) == MonthStart(y, m) <= d /\ d < MonthStart(y, m) + MonthLength(y, m)
  <1>1. y \in Nat \ {0} /\ s <= d /\ d < YearStart(y + 1)
    BY YearOfDay
  <1>2. s \in Int /\ d \in Nat /\ LastDay \in Nat
    BY <1>1, YearStartStep DEF LastDay
  <1>3. d < s + 365 + (IF IsLeap(y) THEN 1 ELSE 0)
    BY <1>1, YearLength
  <1> HIDE DEF y, s
  <1>4. \E m \in 1..12 : P(m)
    <2> DEFINE l == IF IsLeap(y) THEN 1 ELSE 0
    <2>1. /\ MonthStart(y, 1) = s        /\ MonthLength(y, 1) = 31
          /\ MonthStart(y, 2) = s + 31   /\ MonthLength(y, 2) = 28 + l
          /\ MonthStart(y, 3) = s + 59 + l /\ MonthLength(y, 3) = 31
          /\ MonthStart(y, 4) = s + 90 + l /\ MonthLength(y, 4) = 30
          /\ MonthStart(y, 5) = s + 120 + l /\ MonthLength(y, 5) = 31
          /\ MonthStart(y, 6) = s + 151 + l /\ MonthLength(y, 6) = 30
      BY <1>2 DEF MonthStart, MonthLength, DaysBefore, s
    <2>2. /\ MonthStart(y, 7) = s + 181 + l /\ MonthLength(y, 7) = 31
          /\ MonthStart(y, 8) = s + 212 + l /\ MonthLength(y, 8) = 31
          /\ MonthStart(y, 9) = s + 243 + l /\ MonthLength(y, 9) = 30
          /\ MonthStart(y, 10) = s + 273 + l /\ MonthLength(y, 10) = 31
          /\ MonthStart(y, 11) = s + 304 + l /\ MonthLength(y, 11) = 30
          /\ MonthStart(y, 12) = s + 334 + l /\ MonthLength(y, 12) = 31
      BY <1>2 DEF MonthStart, MonthLength, DaysBefore, s
    <2>3. l \in 0..1 /\ d < s + 365 + l /\ s <= d
      BY <1>1, <1>3 DEF s
    <2> HIDE DEF l
    <2>4. P(1) \/ P(2) \/ P(3) \/ P(4) \/ P(5) \/ P(6) \/ P(7) \/ P(8) \/ P(9) \/ P(10)
            \/ P(11) \/ P(12)
      BY <1>2, <2>1, <2>2, <2>3
    <2> HIDE DEF P
    <2> QED BY <2>4
  <1>5. MonthOf[d] = CHOOSE m \in 1..12 : P(m)
    BY <1>2 DEF MonthOf, y
  <1> HIDE DEF P
  <1>6. MonthOf[d] \in 1..12 /\ P(MonthOf[d])
    BY <1>4, <1>5
  <1> QED BY <1>6 DEF P, y

\* The quarter a date is in starts in days that a uint32 can hold, or soon after.
LEMMA QuarterDay ==
    ASSUME NEW t \in Nat, Days(t) <= LastDay
    PROVE  Days(QuarterStart(t)) \in Int /\ Days(QuarterStart(t)) <= LastDay + 366
  <1> DEFINE d == t \div DaySeconds
             y == YearOf[d]
             m == MonthOf[d]
             q == 3 * ((m - 1) \div 3) + 1
             n == MonthStart(y, q)
  <1>1. d \in 0..LastDay
    BY DEF Days, DaySeconds, LastDay
  <1>2. m \in 1..12 /\ y \in Nat \ {0} /\ YearStart(y) <= d /\ YearStart(y) \in Int
    BY <1>1, MonthOfDay, YearOfDay, YearStartStep
  <1>3. QuarterStart(t) = (n + 1 - 1) * DaySeconds
    BY DEF QuarterStart, getYear, getMonth, timestampFromDate
  <1> HIDE DEF y, m, d
  <1>4. q \in {1, 4, 7, 10}
    BY <1>2
  <1>5. n \in Int /\ n <= YearStart(y) + 366
    <2> HIDE DEF q
    <2>1. DaysBefore[1] = 0 /\ DaysBefore[4] = 90 /\ DaysBefore[7] = 181 /\ DaysBefore[10] = 273
      BY DEF DaysBefore
    <2>2. DaysBefore[q] \in 0..273
      BY <1>4, <2>1
    <2> QED BY <1>2, <2>2 DEF MonthStart
  <1> HIDE DEF n
  <1>6. Days(QuarterStart(t)) = n
    BY <1>3, <1>5 DEF Days, DaySeconds
  <1>7. d \in Int /\ d <= LastDay /\ LastDay \in Int
    BY <1>1 DEF LastDay
  <1> HIDE DEF q
  <1>8. n <= LastDay + 366
    <2> DEFINE s == YearStart(y)
    <2>1. s \in Int /\ s <= d /\ n <= s + 366
      BY <1>2, <1>5
    <2> HIDE DEF s
    <2> QED BY <1>5, <1>7, <2>1
  <1> QED BY <1>5, <1>6, <1>8

\* A day number taken as seconds is in the first quarter of 1970, and the next
\* quarter starts 7776000 seconds on.
LEMMA NextQuarterOfDayNumber ==
    ASSUME NEW od \in 0..LastDay
    PROVE  NextQuarter(od) = 7776000
  <1>1. /\ YearStart(1970) = 0 /\ YearStart(1971) = 365 /\ ~ IsLeap(1970)
    BY DEF YearStart, LeapsBefore, IsLeap
  <1>2. /\ MonthStart(1970, 1) = 0 /\ MonthStart(1970, 2) = 31 /\ MonthStart(1970, 3) = 59
        /\ MonthStart(1970, 4) = 90 /\ MonthStart(1970, 5) = 120 /\ MonthStart(1970, 6) = 151
        /\ MonthStart(1970, 7) = 181 /\ MonthStart(1970, 8) = 212 /\ MonthStart(1970, 9) = 243
        /\ MonthStart(1970, 10) = 273 /\ MonthStart(1970, 11) = 304 /\ MonthStart(1970, 12) = 334
        /\ MonthLength(1970, 3) = 31 /\ MonthLength(1970, 2) = 28 /\ MonthLength(1970, 1) = 31
        /\ MonthLength(1970, 4) = 30
    BY <1>1 DEF MonthStart, MonthLength, DaysBefore
  <1>3. 0 \in 0..LastDay /\ 90 \in 0..LastDay
    BY DEF LastDay
  <1>4. YearOf[0] = 1970 /\ YearOf[90] = 1970
    BY <1>1 DEF YearOf
  <1>5. MonthOf[0] = 1
    <2>1. MonthOf[0] \in 1..12 /\ MonthStart(1970, MonthOf[0]) <= 0
      BY <1>3, <1>4, MonthOfDay
    <2> DEFINE m == MonthOf[0]
    <2>2. \/ m = 1 \/ m = 2 \/ m = 3 \/ m = 4 \/ m = 5 \/ m = 6 \/ m = 7 \/ m = 8
          \/ m = 9 \/ m = 10 \/ m = 11 \/ m = 12
      BY <2>1
    <2> HIDE DEF m
    <2> QED BY <1>2, <2>1, <2>2 DEF m
  <1>6. MonthOf[90] = 4
    <2>1. /\ MonthOf[90] \in 1..12 /\ MonthStart(1970, MonthOf[90]) <= 90
          /\ 90 < MonthStart(1970, MonthOf[90]) + MonthLength(1970, MonthOf[90])
      BY <1>3, <1>4, MonthOfDay
    <2> DEFINE m == MonthOf[90]
    <2>2. \/ m = 1 \/ m = 2 \/ m = 3 \/ m = 4 \/ m = 5 \/ m = 6 \/ m = 7 \/ m = 8
          \/ m = 9 \/ m = 10 \/ m = 11 \/ m = 12
      BY <2>1
    <2> HIDE DEF m
    <2> QED BY <1>2, <2>1, <2>2 DEF m
  <1>7. MonthsLater(0, 3) = 90
    <2>1. DayOfMonth(0) = 1
      BY <1>2, <1>4, <1>5 DEF DayOfMonth
    <2>2. Min({1, 30}) = 1
      BY DEF Min
    <2>3. (1 + 3 - 1) \div 12 = 0 /\ ((1 + 3 - 1) % 12) + 1 = 4
      OBVIOUS
    <2> QED BY <1>2, <1>4, <1>5, <2>1, <2>2, <2>3 DEF MonthsLater
  <1>8. od \div DaySeconds = 0 /\ od % DaySeconds = od /\ od \in Nat /\ od < DaySeconds
    <2>1. od \in Nat /\ od <= 49710
      BY DEF LastDay
    <2>2. od \div 86400 = 0
      BY <2>1
    <2>3. od % 86400 = od
      BY <2>1, <2>2
    <2> QED BY <2>1, <2>2, <2>3 DEF DaySeconds
  <1>9. addMonths(od, 3) = 90 * DaySeconds + od
    BY <1>7, <1>8 DEF addMonths
  <1>10. addMonths(od, 3) \div DaySeconds = 90
    BY <1>8, <1>9 DEF DaySeconds
  <1>11. QuarterStart(addMonths(od, 3)) = timestampFromDate(1970, 4, 1)
    <2>1. 3 * ((4 - 1) \div 3) + 1 = 4
      OBVIOUS
    <2> QED BY <1>4, <1>6, <1>10, <2>1 DEF QuarterStart, getYear, getMonth
  <1>12. timestampFromDate(1970, 4, 1) = 7776000
    BY <1>2 DEF timestampFromDate, DaySeconds
  <1> QED BY <1>11, <1>12 DEF NextQuarter

\* A timestamp has a year, and the first of January a timestamp.
LEMMA YearType ==
    ASSUME NEW t \in Nat
    PROVE  getYear(t) \in Int
  <1>1. t \div DaySeconds \in Nat
    BY DEF DaySeconds
  <1>2. \A day \in Nat : YearOf[day] \in Int
    BY DEF YearOf
  <1> QED BY <1>1, <1>2 DEF getYear

LEMMA JanuaryType ==
    ASSUME NEW y \in Int
    PROVE  timestampFromDate(y, 1, 1) \in Int
  <1>1. YearStart(y) \in Int
    BY DEF YearStart, LeapsBefore
  <1>2. MonthStart(y, 1) = YearStart(y) + 0 + 0
    BY DEF MonthStart, DaysBefore
  <1> QED BY <1>1, <1>2 DEF timestampFromDate, DaySeconds

\* The equation of the loop of _compoundAnnual over the n years from first.
Years(g, last, rate, first, n) ==
    g = [y \in (first - 1)..(first - 1 + n) |->
            IF y < first THEN Started(last) ELSE AnnualStep(g[y - 1], y, rate)]

LEMMA YearsExist ==
    ASSUME NEW last, NEW rate, NEW first \in Int, NEW n \in Nat
    PROVE  \E g : Years(g, last, rate, first, n)
  <1> DEFINE P == {m \in Nat : \E g : Years(g, last, rate, first, m)}
  <1>1. 0 \in P
    <2> DEFINE g == [y \in (first - 1)..(first - 1 + 0) |-> Started(last)]
    <2>1. g = [y \in (first - 1)..(first - 1 + 0) |->
                  IF y < first THEN Started(last) ELSE AnnualStep(g[y - 1], y, rate)]
      OBVIOUS
    <2> QED BY <2>1 DEF Years
  <1>2. ASSUME NEW m \in Nat, m \in P PROVE m + 1 \in P
    <2>1. PICK g : Years(g, last, rate, first, m)
      BY <1>2
    <2> DEFINE S == (first - 1)..(first - 1 + m)
               T == (first - 1)..(first - 1 + (m + 1))
               h == [y \in T |->
                        IF y < first THEN Started(last) ELSE AnnualStep(g[y - 1], y, rate)]
    <2>2. \A y \in S : g[y] = IF y < first THEN Started(last)
                              ELSE AnnualStep(g[y - 1], y, rate)
      BY <2>1, Zenon DEF Years
    <2>3. \A y \in S : h[y] = g[y]
      BY <2>2
    <2>4. \A y \in T : ~ (y < first) => y - 1 \in S
      OBVIOUS
    <2>5. \A y \in T : ~ (y < first) => h[y - 1] = g[y - 1]
      BY <2>3, <2>4
    <2>6. h = [y \in T |->
                  IF y < first THEN Started(last) ELSE AnnualStep(h[y - 1], y, rate)]
      <3> DEFINE k == [y \in T |->
                  IF y < first THEN Started(last) ELSE AnnualStep(h[y - 1], y, rate)]
      <3>1. \A y \in T : h[y] = k[y]
        BY <2>5
      <3>2. h = [y \in T |-> h[y]] /\ k = [y \in T |-> k[y]]
        OBVIOUS
      <3> HIDE DEF h, k
      <3>3. h = k
        BY <3>1, <3>2
      <3> QED BY <3>3 DEF k
    <2> HIDE DEF h
    <2>7. Years(h, last, rate, first, m + 1)
      BY <2>6 DEF Years
    <2> QED BY <2>7
  <1> HIDE DEF P
  <1>3. Nat \subseteq P
    BY <1>1, <1>2, NatSetInduction
  <1> QED BY <1>3 DEF P

\* Every prefix of the loop grows what is outstanding, unless it reverts.
LEMMA YearsGrown ==
    ASSUME NEW last \in InterestEntry, NEW rate \in Nat, NEW first \in Int, NEW n \in Nat,
           NEW g, Years(g, last, rate, first, n)
    PROVE  g[first - 1 + n].completes => Grown(last, g[first - 1 + n])
  <1> DEFINE P == {m \in Nat : m <= n =>
                      (g[first - 1 + m].completes => Grown(last, g[first - 1 + m]))}
  <1>g. \A y \in (first - 1)..(first - 1 + n) :
           g[y] = IF y < first THEN Started(last) ELSE AnnualStep(g[y - 1], y, rate)
    BY Zenon DEF Years
  <1>1. 0 \in P
    <2>1. g[first - 1 + 0] = Started(last)
      BY <1>g
    <2> QED BY <2>1, StartedGrown
  <1>2. ASSUME NEW m \in Nat, m \in P PROVE m + 1 \in P
    <2> SUFFICES ASSUME m + 1 <= n, g[first - 1 + (m + 1)].completes
                 PROVE  Grown(last, g[first - 1 + (m + 1)])
      OBVIOUS
    <2> DEFINE y    == first + m
               run  == g[y - 1]
               dt   == run.entry.timestamp
               jan  == timestampFromDate(y, 1, 1)
               days == diffDays(dt, jan)
    <2>1. /\ first - 1 + (m + 1) = y /\ first - 1 + m = y - 1
          /\ y \in (first - 1)..(first - 1 + n) /\ ~ (y < first)
          /\ y \in Int
      OBVIOUS
    <2>2. g[y] = CompoundedTo(run, days, rate, dt, jan)
      BY <1>g, <2>1, Zenon DEF AnnualStep
    <2>3. g[y].completes = (run.completes /\ days \in Nat)
      BY <2>2 DEF CompoundedTo
    <2>4. run.completes /\ days \in Nat
      BY <2>1, <2>3, Zenon
    <2>5. Grown(last, run)
      <3>1. m <= n
        OBVIOUS
      <3> QED BY <1>2, <2>1, <2>4, <3>1
    <2>6. dt \in Nat /\ jan \in Int
      BY <2>1, <2>5, JanuaryType DEF Grown, InterestEntry
    <2> HIDE DEF run, jan, y
    <2>7. jan \in Nat /\ Days(dt) <= Days(jan)
      BY <2>4, <2>6 DEF diffDays, Days, DaySeconds
    <2>8. Days(dt) <= Days(dt)
      BY <2>6, DaysType
    <2>9. Grown(last, CompoundedTo(run, days, rate, dt, jan))
      <3> HIDE DEF days
      <3> QED BY <2>4, <2>5, <2>6, <2>7, <2>8, CompoundedToGrown
    <2> QED BY <2>1, <2>2, <2>9
  <1> HIDE DEF P
  <1>3. Nat \subseteq P
    BY <1>1, <1>2, NatSetInduction
  <1> QED BY <1>3 DEF P

LEMMA AnnualGrown ==
    ASSUME NEW last \in InterestEntry, NEW rate \in Nat, NEW time \in Nat,
           CompoundAnnual(last, rate, time).completes
    PROVE  Grown(last, CompoundAnnual(last, rate, time))
  <1> DEFINE first  == getYear(last.timestamp) + 1
             latest == getYear(time)
             n == latest - first + 1
             g == CHOOSE f : Years(f, last, rate, first, n)
  <1>1. first \in Int /\ latest \in Int
    BY YearType DEF InterestEntry
  <1>2. CASE first <= latest
    <2>1. n \in Nat /\ first - 1 + n = latest
      BY <1>1, <1>2
    <2>2. Years(g, last, rate, first, n)
      <3> HIDE DEF n, first
      <3> QED BY <1>1, <2>1, YearsExist
    <2>3. CompoundAnnual(last, rate, time) = g[latest]
      BY <1>2, <2>1 DEF CompoundAnnual, Years
    <2> HIDE DEF n, first, g, latest
    <2> QED BY <1>1, <2>1, <2>2, <2>3, YearsGrown
  <1>3. CASE ~ (first <= latest)
    <2>1. CompoundAnnual(last, rate, time) = Started(last)
      BY <1>3 DEF CompoundAnnual
    <2> QED BY <2>1, StartedGrown
  <1> QED BY <1>2, <1>3

LEMMA QuarterlyGrown ==
    ASSUME NEW last \in InterestEntry, NEW rate \in Nat, NEW time \in Nat,
           CompoundQuarterly(last, rate, time).completes
    PROVE  Grown(last, CompoundQuarterly(last, rate, time))
  <1> DEFINE od   == Days(last.timestamp)
             oqt  == Days(NextQuarter(last.timestamp))
             nqt  == Days(QuarterStart(time))
             day  == od * DaySeconds
             days == oqt - od
             run  == CompoundQuarterly(last, rate, time)
  <1>1. CASE od <= nqt
    <2>1. run = CompoundedTo(Started(last), days, rate, day, day)
      BY <1>1 DEF CompoundQuarterly
    <2>2. run.completes = (Started(last).completes /\ days \in Nat)
      <3> HIDE DEF od, oqt, nqt, day, days, run
      <3> QED BY <2>1 DEF CompoundedTo
    <2>3. days \in Nat
      BY <2>2, Zenon
    <2>4. last.timestamp \in Nat /\ Started(last).entry = last
      BY DEF InterestEntry, Started
    <2>5. od \in Nat /\ day \in Nat /\ Days(day) = od
      BY <2>4, DaysType DEF Days, DaySeconds
    <2>6. Grown(last, Started(last))
      BY StartedGrown
    <2> HIDE DEF od, day, days, run
    <2>7. Days(last.timestamp) <= Days(day) /\ Days(day) <= Days(day)
      BY <2>5 DEF od
    <2>8. Grown(last, CompoundedTo(Started(last), days, rate, day, day))
      BY <2>3, <2>4, <2>5, <2>6, <2>7, CompoundedToGrown
    <2> QED BY <2>1, <2>8 DEF run
  <1>2. CASE ~ (od <= nqt)
    <2>1. run = Started(last)
      BY <1>2 DEF CompoundQuarterly
    <2> QED BY <2>1, StartedGrown
  <1> QED BY <1>1, <1>2

\* Whichever period the fund compounds by.
LEMMA CompoundingGrown ==
    ASSUME LastInterestEntry \in InterestEntry, NEW cp, NEW rate \in Nat, NEW time \in Nat,
           ComputeCompounding(cp, rate, time).completes
    PROVE  Grown(LastInterestEntry, ComputeCompounding(cp, rate, time))
  <1> DEFINE last == LastInterestEntry
             run  == ComputeCompounding(cp, rate, time)
  <1>1. CASE last.timestamp = 0
    BY <1>1, StartedGrown DEF ComputeCompounding
  <1>2. CASE last.timestamp # 0 /\ cp = ANNUAL_COMPOUNDING
    BY <1>2, AnnualGrown DEF ComputeCompounding
  <1>3. CASE last.timestamp # 0 /\ cp # ANNUAL_COMPOUNDING
    BY <1>3, QuarterlyGrown DEF ComputeCompounding
  <1> QED BY <1>1, <1>2, <1>3

-----------------------------------------------------------------------------
(* What a cash flow makes of the ledger's last entry.                      *)

\* The last entry of the ledger once `pushed` has been appended to it.
LastAfter(last, pushed) == IF pushed = << >> THEN last ELSE pushed[Len(pushed)]

\* Entries that may be appended after `last` without running backwards.
Follows(last, pushed) ==
    /\ pushed \in Seq(InterestEntry)
    /\ InDayOrder(pushed)
    /\ pushed # << >> => Days(last.timestamp) <= Days(pushed[1].timestamp)

\* The entry of the cash flow itself follows those of compounding.
LEMMA FlowEntryLast ==
    ASSUME NEW last \in InterestEntry, NEW run, Grown(last, run), NEW time \in Nat,
           NotEarlier(run.entry, time), NEW e \in InterestEntry, e.timestamp = time
    PROVE  /\ Follows(last, Append(run.pushed, e))
           /\ LastAfter(last, Append(run.pushed, e)) = e
  <1> DEFINE p == run.pushed
             b == run.entry
  <1>1. /\ b \in InterestEntry /\ p \in Seq(InterestEntry) /\ InDayOrder(p)
        /\ Days(last.timestamp) <= Days(b.timestamp)
        /\ p # << >> => /\ Days(last.timestamp) <= Days(p[1].timestamp)
                        /\ Days(p[Len(p)].timestamp) <= Days(b.timestamp)
    BY DEF Grown
  <1>2. b.timestamp \in Nat /\ last.timestamp \in Nat
    BY <1>1 DEF InterestEntry
  <1>3. Days(b.timestamp) \in Nat /\ Days(time) \in Nat /\ Days(last.timestamp) \in Nat
    BY <1>2, DaysType
  <1>4. Days(b.timestamp) <= Days(time)
    <2>1. CASE b.timestamp > 0
      BY <2>1 DEF NotEarlier
    <2>2. CASE b.timestamp = 0
      <3>1. Days(b.timestamp) = 0
        BY <2>2 DEF Days, DaySeconds
      <3> QED BY <1>3, <3>1
    <2> QED BY <1>2, <2>1, <2>2
  <1>5. p # << >> => Days(p[Len(p)].timestamp) \in Nat
    <2>1. p # << >> => p[Len(p)] \in InterestEntry
      BY <1>1
    <2>2. p # << >> => p[Len(p)].timestamp \in Nat
      BY <2>1 DEF InterestEntry
    <2> QED BY <2>2, DaysType
  <1> HIDE DEF p, b
  <1>6. InDayOrder(Append(p, e))
    <2>1. p # << >> => Days(p[Len(p)].timestamp) <= Days(e.timestamp)
      BY <1>1, <1>3, <1>4, <1>5
    <2> QED BY <1>1, <2>1, OrderAppend
  <1>7. /\ Append(p, e) \in Seq(InterestEntry) /\ Append(p, e) # << >>
        /\ Append(p, e)[Len(Append(p, e))] = e
        /\ Append(p, e)[1] = IF p = << >> THEN e ELSE p[1]
    <2>1. p \in Seq(InterestEntry)
      BY <1>1
    <2> QED BY <2>1, AppendEnds
  <1>8. Days(last.timestamp) <= Days(Append(p, e)[1].timestamp)
    BY <1>1, <1>3, <1>4, <1>7
  <1> QED BY <1>6, <1>7, <1>8 DEF Follows, LastAfter, p

\* _addInflow: the amount is added to the capital and to the total.
LEMMA InflowGrows ==
    ASSUME NEW last \in InterestEntry, NEW run, Grown(last, run),
           NEW amount \in Nat, NEW rate \in Nat, NEW time \in Nat,
           NEW flow, flow = InflowAfter(run, amount, rate, time), flow.completes
    PROVE  /\ Follows(last, flow.pushed)
           /\ LastAfter(last, flow.pushed) \in InterestEntry
           /\ LastAfter(last, flow.pushed).timestamp = time
           /\ LastAfter(last, flow.pushed).capital = last.capital + amount
           /\ LastAfter(last, flow.pushed).totalCashFlow >= last.totalCashFlow + amount
  <1> DEFINE acc == Accrued(run.entry, time)
             tcf == acc + amount
             e   == Entry(time, run.entry.capital + amount, DailyInterest(tcf, rate), tcf)
  <1>1. /\ flow.completes = Computed(run, time)
        /\ flow.pushed = Append(run.pushed, e)
    BY Zenon DEF InflowAfter
  <1>2. NotEarlier(run.entry, time) /\ run.entry \in InterestEntry
    BY <1>1, Zenon DEF Computed
  <1>3. /\ run.entry.capital = last.capital
        /\ run.entry.totalCashFlow >= last.totalCashFlow
    BY DEF Grown
  <1>4. /\ run.entry.capital \in Nat /\ run.entry.totalCashFlow \in Nat
        /\ last.totalCashFlow \in Nat /\ last.capital \in Nat
    BY <1>2 DEF InterestEntry
  <1>5. acc \in Nat /\ acc >= run.entry.totalCashFlow
    BY <1>2, AccruedType
  <1> HIDE DEF acc
  <1>6. tcf \in Nat /\ tcf >= last.totalCashFlow + amount
    BY <1>3, <1>4, <1>5
  <1> HIDE DEF tcf
  <1>7. run.entry.capital + amount \in Nat /\ DailyInterest(tcf, rate) \in Nat
    <2>1. DailyInterest(tcf, rate) \in Nat
      BY <1>6, DailyInterestType
    <2> QED BY <1>4, <2>1
  <1>8. /\ e \in InterestEntry /\ e.timestamp = time
        /\ e.capital = run.entry.capital + amount /\ e.totalCashFlow = tcf
    BY <1>6, <1>7 DEF Entry, InterestEntry
  <1> HIDE DEF e
  <1>9. Follows(last, Append(run.pushed, e)) /\ LastAfter(last, Append(run.pushed, e)) = e
    BY <1>2, <1>8, FlowEntryLast
  <1> QED BY <1>1, <1>3, <1>6, <1>8, <1>9

\* What a cash flow pays out when acc has accrued since the last entry.
PaysOut(last, flow, amount, time, acc) ==
    LET paid == Payout(amount, last.capital, acc)
        new  == LastAfter(last, flow.pushed)
    IN  /\ acc >= last.totalCashFlow
        /\ paid.completes
        /\ flow.remaining = paid.remaining
        /\ flow.capitalPaid = paid.capitalPaid
        /\ flow.interestPaid = paid.interestPaid
        /\ Follows(last, flow.pushed)
        /\ new \in InterestEntry
        /\ new.timestamp = time
        /\ new.capital = paid.capital
        /\ new.totalCashFlow = paid.totalCashFlow

\* _addOutflow with something outstanding: a payout out of what has accrued,
\* recorded as the last entry.
LEMMA OutflowPays ==
    ASSUME NEW last \in InterestEntry, NEW run, Grown(last, run),
           NEW amount \in Nat, NEW rate \in Nat, NEW time \in Nat,
           NEW flow, flow = OutflowAfter(run, amount, rate, time), flow.completes,
           run.entry.timestamp > 0, run.entry.totalCashFlow > 0
    PROVE  \E acc \in Nat : PaysOut(last, flow, amount, time, acc)
  <1> DEFINE acc  == Accrued(run.entry, time)
             paid == Payout(amount, last.capital, acc)
             e    == Entry(time, paid.capital, DailyInterest(paid.totalCashFlow, rate),
                           paid.totalCashFlow)
  <1>1. /\ run.entry.capital = last.capital
        /\ run.entry.totalCashFlow >= last.totalCashFlow
    BY DEF Grown
  <1>2. flow = OutflowPaid(run, paid, rate, time)
    BY <1>1 DEF OutflowAfter
  <1> HIDE DEF paid
  <1>3. /\ flow.completes = (Computed(run, time) /\ paid.completes)
        /\ flow.pushed = Append(run.pushed, e)
        /\ flow.remaining = paid.remaining
        /\ flow.capitalPaid = paid.capitalPaid
        /\ flow.interestPaid = paid.interestPaid
    <2> DEFINE out == OutflowPaid(run, paid, rate, time)
    <2>1. out.completes = (Computed(run, time) /\ paid.completes)
      BY DEF OutflowPaid
    <2>2. /\ out.pushed = Append(run.pushed, e) /\ out.remaining = paid.remaining
          /\ out.capitalPaid = paid.capitalPaid /\ out.interestPaid = paid.interestPaid
      BY DEF OutflowPaid
    <2> HIDE DEF out, e
    <2> QED BY <1>2, <2>1, <2>2, Zenon DEF out
  <1>4. NotEarlier(run.entry, time) /\ run.entry \in InterestEntry /\ paid.completes
    BY <1>3, Zenon DEF Computed
  <1>5. /\ run.entry.totalCashFlow \in Nat /\ last.totalCashFlow \in Nat /\ last.capital \in Nat
    BY <1>4 DEF InterestEntry
  <1>6. acc \in Nat /\ acc >= run.entry.totalCashFlow
    BY <1>4, AccruedType
  <1> HIDE DEF acc
  <1>7. acc >= last.totalCashFlow
    BY <1>1, <1>5, <1>6
  <1>8. paid.capital \in Nat /\ paid.totalCashFlow \in Nat
    BY <1>4, <1>5, <1>6, PayoutAddsUp DEF paid
  <1>9. /\ e \in InterestEntry /\ e.timestamp = time
        /\ e.capital = paid.capital /\ e.totalCashFlow = paid.totalCashFlow
    BY <1>8, DailyInterestType DEF Entry, InterestEntry
  <1> HIDE DEF e
  <1>10. Follows(last, Append(run.pushed, e)) /\ LastAfter(last, Append(run.pushed, e)) = e
    BY <1>4, <1>9, FlowEntryLast
  <1>11. PaysOut(last, flow, amount, time, acc)
    BY <1>3, <1>4, <1>7, <1>9, <1>10 DEF paid, PaysOut
  <1> QED BY <1>6, <1>11

\* _addOutflow with nothing outstanding: what compounding pushed is recorded.
LEMMA OutflowPasses ==
    ASSUME NEW last \in InterestEntry, NEW run, Grown(last, run),
           NEW amount \in Nat, NEW rate \in Nat, NEW time \in Nat,
           NEW flow, flow = OutflowAfter(run, amount, rate, time), flow.completes,
           ~ (run.entry.timestamp > 0 /\ run.entry.totalCashFlow > 0)
    PROVE  /\ flow.remaining = amount /\ flow.capitalPaid = 0 /\ flow.interestPaid = 0
           /\ Follows(last, flow.pushed)
           /\ LastAfter(last, flow.pushed) \in InterestEntry
           /\ Days(last.timestamp) <= Days(LastAfter(last, flow.pushed).timestamp)
           /\ LastAfter(last, flow.pushed).capital = last.capital
           /\ LastAfter(last, flow.pushed).totalCashFlow = run.entry.totalCashFlow
  <1> DEFINE p == run.pushed
  <1>1. flow = OutflowUntouched(run, amount)
    BY DEF OutflowAfter
  <1>2. /\ flow.remaining = amount /\ flow.capitalPaid = 0 /\ flow.interestPaid = 0
        /\ flow.pushed = p
    BY <1>1 DEF OutflowUntouched
  <1>3. /\ p \in Seq(InterestEntry) /\ InDayOrder(p)
        /\ run.entry.capital = last.capital
        /\ p = << >> => run.entry = last
        /\ p # << >> =>
              /\ Days(last.timestamp) <= Days(p[1].timestamp)
              /\ Days(last.timestamp) <= Days(p[Len(p)].timestamp)
              /\ p[Len(p)].capital = run.entry.capital
              /\ p[Len(p)].totalCashFlow = run.entry.totalCashFlow
    BY DEF Grown
  <1>4. p # << >> => p[Len(p)] \in InterestEntry
    BY <1>3
  <1>5. Days(last.timestamp) <= Days(last.timestamp)
    <2>1. last.timestamp \in Nat
      BY DEF InterestEntry
    <2> QED BY <2>1, DaysType
  <1> HIDE DEF p
  <1>6. Follows(last, p)
    BY <1>3 DEF Follows
  <1>7. /\ LastAfter(last, p) \in InterestEntry
        /\ Days(last.timestamp) <= Days(LastAfter(last, p).timestamp)
        /\ LastAfter(last, p).capital = last.capital
        /\ LastAfter(last, p).totalCashFlow = run.entry.totalCashFlow
    BY <1>3, <1>4, <1>5 DEF LastAfter
  <1> QED BY <1>2, <1>6, <1>7

=============================================================================
