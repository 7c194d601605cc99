---------------------- MODULE InterestReferenceProofs ----------------------
(***************************************************************************)
(* Annual compounding as the contract computes it, year by year, against   *)
(* the definition day by day.                                              *)
(***************************************************************************)
EXTENDS InterestReference, InterestLemmas

(* The calendar.                                                           *)

LEMMA OneYear ==
    ASSUME NEW d \in Int, NEW y \in Nat \ {0}, NEW z \in Nat \ {0},
           YearStart(y) <= d, d < YearStart(y + 1), YearStart(z) <= d, d < YearStart(z + 1)
    PROVE  y = z
  <1>1. CASE y < z
    <2>1. YearStart(y + 1) <= YearStart(z) /\ YearStart(y + 1) \in Int /\ YearStart(z) \in Int
      BY <1>1, YearStartMonotone
    <2> QED BY <2>1
  <1>2. CASE z < y
    <2>1. YearStart(z + 1) <= YearStart(y) /\ YearStart(z + 1) \in Int /\ YearStart(y) \in Int
      BY <1>2, YearStartMonotone
    <2> QED BY <2>1
  <1> QED BY <1>1, <1>2

\* The day after a day is in the same year, or the first day of the next.
LEMMA NextDay ==
    ASSUME NEW d \in Nat, d + 1 <= LastDay
    PROVE  \/ YearOf[d + 1] = YearOf[d] /\ d + 1 # YearStart(YearOf[d + 1])
           \/ YearOf[d + 1] = YearOf[d] + 1 /\ d + 1 = YearStart(YearOf[d + 1])
  <1> DEFINE y == YearOf[d]
             z == YearOf[d + 1]
  <1>1. d \in 0..LastDay /\ d + 1 \in 0..LastDay
    <2>1. LastDay \in Nat
      BY DEF LastDay
    <2> QED BY <2>1
  <1>2. y \in Nat \ {0} /\ YearStart(y) <= d /\ d < YearStart(y + 1)
    BY <1>1, YearOfDay
  <1>3. z \in Nat \ {0} /\ YearStart(z) <= d + 1 /\ d + 1 < YearStart(z + 1)
    BY <1>1, YearOfDay
  <1> HIDE DEF y, z
  <1>4. /\ YearStart(y) \in Int /\ YearStart(y + 1) \in Int /\ YearStart(y + 1) < YearStart(y + 2)
        /\ YearStart(y + 2) \in Int
    <2>1. y + 1 \in Nat \ {0} /\ y + 2 = (y + 1) + 1
      BY <1>2
    <2> QED BY <1>2, <2>1, YearStartStep
  <1>5. CASE d + 1 < YearStart(y + 1)
    <2>1. z = y
      <3>1. YearStart(y) <= d + 1
        BY <1>2, <1>4
      <3> QED BY <1>2, <1>3, <1>5, <3>1, OneYear
    <2>2. d + 1 # YearStart(y)
      BY <1>2, <1>4
    <2> QED BY <2>1, <2>2 DEF y, z
  <1>6. CASE d + 1 = YearStart(y + 1)
    <2>1. y + 1 \in Nat \ {0} /\ d + 1 < YearStart((y + 1) + 1)
      BY <1>2, <1>4, <1>6
    <2>2. z = y + 1
      BY <1>3, <1>6, <2>1, OneYear
    <2> QED BY <1>6, <2>2 DEF y, z
  <1> QED BY <1>2, <1>4, <1>5, <1>6

\* 1 January of a year, in seconds.
LEMMA JanuaryFirst ==
    ASSUME NEW y \in Nat \ {0}
    PROVE  timestampFromDate(y, 1, 1) = YearStart(y) * DaySeconds
  <1>1. MonthStart(y, 1) = YearStart(y) + 0 + 0
    BY DEF MonthStart, DaysBefore
  <1>2. YearStart(y) \in Int
    BY YearStartStep
  <1> QED BY <1>1, <1>2 DEF timestampFromDate, DaySeconds

-----------------------------------------------------------------------------
(* The loop over years.                                                    *)

LEMMA DailyMonotone ==
    ASSUME NEW m \in Nat, NEW n \in Nat, NEW r \in Nat, m <= n
    PROVE  DailyInterest(m, r) <= DailyInterest(n, r)
  <1> DEFINE a == m * r
             b == n * r
  <1>1. a \in Nat /\ b \in Nat /\ a <= b
    <2> DEFINE c == n - m
    <2>1. c \in Nat /\ n = m + c
      OBVIOUS
    <2> HIDE DEF c
    <2>2. (m + c) * r = m * r + c * r /\ m * r \in Nat /\ c * r \in Nat
      BY <2>1
    <2> QED BY <2>1, <2>2
  <1>2. scale \in Nat \ {0}
    BY InterestAssumption
  <1> HIDE DEF a, b
  <1>3. a \div scale \in Nat /\ b \div scale \in Nat /\ a \div scale <= b \div scale
    BY <1>1, <1>2
  <1> DEFINE p == a \div scale
             q == b \div scale
  <1> HIDE DEF p, q
  <1>4. p \div 1000 <= q \div 1000
    BY <1>3 DEF p, q
  <1> QED BY <1>4 DEF DailyInterest, a, b, p, q

\* Two runs of the loop from the same entry agree as far as both go.
LEMMA YearsAgree ==
    ASSUME NEW last, NEW rte, NEW first \in Int, NEW n \in Nat, NEW k \in Nat, n <= k,
           NEW g, NEW h, Years(g, last, rte, first, n), Years(h, last, rte, first, k)
    PROVE  g[first - 1 + n] = h[first - 1 + n]
  <1> DEFINE P == {m \in Nat : m <= n => g[first - 1 + m] = h[first - 1 + m]}
  <1>g. \A y \in (first - 1)..(first - 1 + n) :
           g[y] = IF y < first THEN Started(last) ELSE AnnualStep(g[y - 1], y, rte)
    BY Zenon DEF Years
  <1>h. \A y \in (first - 1)..(first - 1 + k) :
           h[y] = IF y < first THEN Started(last) ELSE AnnualStep(h[y - 1], y, rte)
    BY Zenon DEF Years
  <1>1. 0 \in P
    BY <1>g, <1>h
  <1>2. ASSUME NEW m \in Nat, m \in P PROVE m + 1 \in P
    <2> SUFFICES ASSUME m + 1 <= n PROVE g[first - 1 + (m + 1)] = h[first - 1 + (m + 1)]
      OBVIOUS
    <2> DEFINE y == first + m
    <2>1. /\ y = first - 1 + (m + 1) /\ y - 1 = first - 1 + m /\ ~ (y < first)
          /\ y \in (first - 1)..(first - 1 + n) /\ y \in (first - 1)..(first - 1 + k)
      OBVIOUS
    <2>2. g[y - 1] = h[y - 1]
      BY <1>2, <2>1
    <2> HIDE DEF y
    <2> QED BY <1>g, <1>h, <2>1, <2>2
  <1> HIDE DEF P
  <1>3. Nat \subseteq P
    BY <1>1, <1>2, NatSetInduction
  <1> QED BY <1>3 DEF P

\* Carrying an entry into the next year is one more run through the loop.
LEMMA AnnualNextYear ==
    ASSUME NEW last, NEW rte, NEW t, NEW u, NEW a \in Int, NEW b \in Int,
           a = getYear(last.timestamp), b = getYear(t), a <= b, getYear(u) = b + 1
    PROVE  CompoundAnnual(last, rte, u)
             = AnnualStep(CompoundAnnual(last, rte, t), b + 1, rte)
  <1> DEFINE first == a + 1
             n == b - a
             h == CHOOSE f : Years(f, last, rte, first, n + 1)
             g == CHOOSE f : Years(f, last, rte, first, n)
  <1>1. n \in Nat /\ n + 1 \in Nat /\ first \in Int /\ n <= n + 1
    OBVIOUS
  <1> HIDE DEF n, first
  <1>2. Years(h, last, rte, first, n + 1) /\ Years(g, last, rte, first, n)
    BY <1>1, YearsExist, Zenon
  <1>3. /\ first = a + 1 /\ first - 1 = a /\ first - 1 + n = b
        /\ first - 1 + (n + 1) = b + 1 /\ first <= b + 1
    BY DEF n, first
  <1>4. CompoundAnnual(last, rte, u) = h[b + 1]
    BY <1>3 DEF CompoundAnnual, Years
  <1>5. g[b] = h[b]
    <2> HIDE DEF g, h
    <2>1. g[first - 1 + n] = h[first - 1 + n]
      BY <1>1, <1>2, YearsAgree
    <2> QED BY <1>3, <2>1
  <1>6. CompoundAnnual(last, rte, t) = g[b]
    <2>1. CASE first <= b
      BY <1>3, <2>1 DEF CompoundAnnual, Years
    <2>2. CASE ~ (first <= b)
      <3>1. CompoundAnnual(last, rte, t) = Started(last)
        BY <1>3, <2>2 DEF CompoundAnnual
      <3>2. b < first /\ b \in (first - 1)..(first - 1 + n)
        BY <1>1, <1>3, <2>2
      <3> HIDE DEF g
      <3>3. g[b] = Started(last)
        BY <1>2, <3>2 DEF Years
      <3> QED BY <3>1, <3>3
    <2> QED BY <2>1, <2>2
  <1>7. h[b + 1] = AnnualStep(h[b], b + 1, rte)
    <2> HIDE DEF h
    <2>1. \A y \in (first - 1)..(first - 1 + (n + 1)) :
             h[y] = IF y < first THEN Started(last) ELSE AnnualStep(h[y - 1], y, rte)
      BY <1>2, Zenon DEF Years
    <2>2. /\ b + 1 \in (first - 1)..(first - 1 + (n + 1)) /\ ~ (b + 1 < first)
          /\ (b + 1) - 1 = b
      BY <1>1, <1>3
    <2> QED BY <2>1, <2>2
  <1> QED BY <1>4, <1>5, <1>6, <1>7

\* Within a year, an entry stays what the last first of January made of it.
LEMMA AnnualSameYear ==
    ASSUME NEW last, NEW rte, NEW t, NEW u, getYear(u) = getYear(t)
    PROVE  CompoundAnnual(last, rte, u) = CompoundAnnual(last, rte, t)
  BY DEF CompoundAnnual

\* The entry u that the end of day d, the last of a year, makes of the entry t:
\* the interest of the whole days is added, so that a day on which the entry
\* was made after midnight is left out.
CarriedOver(t, u, d, rte) ==
    /\ u \in InterestEntry
    /\ u.timestamp = (d + 1) * DaySeconds
    /\ u.totalCashFlow = t.totalCashFlow
           + t.daily * (IF t.timestamp % DaySeconds = 0
                        THEN (d + 1) - Days(t.timestamp) ELSE d - Days(t.timestamp))
    /\ u.daily = DailyInterest(u.totalCashFlow, rte)

\* The whole days from a time to a later midnight.
LEMMA WholeDays ==
    ASSUME NEW dt \in Nat, NEW d \in Nat, Days(dt) <= d
    PROVE  /\ ((d + 1) * DaySeconds - dt) \div DaySeconds
                 = (IF dt % DaySeconds = 0 THEN (d + 1) - Days(dt) ELSE d - Days(dt))
           /\ (IF dt % DaySeconds = 0 THEN (d + 1) - Days(dt) ELSE d - Days(dt)) \in Nat
  <1> DEFINE q == dt \div 86400
             r == dt % 86400
  <1>1. q \in Nat /\ r \in 0..86399 /\ dt = 86400 * q + r
    OBVIOUS
  <1>2. q <= d /\ Days(dt) = q
    BY DEF Days, DaySeconds
  <1> HIDE DEF q
  <1>3. CASE r = 0
    <2> HIDE DEF r
    <2>1. (d + 1) * 86400 - dt = 86400 * ((d + 1) - q)
      BY <1>1, <1>3
    <2>2. (86400 * ((d + 1) - q)) \div 86400 = (d + 1) - q
      BY <1>1
    <2>3. (d + 1) - q \in Nat
      BY <1>1, <1>2
    <2> QED BY <1>2, <1>3, <2>1, <2>2, <2>3 DEF r, DaySeconds
  <1>4. CASE r # 0
    <2> HIDE DEF r
    <2>1. (d + 1) * 86400 - dt = 86400 * (d - q) + (86400 - r)
      BY <1>1
    <2>2. (86400 * (d - q) + (86400 - r)) \div 86400 = d - q
      BY <1>1, <1>4
    <2>3. d - q \in Nat
      BY <1>1, <1>2
    <2> QED BY <1>2, <1>4, <2>1, <2>2, <2>3 DEF r, DaySeconds
  <1> QED BY <1>3, <1>4

LEMMA YearTurns ==
    ASSUME NEW run, NEW y \in Nat \ {0}, NEW d \in Nat, NEW rte \in Nat,
           run.entry \in InterestEntry, d + 1 = YearStart(y), Days(run.entry.timestamp) <= d
    PROVE  CarriedOver(run.entry, AnnualStep(run, y, rte).entry, d, rte)
  <1> DEFINE e   == run.entry
             dt  == e.timestamp
             jan == timestampFromDate(y, 1, 1)
             m   == diffDays(dt, jan)
             n   == IF dt % DaySeconds = 0 THEN (d + 1) - Days(dt) ELSE d - Days(dt)
             new == AnnualStep(run, y, rte).entry
             tcf == e.totalCashFlow + e.daily * m
  <1>1. /\ dt \in Nat /\ e.totalCashFlow \in Nat /\ e.daily \in Nat /\ e.capital \in Nat
    BY DEF InterestEntry
  <1>2. jan = (d + 1) * DaySeconds
    BY JanuaryFirst
  <1> HIDE DEF jan, dt
  <1>3. m = n /\ n \in Nat
    BY <1>1, <1>2, WholeDays, Zenon DEF diffDays, dt
  <1>4. new = Entry(jan, e.capital, DailyInterest(tcf, rte), tcf)
    BY DEF AnnualStep, CompoundedTo, jan, dt
  <1> HIDE DEF n, m, e, new
  <1>5. tcf \in Nat
    BY <1>1, <1>3
  <1>6. jan \in Nat
    BY <1>2 DEF DaySeconds
  <1> HIDE DEF tcf
  <1>7. new \in InterestEntry
    BY <1>1, <1>4, <1>5, <1>6, DailyInterestType DEF Entry, InterestEntry
  <1>8. /\ new.timestamp = jan /\ new.totalCashFlow = tcf
        /\ new.daily = DailyInterest(tcf, rte)
    BY <1>4 DEF Entry
  <1> QED BY <1>2, <1>3, <1>7, <1>8 DEF CarriedOver, tcf, n, m, e, new, dt

-----------------------------------------------------------------------------
(* The machine of InterestReference.                                       *)

NoonOf(d) == d * DaySeconds + DaySeconds \div 2

\* The entry the contract has computed when it adds the days up to d.
Tally(d) == CompoundAnnual(LastInterestEntry, rate, NoonOf(d)).entry

\* One entry, made at a time that is not zero, and a day a uint32 can hold.
RefTypeOK ==
    /\ \E e \in InterestEntry : e.timestamp # 0 /\ interestEntries = <<e>>
    /\ rate \in Nat /\ day \in Nat /\ total \in Nat /\ daily \in Nat
    /\ FirstDay <= day /\ day <= FirstDay + Horizon /\ FirstDay + Horizon < LastDay

\* What the entry t has reached on day d.
Reached(t, d) == t.totalCashFlow + t.daily * (d - Days(t.timestamp))

\* The contract's tally and the reference agree, or the tally is behind in
\* total and in daily interest; and what a year ends with starts at midnight.
TallyKeepsUp ==
    LET t == Tally(day) IN
    /\ t \in InterestEntry /\ t.timestamp # 0 /\ Days(t.timestamp) <= day
    /\ AtMidnight \/ ~ SameYear => t.timestamp % DaySeconds = 0
    /\ AtMidnight \/ SameYear => Reached(t, day) = total /\ t.daily = daily
    /\ Reached(t, day) <= total /\ t.daily <= daily

RefInv == RefTypeOK /\ TallyKeepsUp

LEMMA DayOfNoon ==
    ASSUME NEW d \in Nat
    PROVE  /\ NoonOf(d) \in Nat /\ Days(NoonOf(d)) = d
           /\ getYear(NoonOf(d)) = YearOf[d] /\ getYear(d * DaySeconds) = YearOf[d]
  <1>1. /\ NoonOf(d) \in Nat /\ NoonOf(d) \div DaySeconds = d
        /\ (d * DaySeconds) \div DaySeconds = d
    BY DEF NoonOf, DaySeconds
  <1> QED BY <1>1 DEF Days, getYear

LEMMA EntryParts ==
    ASSUME NEW e \in InterestEntry
    PROVE  /\ e.timestamp \in Nat /\ e.capital \in Nat /\ e.daily \in Nat
           /\ e.totalCashFlow \in Nat
  BY DEF InterestEntry

LEMMA OneEntry ==
    ASSUME NEW e, interestEntries = <<e>>
    PROVE  LastInterestEntry = e
  BY DEF LastInterestEntry

\* In the year of the entry the contract has not compounded yet.
LEMMA TallyOfFirstYear ==
    ASSUME LastInterestEntry \in InterestEntry, day \in Nat, SameYear
    PROVE  Tally(day) = LastInterestEntry
  <1> DEFINE last == LastInterestEntry
             y == getYear(last.timestamp)
  <1>1. y \in Int
    BY YearType, EntryParts
  <1>2. getYear(NoonOf(day)) = y
    BY DayOfNoon DEF SameYear
  <1> HIDE DEF last, y
  <1>3. CompoundAnnual(last, rate, NoonOf(day)) = Started(last)
    BY <1>1, <1>2 DEF CompoundAnnual, last, y
  <1> QED BY <1>3 DEF Tally, Started, last

LEMMA InitRefInv == Init => RefInv
  <1> SUFFICES ASSUME Init PROVE RefInv
    OBVIOUS
  <1>1. PICK t \in EntryTimes, c \in Capitals, i \in Interests :
           interestEntries = <<Entry(t, c, DailyInterest(c + i, rate), c + i)>>
    BY DEF Init
  <1> DEFINE e == Entry(t, c, DailyInterest(c + i, rate), c + i)
  <1>2. /\ t \in Nat \ {0} /\ c \in Nat /\ i \in Nat /\ c + i \in Nat /\ rate \in Nat
        /\ Horizon \in Nat /\ Days(t) + Horizon < LastDay
    BY ReferenceAssumption DEF Init
  <1>3. DailyInterest(c + i, rate) \in Nat
    BY <1>2, DailyInterestType
  <1>4. e \in InterestEntry /\ e.timestamp = t
    BY <1>2, <1>3 DEF Entry, InterestEntry
  <1> HIDE DEF e
  <1>5. LastInterestEntry = e
    BY <1>1, OneEntry DEF e
  <1>6. /\ e.timestamp # 0 /\ e.daily \in Nat /\ e.totalCashFlow \in Nat /\ Days(t) \in Nat
    BY <1>2, <1>4, DaysType, EntryParts
  <1>7. day = Days(t) /\ total = e.totalCashFlow /\ daily = e.daily /\ FirstDay = Days(t)
    BY <1>4, <1>5 DEF Init, FirstDay
  <1>8. RefTypeOK
    <2>1. FirstDay <= day /\ day <= FirstDay + Horizon
      BY <1>2, <1>6, <1>7
    <2>2. interestEntries = <<e>>
      BY <1>1 DEF e
    <2> QED BY <1>2, <1>4, <1>6, <1>7, <2>1, <2>2 DEF RefTypeOK
  <1>9. SameYear
    <2>1. getYear(t) = YearOf[Days(t)]
      BY DEF getYear, Days
    <2> QED BY <1>4, <1>5, <1>6, <1>7, <2>1, DayOfNoon DEF SameYear
  <1>10. Tally(day) = e
    BY <1>4, <1>5, <1>6, <1>7, <1>9, TallyOfFirstYear
  <1>11. Reached(e, day) = total
    BY <1>4, <1>6, <1>7 DEF Reached
  <1>12. TallyKeepsUp
    <2>1. Days(e.timestamp) <= day /\ Reached(e, day) <= total /\ e.daily <= daily
      BY <1>4, <1>6, <1>7, <1>11
    <2>2. AtMidnight => e.timestamp % DaySeconds = 0
      BY <1>5 DEF AtMidnight
    <2> QED BY <1>4, <1>6, <1>7, <1>9, <1>10, <1>11, <2>1, <2>2 DEF TallyKeepsUp
  <1> QED BY <1>8, <1>12 DEF RefInv

LEMMA YearOfMonotone ==
    ASSUME NEW d \in 0..LastDay, NEW f \in 0..LastDay, d <= f
    PROVE  YearOf[d] \in Nat \ {0} /\ YearOf[f] \in Nat \ {0} /\ YearOf[d] <= YearOf[f]
  <1> DEFINE y == YearOf[d]
             z == YearOf[f]
  <1>1. /\ y \in Nat \ {0} /\ YearStart(y) <= d
        /\ z \in Nat \ {0} /\ f < YearStart(z + 1)
    BY YearOfDay
  <1> HIDE DEF y, z
  <1>2. CASE z < y
    <2>1. /\ z + 1 \in Nat \ {0} /\ YearStart(z + 1) <= YearStart(y)
          /\ YearStart(z + 1) \in Int /\ YearStart(y) \in Int
      BY <1>1, <1>2, YearStartMonotone
    <2> QED BY <1>1, <2>1
  <1> QED BY <1>1, <1>2 DEF y, z

\* What the entry t has reached the day after.
LEMMA ReachedTomorrow ==
    ASSUME NEW t \in InterestEntry, NEW d \in Nat
    PROVE  Reached(t, d + 1) = Reached(t, d) + t.daily /\ Reached(t, d) \in Int
  <1> DEFINE f == Days(t.timestamp)
             k == t.daily
             c == t.totalCashFlow
  <1>1. k \in Nat /\ c \in Nat /\ f \in Nat
    BY EntryParts, DaysType
  <1>2. Reached(t, d + 1) = c + k * ((d + 1) - f) /\ Reached(t, d) = c + k * (d - f)
    BY DEF Reached
  <1> HIDE DEF f, k, c
  <1>3. k * ((d + 1) - f) = k * (d - f) + k /\ k * (d - f) \in Int
    BY <1>1
  <1>4. c + (k * (d - f) + k) = (c + k * (d - f)) + k /\ c + k * (d - f) \in Int
    BY <1>1, <1>3
  <1> QED BY <1>2, <1>3, <1>4 DEF k

LEMMA PeriodIsYear ==
    ASSUME NEW d \in Nat, d <= LastDay, compoundingInterval = ANNUAL_COMPOUNDING
    PROVE  StartsPeriod(d) <=> d = YearStart(YearOf[d])
  <1> DEFINE y == YearOf[d]
  <1>1. y \in Nat \ {0}
    <2>0. LastDay \in Nat
      BY DEF LastDay
    <2>1. d \in 0..LastDay
      BY <2>0
    <2> QED BY <2>1, YearOfDay
  <1>2. YearStart(y) \in Int /\ timestampFromDate(y, 1, 1) = YearStart(y) * DaySeconds
    BY <1>1, YearStartStep, JanuaryFirst
  <1>3. StartsPeriod(d) <=> d * DaySeconds = timestampFromDate(y, 1, 1)
    BY DayOfNoon DEF StartsPeriod, PeriodMonths
  <1> HIDE DEF y
  <1>4. d * DaySeconds = YearStart(y) * DaySeconds <=> d = YearStart(y)
    BY <1>2 DEF DaySeconds
  <1> QED BY <1>2, <1>3, <1>4 DEF y

LEMMA DayPassesRefInv ==
    ASSUME RefInv, DayPasses, compoundingInterval = ANNUAL_COMPOUNDING
    PROVE  RefInv'
  <1>a. PICK e \in InterestEntry : e.timestamp # 0 /\ interestEntries = <<e>>
    BY DEF RefInv, RefTypeOK
  <1>b. LastInterestEntry = e /\ LastInterestEntry' = e /\ rate' = rate /\ rate \in Nat
    <2>1. interestEntries' = <<e>>
      BY <1>a DEF DayPasses
    <2>2. LastInterestEntry' = e
      BY <2>1 DEF LastInterestEntry
    <2> QED BY <1>a, <2>2, OneEntry DEF DayPasses, RefInv, RefTypeOK
  <1> DEFINE y == YearOf[day]
             z == YearOf[day + 1]
             f == Days(e.timestamp)
  <1>r. PICK run : run = CompoundAnnual(e, rate, NoonOf(day))
    OBVIOUS
  <1>t. PICK t : t = run.entry
    OBVIOUS
  <1>u. PICK u : u = CompoundAnnual(e, rate, NoonOf(day + 1)).entry
    OBVIOUS
  <1>1. /\ f \in Nat /\ FirstDay = f /\ FirstDay' = f
        /\ day \in Nat /\ day' = day + 1 /\ f <= day /\ day + 1 <= f + Horizon
        /\ f + Horizon < LastDay /\ Horizon \in Nat /\ LastDay \in Nat
    <2>1. f \in Nat
      BY EntryParts, DaysType
    <2>2. FirstDay = f /\ FirstDay' = f
      BY <1>b DEF FirstDay
    <2>3. day \in Nat /\ f <= day /\ f + Horizon < LastDay /\ day < f + Horizon /\ day' = day + 1
      BY <2>2 DEF RefInv, RefTypeOK, DayPasses
    <2>4. Horizon \in Nat /\ LastDay \in Nat
      BY ReferenceAssumption DEF LastDay
    <2> QED BY <2>1, <2>2, <2>3, <2>4
  <1>2. day \in 0..LastDay /\ day + 1 \in 0..LastDay /\ f \in 0..LastDay
    BY <1>1
  <1>3. /\ y \in Nat \ {0} /\ z \in Nat \ {0} /\ YearOf[f] \in Nat \ {0} /\ YearOf[f] <= y
    BY <1>1, <1>2, YearOfMonotone
  <1>4. /\ total \in Nat /\ daily \in Nat /\ total' = total + daily
        /\ daily' = IF StartsPeriod(day + 1) THEN DailyInterest(total', rate) ELSE daily
        /\ total' \in Nat
    BY <1>1 DEF RefInv, RefTypeOK, DayPasses
  <1>5. Tally(day) = t /\ Tally(day)' = u
    BY <1>1, <1>b, <1>r, <1>t, <1>u DEF Tally
  <1>6. getYear(e.timestamp) = YearOf[f] /\ getYear(NoonOf(day)) = y /\ getYear(NoonOf(day + 1)) = z
    BY <1>1, DayOfNoon DEF getYear, Days
  <1>7. /\ SameYear <=> YearOf[f] = y
        /\ SameYear' <=> YearOf[f] = z
        /\ AtMidnight <=> e.timestamp % DaySeconds = 0
        /\ AtMidnight' <=> AtMidnight
    <2>1. getYear(day * DaySeconds) = y /\ getYear((day + 1) * DaySeconds) = z
      BY <1>1, DayOfNoon
    <2> QED BY <1>1, <1>b, <1>6, <2>1 DEF SameYear, AtMidnight
  <1>8. /\ t \in InterestEntry /\ t.timestamp # 0 /\ Days(t.timestamp) <= day
        /\ AtMidnight \/ ~ SameYear => t.timestamp % DaySeconds = 0
        /\ AtMidnight \/ SameYear => Reached(t, day) = total /\ t.daily = daily
        /\ Reached(t, day) <= total /\ t.daily <= daily
    BY <1>5 DEF RefInv, TallyKeepsUp
  <1>9. /\ Reached(t, day + 1) = Reached(t, day) + t.daily /\ Reached(t, day) \in Int /\ t.daily \in Nat
        /\ t.totalCashFlow \in Nat /\ Days(t.timestamp) \in Nat
    BY <1>1, <1>8, ReachedTomorrow, EntryParts, DaysType
  <1>10. StartsPeriod(day + 1) <=> day + 1 = YearStart(z)
    BY <1>1, PeriodIsYear
  <1>11. daily' \in Nat
    BY <1>4, <1>b, DailyInterestType
  <1>12. RefTypeOK'
    <2>1. interestEntries' = <<e>>
      BY <1>a DEF DayPasses
    <2> QED BY <1>1, <1>4, <1>a, <1>b, <1>11, <2>1 DEF RefTypeOK
  <1> HIDE DEF y, z, f
  <1>13. CASE z = y /\ day + 1 # YearStart(z)
    <2>1. u = t
      BY <1>6, <1>13, <1>r, <1>t, <1>u, AnnualSameYear
    <2>2. daily' = daily /\ (SameYear' <=> SameYear)
      BY <1>4, <1>7, <1>10, <1>13
    <2>3. Days(t.timestamp) <= day'
      BY <1>1, <1>8, <1>9
    <2>4. Reached(t, day + 1) <= total' /\ t.daily <= daily'
      BY <1>4, <1>8, <1>9, <2>2
    <2>5. AtMidnight \/ SameYear => Reached(t, day + 1) = total' /\ t.daily = daily'
      BY <1>4, <1>8, <1>9, <2>2
    <2>6. TallyKeepsUp'
      BY <1>1, <1>5, <1>7, <1>8, <2>1, <2>2, <2>3, <2>4, <2>5 DEF TallyKeepsUp
    <2> QED BY <1>12, <2>6 DEF RefInv
  <1>14. CASE z = y + 1 /\ day + 1 = YearStart(z)
    <2> DEFINE D == Days(t.timestamp)
               n == IF t.timestamp % DaySeconds = 0 THEN (day + 1) - D ELSE day - D
    <2>1. u = AnnualStep(run, z, rate).entry
      <3>1. CompoundAnnual(e, rate, NoonOf(day + 1)) = AnnualStep(run, z, rate)
        <4>1. YearOf[f] \in Int /\ y \in Int
          BY <1>3
        <4> QED BY <1>3, <1>6, <1>14, <1>r, <4>1, AnnualNextYear
      <3> QED BY <1>u, <3>1
    <2>2. /\ u \in InterestEntry /\ u.timestamp = (day + 1) * DaySeconds
          /\ u.totalCashFlow = t.totalCashFlow + t.daily * n
          /\ u.daily = DailyInterest(u.totalCashFlow, rate)
      <3>1. run.entry \in InterestEntry /\ Days(run.entry.timestamp) <= day
        BY <1>8, <1>t
      <3>2. CarriedOver(run.entry, AnnualStep(run, z, rate).entry, day, rate)
        BY <1>1, <1>3, <1>14, <1>b, <3>1, YearTurns
      <3>3. CarriedOver(t, u, day, rate)
        BY <1>t, <2>1, <3>2
      <3> QED BY <3>3 DEF CarriedOver
    <2>3. /\ u.totalCashFlow \in Nat
          /\ u.timestamp # 0 /\ Days(u.timestamp) = day + 1 /\ u.timestamp % DaySeconds = 0
      BY <1>1, <2>2, EntryParts DEF Days, DaySeconds
    <2>4. /\ t.timestamp % DaySeconds = 0 => u.totalCashFlow = Reached(t, day) + t.daily
          /\ t.timestamp % DaySeconds # 0 => u.totalCashFlow = Reached(t, day)
      <3>1. /\ Reached(t, day + 1) = t.totalCashFlow + t.daily * ((day + 1) - D)
            /\ Reached(t, day) = t.totalCashFlow + t.daily * (day - D)
        BY <1>1 DEF Reached
      <3> QED BY <1>9, <2>2, <3>1
    <2>5. u.totalCashFlow <= total'
      BY <1>4, <1>8, <1>9, <2>3, <2>4
    <2>6. AtMidnight => u.totalCashFlow = total'
      BY <1>4, <1>8, <1>9, <2>4
    <2>7. daily' = DailyInterest(total', rate)
      BY <1>4, <1>10, <1>14
    <2>8. u.daily <= daily' /\ (AtMidnight => u.daily = daily')
      BY <1>4, <1>b, <2>2, <2>3, <2>5, <2>6, <2>7, DailyMonotone
    <2>9. Reached(u, day + 1) = u.totalCashFlow
      <3>1. u.daily \in Nat /\ Reached(u, day + 1) = u.totalCashFlow + u.daily * ((day + 1) - Days(u.timestamp))
        BY <2>2, EntryParts DEF Reached
      <3>2. (day + 1) - Days(u.timestamp) = 0
        BY <1>1, <2>3
      <3>3. u.daily * 0 = 0
        BY <3>1
      <3> QED BY <2>3, <3>1, <3>2, <3>3
    <2>10. ~ SameYear'
      BY <1>3, <1>7, <1>14
    <2>11. Days(u.timestamp) <= day'
      BY <1>1, <2>3
    <2>12. /\ AtMidnight => Reached(u, day + 1) = total' /\ u.daily = daily'
           /\ Reached(u, day + 1) <= total' /\ u.daily <= daily'
      BY <2>5, <2>6, <2>8, <2>9
    <2>13. TallyKeepsUp'
      <3> HIDE DEF n
      <3> QED BY <1>1, <1>5, <1>7, <2>2, <2>3, <2>10, <2>11, <2>12 DEF TallyKeepsUp
    <2> QED BY <1>12, <2>13 DEF RefInv
  <1>15. \/ z = y /\ day + 1 # YearStart(z)
         \/ z = y + 1 /\ day + 1 = YearStart(z)
    <2>1. day + 1 <= LastDay
      BY <1>1
    <2> QED BY <1>1, <2>1, NextDay DEF y, z
  <1> QED BY <1>13, <1>14, <1>15

\* What the contract would take as outstanding today is what the tally has
\* reached.
LEMMA OutstandingReached ==
    ASSUME RefInv, compoundingInterval = ANNUAL_COMPOUNDING
    PROVE  Outstanding = Reached(Tally(day), day)
  <1> DEFINE t == Tally(day)
             noon == NoonOf(day)
  <1>1. /\ LastInterestEntry.timestamp # 0 /\ day \in Nat
    BY OneEntry DEF RefInv, RefTypeOK
  <1>2. ComputeCompounding(compoundingInterval, rate, noon).entry = t
    BY <1>1 DEF ComputeCompounding, Tally
  <1>3. Outstanding = Accrued(t, noon)
    BY <1>2 DEF Outstanding, NoonOf
  <1>4. t.timestamp # 0 /\ Days(noon) = day
    BY <1>1, DayOfNoon DEF RefInv, TallyKeepsUp
  <1> QED BY <1>3, <1>4 DEF Accrued, Reached

LEMMA RefInvKept ==
    ASSUME RefInv, [Next]_refVars, compoundingInterval = ANNUAL_COMPOUNDING
    PROVE  RefInv'
  <1>1. CASE Next
    BY <1>1, DayPassesRefInv DEF Next
  <1>2. CASE UNCHANGED refVars
    BY <1>2 DEF refVars, RefInv, RefTypeOK, FirstDay, LastInterestEntry, TallyKeepsUp, Tally,
                AtMidnight, SameYear, Reached
  <1> QED BY <1>1, <1>2

\* AnnualMatchesDaily: _compoundAnnual adds the interest of every day since
\* the entry exactly once, over any number of years and leap days, at every
\* rate and scale; an entry made during a day and carried over a New Year
\* loses some of it and never gains.
THEOREM AnnualCompoundingMatches ==
    ASSUME compoundingInterval = ANNUAL_COMPOUNDING
    PROVE  Spec => []AnnualMatchesDaily
  <1>1. RefInv => AnnualMatchesDaily
    BY OutstandingReached DEF RefInv, TallyKeepsUp, AnnualMatchesDaily
  <1>2. RefInv /\ [Next]_refVars => RefInv'
    BY RefInvKept
  <1> QED BY <1>1, <1>2, InitRefInv, PTL DEF Spec

=============================================================================
