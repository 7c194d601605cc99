------------------------ MODULE FundExecutionProofs ------------------------
(***************************************************************************)
(* The calls that run step by step are the calls of Fund: for every list,  *)
(* every order of the steps and all amounts, what a call has written when  *)
(* it returns is what its single step in Fund writes.                      *)
(***************************************************************************)
EXTENDS FundExecution, FundProofs

-----------------------------------------------------------------------------
(* The operators of Atomic, an instance of Fund, are those of Fund: only   *)
(* the sets of accounts, the waivers and Pausing are substituted.          *)

LEMMA SameMin == ASSUME NEW S PROVE Atomic!Min(S) = Min(S)
  BY DEF Atomic!Min, Min

LEMMA SameMonthStart ==
    ASSUME NEW y, NEW m PROVE Atomic!MonthStart(y, m) = MonthStart(y, m)
  BY DEF Atomic!MonthStart, MonthStart, Atomic!YearStart, YearStart,
         Atomic!LeapsBefore, LeapsBefore, Atomic!DaysBefore, DaysBefore,
         Atomic!IsLeap, IsLeap

LEMMA SameMonthLength ==
    ASSUME NEW y, NEW m PROVE Atomic!MonthLength(y, m) = MonthLength(y, m)
  BY DEF Atomic!MonthLength, MonthLength, Atomic!IsLeap, IsLeap

LEMMA SameYearOf == Atomic!YearOf = YearOf
  BY DEF Atomic!YearOf, YearOf, Atomic!YearStart, YearStart,
         Atomic!LeapsBefore, LeapsBefore

LEMMA SameMonthOf == Atomic!MonthOf = MonthOf
  BY DEF Atomic!MonthOf, MonthOf, Atomic!YearOf, YearOf, Atomic!YearStart, YearStart,
         Atomic!LeapsBefore, LeapsBefore, Atomic!MonthStart, MonthStart,
         Atomic!DaysBefore, DaysBefore, Atomic!IsLeap, IsLeap,
         Atomic!MonthLength, MonthLength

LEMMA SameDate ==
    ASSUME NEW y, NEW m, NEW d
    PROVE  Atomic!timestampFromDate(y, m, d) = timestampFromDate(y, m, d)
  BY SameMonthStart
     DEF Atomic!timestampFromDate, timestampFromDate, Atomic!DaySeconds, DaySeconds

LEMMA SameYearAndMonth ==
    ASSUME NEW t
    PROVE  Atomic!getYear(t) = getYear(t) /\ Atomic!getMonth(t) = getMonth(t)
  BY SameYearOf, SameMonthOf
     DEF Atomic!getYear, getYear, Atomic!getMonth, getMonth, Atomic!DaySeconds, DaySeconds

LEMMA SameAddMonths ==
    ASSUME NEW t, NEW n PROVE Atomic!addMonths(t, n) = addMonths(t, n)
  <1>1. ASSUME NEW d PROVE Atomic!DayOfMonth(d) = DayOfMonth(d)
    BY SameMonthOf, SameYearOf, SameMonthStart DEF Atomic!DayOfMonth, DayOfMonth
  <1>2. ASSUME NEW d PROVE Atomic!MonthsLater(d, n) = MonthsLater(d, n)
    BY <1>1, SameMin, SameMonthOf, SameYearOf, SameMonthStart, SameMonthLength
       DEF Atomic!MonthsLater, MonthsLater
  <1> QED BY <1>2 DEF Atomic!addMonths, addMonths, Atomic!DaySeconds, DaySeconds

LEMMA SameQuarters ==
    ASSUME NEW t
    PROVE  Atomic!QuarterStart(t) = QuarterStart(t) /\ Atomic!NextQuarter(t) = NextQuarter(t)
  <1>1. ASSUME NEW u PROVE Atomic!QuarterStart(u) = QuarterStart(u)
    BY SameYearAndMonth, SameDate DEF Atomic!QuarterStart, QuarterStart
  <1> QED BY <1>1, SameAddMonths DEF Atomic!NextQuarter, NextQuarter

LEMMA SameDays == ASSUME NEW t PROVE Atomic!Days(t) = Days(t)
  BY DEF Atomic!Days, Days, Atomic!DaySeconds, DaySeconds

LEMMA SameEntry ==
    /\ Atomic!InterestEntry = InterestEntry
    /\ Atomic!LastInterestEntry = LastInterestEntry
    /\ \A time, capital, daily, tcf :
          Atomic!Entry(time, capital, daily, tcf) = Entry(time, capital, daily, tcf)
    /\ \A tcf, rate : Atomic!DailyInterest(tcf, rate) = DailyInterest(tcf, rate)
  BY DEF Atomic!InterestEntry, InterestEntry, Atomic!LastInterestEntry, LastInterestEntry,
         Atomic!Entry, Entry, Atomic!DailyInterest, DailyInterest

LEMMA SameStarted == ASSUME NEW e PROVE Atomic!Started(e) = Started(e)
  BY DEF Atomic!Started, Started

LEMMA SameCompoundedTo ==
    ASSUME NEW run, NEW days, NEW rate, NEW stamp, NEW next
    PROVE  Atomic!CompoundedTo(run, days, rate, stamp, next)
             = CompoundedTo(run, days, rate, stamp, next)
  BY DEF Atomic!CompoundedTo, CompoundedTo, Atomic!DailyInterest, DailyInterest,
         Atomic!Entry, Entry

\* The loop over years is a recursive function: its equation is the same one.
LEMMA SameCompoundAnnual ==
    ASSUME NEW last, NEW rate, NEW time
    PROVE  Atomic!CompoundAnnual(last, rate, time) = CompoundAnnual(last, rate, time)
  BY DEF Atomic!CompoundAnnual, CompoundAnnual, Atomic!AnnualStep, AnnualStep,
         Atomic!Started, Started, Atomic!CompoundedTo, CompoundedTo,
         Atomic!DailyInterest, DailyInterest, Atomic!Entry, Entry,
         Atomic!diffDays, diffDays, Atomic!DaySeconds, DaySeconds,
         Atomic!timestampFromDate, timestampFromDate, Atomic!YearStart, YearStart,
         Atomic!LeapsBefore, LeapsBefore, Atomic!MonthStart, MonthStart,
         Atomic!DaysBefore, DaysBefore, Atomic!IsLeap, IsLeap,
         Atomic!getYear, getYear, Atomic!YearOf, YearOf

LEMMA SameCompounding ==
    ASSUME NEW cp, NEW rate, NEW time
    PROVE  Atomic!ComputeCompounding(cp, rate, time) = ComputeCompounding(cp, rate, time)
  <1>1. ASSUME NEW last
        PROVE  Atomic!CompoundQuarterly(last, rate, time) = CompoundQuarterly(last, rate, time)
    BY SameQuarters, SameDays, SameCompoundedTo, SameStarted
       DEF Atomic!CompoundQuarterly, CompoundQuarterly, Atomic!DaySeconds, DaySeconds
  <1> QED
    BY <1>1, SameCompoundAnnual, SameStarted, SameEntry
       DEF Atomic!ComputeCompounding, ComputeCompounding,
           Atomic!ANNUAL_COMPOUNDING, ANNUAL_COMPOUNDING

LEMMA SameAccrued ==
    ASSUME NEW entry, NEW time PROVE Atomic!Accrued(entry, time) = Accrued(entry, time)
  BY DEF Atomic!Accrued, Accrued, Atomic!Days, Days, Atomic!DaySeconds, DaySeconds

LEMMA SameComputed ==
    ASSUME NEW run, NEW time PROVE Atomic!Computed(run, time) <=> Computed(run, time)
  BY DEF Atomic!Computed, Computed, Atomic!Days, Days, Atomic!DaySeconds, DaySeconds,
         Atomic!InterestEntry, InterestEntry, Atomic!NotEarlier, NotEarlier

LEMMA SameInflow ==
    ASSUME NEW amount, NEW rate, NEW time, NEW cp
    PROVE  Atomic!Inflow(amount, rate, time, cp) = Inflow(amount, rate, time, cp)
  <1>1. ASSUME NEW run
        PROVE  Atomic!InflowAfter(run, amount, rate, time) = InflowAfter(run, amount, rate, time)
    BY SameComputed, SameAccrued DEF Atomic!InflowAfter, InflowAfter, Atomic!Entry, Entry,
       Atomic!DailyInterest, DailyInterest
  <1> QED BY <1>1, SameCompounding DEF Atomic!Inflow, Inflow

LEMMA SameOutflow ==
    ASSUME NEW amount, NEW rate, NEW time, NEW cp
    PROVE  Atomic!Outflow(amount, rate, time, cp) = Outflow(amount, rate, time, cp)
  <1>1. ASSUME NEW capital, NEW tcf
        PROVE  Atomic!Payout(amount, capital, tcf) = Payout(amount, capital, tcf)
    BY DEF Atomic!Payout, Payout, Atomic!CapitalOnly, CapitalOnly,
           Atomic!CapitalAndInterest, CapitalAndInterest, Atomic!Everything, Everything
  <1>2. ASSUME NEW run, NEW pay
        PROVE  Atomic!OutflowPaid(run, pay, rate, time) = OutflowPaid(run, pay, rate, time)
    BY SameComputed, SameEntry DEF Atomic!OutflowPaid, OutflowPaid
  <1>3. ASSUME NEW run
        PROVE  Atomic!OutflowUntouched(run, amount) = OutflowUntouched(run, amount)
    BY SameEntry DEF Atomic!OutflowUntouched, OutflowUntouched
  <1>4. ASSUME NEW run
        PROVE  Atomic!OutflowAfter(run, amount, rate, time) = OutflowAfter(run, amount, rate, time)
    BY <1>1, <1>2, <1>3, SameAccrued DEF Atomic!OutflowAfter, OutflowAfter
  <1> QED BY <1>4, SameCompounding DEF Atomic!Outflow, Outflow

LEMMA SameLedgers ==
    /\ \A n : Atomic!IsUint(n) <=> IsUint(n)
    /\ \A t, accounts : Atomic!Touched(t, accounts) = Touched(t, accounts)
    /\ \A f, S : Atomic!SumFunctionOnSet(f, S) = SumFunctionOnSet(f, S)
    /\ \A f : Atomic!SumFunction(f) = SumFunction(f)
  BY DEF Atomic!IsUint, IsUint, Atomic!Touched, Touched, Atomic!StaleKeys, StaleKeys,
         Atomic!Indices, Indices, Atomic!SumFunction, SumFunction,
         Atomic!SumFunctionOnSet, SumFunctionOnSet,
         Atomic!FoldFunctionOnSet, FoldFunctionOnSet, Atomic!MapThenFoldSet, MapThenFoldSet

-----------------------------------------------------------------------------
(* Fund's actions are those of Atomic as long as the sets of accounts are  *)
(* what the arrays hold.                                                   *)

ListsAgree ==
    /\ gpAccounts = Range(gpAccountList)
    /\ lpAccounts = Range(lpAccountList)

LEMMA SameVars ==
    ASSUME ListsAgree, ListsAgree'
    PROVE  /\ UNCHANGED commitVars => UNCHANGED Atomic!commitVars
           /\ UNCHANGED vars => UNCHANGED Atomic!vars
  BY DEF ListsAgree, Atomic!vars, vars, Atomic!commitVars, commitVars,
         Atomic!callVars, callVars, Atomic!redemptionVars, redemptionVars,
         Atomic!distVars, distVars, Atomic!envVars, envVars

LEMMA SameAddLpCommitment ==
    ASSUME ListsAgree, ListsAgree', NEW a, NEW n
    PROVE  /\ commit(a, n) => Atomic!commit(a, n)
           /\ addLpCommit(a, n) => Atomic!addLpCommit(a, n)
  <1>1. AddLpCommitment(a, n) => Atomic!AddLpCommitment(a, n)
    BY DEF ListsAgree, Atomic!AddLpCommitment, AddLpCommitment,
           Atomic!SetLpCommitment, SetLpCommitment, Atomic!IsUint, IsUint,
           Atomic!Replaced, Replaced, Atomic!callVars, callVars,
           Atomic!redemptionVars, redemptionVars, Atomic!distVars, distVars,
           Atomic!envVars, envVars
  <1> QED BY <1>1 DEF Atomic!commit, commit, Atomic!addLpCommit, addLpCommit

LEMMA SameCancelCommit ==
    ASSUME ListsAgree, ListsAgree', NEW a, cancelCommit(a)
    PROVE  Atomic!cancelCommit(a)
  BY DEF ListsAgree, Atomic!cancelCommit, cancelCommit,
         Atomic!CancelLpCommitment, CancelLpCommitment, Atomic!IsUint, IsUint,
         Atomic!callVars, callVars, Atomic!redemptionVars, redemptionVars,
         Atomic!distVars, distVars, Atomic!envVars, envVars

LEMMA SameSettled ==
    ASSUME NEW t, NEW a
    PROVE  /\ Atomic!PendingFees(t, a) = PendingFees(t, a)
           /\ Atomic!TotalClaimable(t, a) = TotalClaimable(t, a)
           /\ Atomic!ClaimsReadable(t, a) <=> ClaimsReadable(t, a)
           /\ Atomic!Settled(t, a) <=> Settled(t, a)
  <1>1. Atomic!PendingFees(t, a) = PendingFees(t, a)
    BY SameLedgers DEF Atomic!PendingFees, PendingFees, Atomic!CalculateFee, CalculateFee
  <1>2. Atomic!Claimable(t, a) = Claimable(t, a)
    BY DEF Atomic!Claimable, Claimable
  <1>3. Atomic!TotalClaimable(t, a) = TotalClaimable(t, a)
    BY <1>2, SameLedgers
       DEF Atomic!TotalClaimable, TotalClaimable, Atomic!PendingDistribution, PendingDistribution
  <1>4. Atomic!ClaimsReadable(t, a) <=> ClaimsReadable(t, a)
    BY <1>2 DEF Atomic!ClaimsReadable, ClaimsReadable,
                Atomic!DistributionExists, DistributionExists
  <1> QED BY <1>1, <1>3, <1>4 DEF Atomic!Settled, Settled

LEMMA SameMayMint ==
    ASSUME NEW k, NEW a
    PROVE  Atomic!MayMint(k, a) <=> MayMint(k, a)
  BY DEF Atomic!MayMint, MayMint, Atomic!MayMove, MayMove

LEMMA SameApproveCommits ==
    ASSUME ListsAgree, ListsAgree', NEW S, approveCommits(S)
    PROVE  Atomic!approveCommits(S)
  <1>1. ASSUME NEW t, NEW f PROVE Atomic!MintedToEach(t, S, f) = MintedToEach(t, S, f)
    BY SameLedgers DEF Atomic!MintedToEach, MintedToEach
  <1>2. Atomic!CommitTokens(S) = CommitTokens(S) /\ Atomic!Approved(S) = Approved(S)
    BY SameLedgers DEF Atomic!CommitTokens, CommitTokens, Atomic!Approved, Approved
  <1>3. Atomic!ApproveLpCommitments(S)
    BY <1>2, SameLedgers
       DEF ListsAgree, approveCommits, Atomic!ApproveLpCommitments, ApproveLpCommitments
  <1> QED
    BY <1>1, <1>2, <1>3, SameLedgers, SameMayMint
       DEF Atomic!approveCommits, approveCommits,
           Atomic!callVars, callVars, Atomic!redemptionVars, redemptionVars,
           Atomic!distVars, distVars, Atomic!envVars, envVars

LEMMA SameIssueGpCommit ==
    ASSUME ListsAgree, ListsAgree', NEW a, NEW n, issueGpCommit(a, n)
    PROVE  Atomic!issueGpCommit(a, n)
  <1>1. ASSUME NEW t PROVE Atomic!Minted(t, a, n) = Minted(t, a, n)
    BY SameLedgers DEF Atomic!Minted, Minted
  <1>2. Atomic!AddGpCommitment(a, n)
    BY DEF ListsAgree, issueGpCommit, Atomic!AddGpCommitment, AddGpCommitment
  <1> QED
    BY <1>1, <1>2, SameMayMint
       DEF Atomic!issueGpCommit, issueGpCommit,
           Atomic!callVars, callVars, Atomic!redemptionVars, redemptionVars,
           Atomic!distVars, distVars, Atomic!envVars, envVars

LEMMA SameCapitalCall ==
    ASSUME ListsAgree, ListsAgree', NEW n, capitalCall(n)
    PROVE  Atomic!capitalCall(n)
  <1>1. Atomic!totalCommitted = totalCommitted
    BY DEF Atomic!totalCommitted, totalCommitted
  <1>2. \A a : Atomic!GpShare(n, a) = GpShare(n, a) /\ Atomic!LpShare(n, a) = LpShare(n, a)
    BY <1>1 DEF Atomic!GpShare, GpShare, Atomic!LpShare, LpShare, Atomic!CallShare, CallShare
  <1>3. Atomic!WithinCommitments(n) <=> WithinCommitments(n)
    BY <1>1 DEF Atomic!WithinCommitments, WithinCommitments, Atomic!IsUint, IsUint
  <1>4. Atomic!AccountCalls(Range(gpAccountList), Range(lpAccountList), 
               LAMBDA a : Atomic!GpShare(n, a), LAMBDA a : Atomic!LpShare(n, a))
          = AccountCalls(gpAccounts, lpAccounts,
               LAMBDA a : GpShare(n, a), LAMBDA a : LpShare(n, a))
    BY <1>2 DEF ListsAgree, Atomic!AccountCalls, AccountCalls, Atomic!AccountCall, AccountCall,
       Atomic!NextCallId, NextCallId
  <1>5. UNCHANGED Atomic!commitVars
    BY SameVars DEF capitalCall
  <1> QED
    BY <1>1, <1>2, <1>3, <1>4, <1>5, SameInflow
       DEF ListsAgree, Atomic!capitalCall, capitalCall, 
           Atomic!redemptionVars, redemptionVars,
           Atomic!distVars, distVars, Atomic!envVars, envVars

LEMMA SameMayBurn ==
    ASSUME NEW t, NEW c, NEW a, NEW n
    PROVE  /\ Atomic!MayBurn(t, c, a, n) <=> MayBurn(t, c, a, n)
           /\ Atomic!Burned(t, a, n) = Burned(t, a, n)
           /\ Atomic!Minted(t, a, n) = Minted(t, a, n)
  <1>1. Atomic!Burned(t, a, n) = Burned(t, a, n) /\ Atomic!Minted(t, a, n) = Minted(t, a, n)
    BY SameLedgers DEF Atomic!Burned, Burned, Atomic!Minted, Minted
  <1>2. Atomic!MayBurn(t, c, a, n) <=> MayBurn(t, c, a, n)
    BY SameSettled DEF Atomic!MayBurn, MayBurn, Atomic!MayMove, MayMove, Atomic!IsUint, IsUint
  <1> QED BY <1>1, <1>2

LEMMA SameCapitalCallDone ==
    ASSUME ListsAgree, ListsAgree', NEW c, NEW a, NEW p, capitalCallDone(c, a, p)
    PROVE  Atomic!capitalCallDone(c, a, p)
  <1>1. UNCHANGED Atomic!commitVars
    BY SameVars DEF capitalCallDone
  <1>2. \A type : /\ Atomic!CommitToken(type) = CommitToken(type)
                  /\ Atomic!FundTokenOf(type) = FundTokenOf(type)
    BY DEF Atomic!CommitToken, CommitToken, Atomic!FundTokenOf, FundTokenOf
  <1>3. ASSUME NEW ts, NEW type, NEW n
        PROVE  Atomic!Converted(ts, type, a, n) = Converted(ts, type, a, n)
    BY <1>2, SameMayBurn DEF Atomic!Converted, Converted
  <1> QED
    BY <1>1, <1>2, <1>3, SameMayBurn, SameMayMint
       DEF Atomic!capitalCallDone, capitalCallDone, Atomic!redemptionVars, redemptionVars,
           Atomic!distVars, distVars, Atomic!envVars, envVars

LEMMA SameChargeManagementFee ==
    ASSUME ListsAgree, ListsAgree', chargeManagementFee
    PROVE  Atomic!chargeManagementFee
  <1>1. UNCHANGED Atomic!commitVars
    BY SameVars DEF chargeManagementFee
  <1> QED
    BY <1>1
       DEF Atomic!chargeManagementFee, chargeManagementFee, Atomic!FeeCharged, FeeCharged,
           Atomic!callVars, callVars, Atomic!redemptionVars, redemptionVars,
           Atomic!distVars, distVars, Atomic!envVars, envVars

LEMMA SameShares ==
    ASSUME NEW pay
    PROVE  Atomic!Shares(pay) = Shares(pay)
  BY DEF Atomic!Shares, Shares, Atomic!Split, Split, Atomic!CatchupOwed, CatchupOwed,
         Atomic!Carry, Carry

LEMMA SameDistribute ==
    ASSUME ListsAgree, ListsAgree', NEW n, NEW t, distribute(n, t)
    PROVE  Atomic!distribute(n, t)
  <1>1. UNCHANGED Atomic!commitVars
    BY SameVars DEF distribute
  <1>2. ASSUME NEW ledger, NEW amount
        PROVE  /\ Atomic!MayDistribute(ledger, amount, scale) <=> MayDistribute(ledger, amount, scale)
               /\ Atomic!Processed(ledger, amount) = Processed(ledger, amount)
    BY DEF Atomic!MayDistribute, MayDistribute, Atomic!Processed, Processed,
           Atomic!Distributed, Distributed, Atomic!ScaledShare, ScaledShare
  <1>3. ASSUME NEW k, NEW amount
        PROVE  Atomic!MayProcess(k, amount) <=> MayProcess(k, amount)
    BY <1>2 DEF Atomic!MayProcess, MayProcess
  <1>4. ASSUME NEW share, DistributeShares(share)
        PROVE  Atomic!DistributeShares(share)
    BY <1>2, <1>3, <1>4 DEF Atomic!DistributeShares, DistributeShares
  <1> QED
    BY <1>1, <1>4, SameShares, SameOutflow
       DEF Atomic!distribute, distribute, Atomic!callVars, callVars,
           Atomic!redemptionVars, redemptionVars, Atomic!envVars, envVars

LEMMA SameRedemptions ==
    ASSUME ListsAgree, ListsAgree', NEW a, NEW n
    PROVE  /\ addRedemption(a, n) => Atomic!addRedemption(a, n)
           /\ cancelRedemption(a) => Atomic!cancelRedemption(a)
           /\ rejectRedemption(a) => Atomic!rejectRedemption(a)
           /\ approveRedemption(a) => Atomic!approveRedemption(a)
  <1> USE DEF Atomic!callVars, callVars, Atomic!distVars, distVars, Atomic!envVars, envVars,
              Atomic!UpdateRedemption, UpdateRedemption
  <1>1. ASSUME addRedemption(a, n) PROVE Atomic!addRedemption(a, n)
    <2>1. UNCHANGED Atomic!commitVars
      BY <1>1, SameVars DEF addRedemption
    <2> QED BY <1>1, <2>1 DEF Atomic!addRedemption, addRedemption,
                              Atomic!RequestRedemption, RequestRedemption
  <1>2. ASSUME cancelRedemption(a) PROVE Atomic!cancelRedemption(a)
    <2>1. UNCHANGED Atomic!commitVars
      BY <1>2, SameVars DEF cancelRedemption
    <2> QED BY <1>2, <2>1 DEF Atomic!cancelRedemption, cancelRedemption,
                              Atomic!CancelRequest, CancelRequest
  <1>3. ASSUME rejectRedemption(a) PROVE Atomic!rejectRedemption(a)
    <2>1. UNCHANGED Atomic!commitVars
      BY <1>3, SameVars DEF rejectRedemption
    <2> QED BY <1>3, <2>1 DEF Atomic!rejectRedemption, rejectRedemption,
                              Atomic!RejectRequest, RejectRequest
  <1>4. ASSUME approveRedemption(a) PROVE Atomic!approveRedemption(a)
    <2>1. UNCHANGED Atomic!commitVars
      BY <1>4, SameVars DEF approveRedemption
    <2> QED BY <1>4, <2>1, SameMayBurn DEF Atomic!approveRedemption, approveRedemption,
                              Atomic!ApproveRequest, ApproveRequest
  <1> QED BY <1>1, <1>2, <1>3, <1>4

LEMMA SameAdministration ==
    ASSUME ListsAgree, ListsAgree', NEW name, NEW value
    PROVE  /\ setTerm(name, value) => Atomic!setTerm(name, value)
           /\ pauseTokens => Atomic!pauseTokens
           /\ unpauseTokens => Atomic!unpauseTokens
  <1>1. setTerm(name, value) \/ pauseTokens \/ unpauseTokens => UNCHANGED Atomic!commitVars
    BY SameVars DEF setTerm, pauseTokens, unpauseTokens
  <1> QED
    BY <1>1 DEF Atomic!setTerm, setTerm, Atomic!pauseTokens, pauseTokens,
                Atomic!unpauseTokens, unpauseTokens, Atomic!TokenNames, TokenNames,
                Atomic!callVars, callVars, Atomic!redemptionVars, redemptionVars,
                Atomic!distVars, distVars, Atomic!envVars, envVars

LEMMA SameTokenCalls ==
    ASSUME ListsAgree, ListsAgree', NEW k, NEW a
    PROVE  /\ payFees(k, a) => Atomic!payFees(k, a)
           /\ claimAllDistributions(k, a) => Atomic!claimAllDistributions(k, a)
           /\ \A n, S : markFeesAsPaidUpToID(k, n, S) => Atomic!markFeesAsPaidUpToID(k, n, S)
           /\ \A b, n : transfer(k, a, b, n) => Atomic!transfer(k, a, b, n)
  <1>1. TokenUnchanged => Atomic!TokenUnchanged
    BY SameVars DEF Atomic!TokenUnchanged, TokenUnchanged,
                Atomic!callVars, callVars, Atomic!redemptionVars, redemptionVars,
                Atomic!distVars, distVars, Atomic!envVars, envVars
  <1>2. ASSUME payFees(k, a) PROVE Atomic!payFees(k, a)
    BY <1>1, <1>2, SameSettled, SameLedgers
       DEF Atomic!payFees, payFees, Atomic!FeesSettled, FeesSettled
  <1>3. ASSUME claimAllDistributions(k, a) PROVE Atomic!claimAllDistributions(k, a)
    BY <1>1, <1>3, SameSettled, SameLedgers
       DEF Atomic!claimAllDistributions, claimAllDistributions,
           Atomic!ClaimsTaken, ClaimsTaken
  <1>4. ASSUME NEW n, NEW S, markFeesAsPaidUpToID(k, n, S)
        PROVE  Atomic!markFeesAsPaidUpToID(k, n, S)
    BY <1>1, <1>4 DEF Atomic!markFeesAsPaidUpToID, markFeesAsPaidUpToID,
           Atomic!MayMarkFees, MayMarkFees, Atomic!FeesMarked, FeesMarked
  <1>5. ASSUME NEW b, NEW n, transfer(k, a, b, n) PROVE Atomic!transfer(k, a, b, n)
    BY <1>1, <1>5, SameSettled, SameLedgers
       DEF Atomic!transfer, transfer, Atomic!MayMove, MayMove,
           Atomic!Transferred, Transferred
  <1> QED BY <1>2, <1>3, <1>4, <1>5

LEMMA SameEnvironment ==
    ASSUME ListsAgree, ListsAgree', EnvironmentNext
    PROVE  Atomic!EnvironmentNext
  <1>1. SystemUnchanged => Atomic!SystemUnchanged
    BY SameVars DEF Atomic!SystemUnchanged, SystemUnchanged,
                Atomic!callVars, callVars, Atomic!redemptionVars, redemptionVars,
                Atomic!distVars, distVars
  <1> QED BY <1>1 DEF Atomic!EnvironmentNext, EnvironmentNext,
                Atomic!TimePasses, TimePasses, Atomic!ComplianceChanges, ComplianceChanges

-----------------------------------------------------------------------------
(* A running call: where it is, its local variables, and what it has       *)
(* written, in terms of the storage it started from.                       *)

IsAt(x, call, pc, i, local) ==
    x = [call |-> call, pc |-> pc, i |-> i, local |-> local, written |-> x.written]

\* The call has written nothing outside of `names`.
WritesOnly(w, names) ==
    /\ DOMAIN w = DOMAIN Storage
    /\ \A f \in DOMAIN Storage \ names : w[f] = Storage[f]

\* The elements of a list before position n + 1.
Before(list, n) == {list[j] : j \in 1..n}

\* The commitments once those of S are approved.
ApprovedFor(S) ==
    [a \in Accounts |-> IF a \in S THEN [lpCommitments[a] EXCEPT !.status = "APPROVED"]
                        ELSE lpCommitments[a]]

ApprovingAt(x, list, n) ==
    LET S == Before(list, n) IN
    /\ IsAt(x, "approveCommits", "accounts", n + 1, [accounts |-> list])
    /\ WritesOnly(x.written, {"lpCommitments", "totalCommittedLp", "tokens"})
    /\ x.written.lpCommitments = ApprovedFor(S)
    /\ x.written.totalCommittedLp = totalCommittedLp + Approved(S)
    /\ x.written.tokens = [tokens EXCEPT !["lpCommit"] =
          MintedToEach(tokens["lpCommit"], S, CommitTokens(S))]
    /\ \A a \in S : lpCommitments[a].status = "PENDING" /\ MayMint("lpCommit", a)
    /\ totalCommittedLp + Approved(Range(list)) <= MaxCommittedLp

Approving(x) == \E list \in ApprovalLists : \E n \in 0..Len(list) : ApprovingAt(x, list, n)

-----------------------------------------------------------------------------
(* Lists.                                                                  *)

LEMMA BeforeStep ==
    ASSUME NEW list, NEW n \in Nat
    PROVE  Before(list, n + 1) = Before(list, n) \cup {list[n + 1]} /\ Before(list, 0) = {}
  BY DEF Before

LEMMA BeforeAll ==
    ASSUME NEW S, NEW list \in Seq(S)
    PROVE  /\ Before(list, Len(list)) = Range(list) /\ Range(list) \subseteq S
           /\ \A n \in 0..Len(list) : Before(list, n) \subseteq Range(list)
  <1>1. DOMAIN list = 1..Len(list) /\ \A i \in 1..Len(list) : list[i] \in S
    OBVIOUS
  <1> QED BY <1>1 DEF Before, Range

-----------------------------------------------------------------------------
(* approveCommits.                                                         *)

LEMMA SumInsert ==
    ASSUME NEW S, IsFiniteSet(S), NEW a, a \notin S, NEW f, NEW g,
           \A x \in S : f[x] \in Nat /\ g[x] = f[x], g[a] \in Nat
    PROVE  /\ SumFunctionOnSet(f, S) \in Nat
           /\ SumFunctionOnSet(g, S \cup {a}) = SumFunctionOnSet(f, S) + g[a]
  <1> DEFINE R == S \cup {a}
  <1>1. IsFiniteSet(R) /\ R \ {a} = S /\ a \in R /\ \A x \in R : g[x] \in Nat
    BY FS_AddElement
  <1>2. SumFunctionOnSet(g, S) = SumFunctionOnSet(f, S) /\ SumFunctionOnSet(f, S) \in Nat
    BY SumSame, SumType
  <1> HIDE DEF R
  <1>3. SumFunctionOnSet(g, R) = g[a] + SumFunctionOnSet(g, R \ {a})
    BY <1>1, SumRemove
  <1>4. SumFunctionOnSet(g, R) = g[a] + SumFunctionOnSet(f, S)
    BY <1>1, <1>2, <1>3
  <1> QED BY <1>2, <1>4 DEF R

LEMMA LedgerEqual ==
    ASSUME NEW t \in Ledger, NEW u \in Ledger,
           t.isCommitToken = u.isCommitToken, t.balances = u.balances,
           t.totalSupply = u.totalSupply, t.fees = u.fees,
           t.distributions = u.distributions, t.snapshotBalances = u.snapshotBalances,
           t.lastFeeIndex = u.lastFeeIndex,
           t.lastDistributionIndex = u.lastDistributionIndex,
           t.confirmedDistributions = u.confirmedDistributions,
           t.totalDistributionAmount = u.totalDistributionAmount,
           t.feesPaid = u.feesPaid, t.paused = u.paused
    PROVE  t = u
  <1> DEFINE Same(v) ==
        [isCommitToken |-> v.isCommitToken, balances |-> v.balances,
         totalSupply |-> v.totalSupply, fees |-> v.fees,
         distributions |-> v.distributions, snapshotBalances |-> v.snapshotBalances,
         lastFeeIndex |-> v.lastFeeIndex, lastDistributionIndex |-> v.lastDistributionIndex,
         confirmedDistributions |-> v.confirmedDistributions,
         totalDistributionAmount |-> v.totalDistributionAmount,
         feesPaid |-> v.feesPaid, paused |-> v.paused]
  <1>1. t = Same(t)
    BY DEF Ledger
  <1>2. u = Same(u)
    BY DEF Ledger
  <1> QED BY <1>1, <1>2

\* The snapshots of an account that a movement leaves stale or refreshes.
Snapshots(t, S) ==
    [a \in Accounts |-> [i \in Indices |->
        IF a \in S /\ i \in StaleKeys(t, a) THEN t.balances[a]
        ELSE t.snapshotBalances[a][i]]]

FeesRead(t, S) ==
    [a \in Accounts |-> IF a \in S THEN Len(t.fees) ELSE t.lastFeeIndex[a]]

DistributionsRead(t, S) ==
    [a \in Accounts |-> IF a \in S THEN Len(t.distributions) ELSE t.lastDistributionIndex[a]]

BalancesMinted(t, S, f) ==
    [a \in Accounts |-> IF a \in S THEN t.balances[a] + f[a] ELSE t.balances[a]]

\* What minting to the accounts of S leaves in each field.
MintsTo(t, u, S, f) ==
    /\ u.balances = BalancesMinted(t, S, f)
    /\ u.totalSupply = t.totalSupply + SumFunctionOnSet(f, S)
    /\ u.snapshotBalances = Snapshots(t, S)
    /\ u.lastFeeIndex = FeesRead(t, S)
    /\ u.lastDistributionIndex = DistributionsRead(t, S)
    /\ u.isCommitToken = t.isCommitToken /\ u.fees = t.fees
    /\ u.distributions = t.distributions
    /\ u.confirmedDistributions = t.confirmedDistributions
    /\ u.totalDistributionAmount = t.totalDistributionAmount
    /\ u.feesPaid = t.feesPaid /\ u.paused = t.paused

LEMMA TouchedFields ==
    ASSUME NEW t \in Ledger, NEW S
    PROVE  /\ Touched(t, S).snapshotBalances = Snapshots(t, S)
           /\ Touched(t, S).lastFeeIndex = FeesRead(t, S)
           /\ Touched(t, S).lastDistributionIndex = DistributionsRead(t, S)
  <1>1. Touched(t, S) = [t EXCEPT !.snapshotBalances = Snapshots(t, S),
                            !.lastDistributionIndex = DistributionsRead(t, S),
                            !.lastFeeIndex = FeesRead(t, S)]
    BY DEF Touched, Ledger, Snapshots, DistributionsRead, FeesRead
  <1> QED BY <1>1 DEF Ledger

LEMMA MintedToEachFields ==
    ASSUME NEW t \in Ledger, NEW S \in SUBSET Accounts, NEW f, \A a \in S : f[a] \in Nat
    PROVE  /\ MintedToEach(t, S, f) \in Ledger
           /\ MintsTo(t, MintedToEach(t, S, f), S, f)
  <1> DEFINE u == Touched(t, S)
             n == t.totalSupply + SumFunctionOnSet(f, S)
             b == BalancesMinted(t, S, f)
             m == MintedToEach(t, S, f)
  <1>1. u \in Ledger
    BY TouchedType
  <1>2. m = [u EXCEPT !.balances = b, !.totalSupply = n]
    BY DEF MintedToEach, BalancesMinted
  <1>3. b \in [Accounts -> Nat]
    BY DEF Ledger, BalancesMinted
  <1>4. n \in Nat
    <2>1. SumFunctionOnSet(f, S) \in Nat
      BY AccountsAssumption, FS_Subset, SumType
    <2> QED BY <2>1 DEF Ledger
  <1> HIDE DEF b, n, m
  <1> HIDE DEF u
  <1>5. m \in Ledger /\ m.balances = b /\ m.totalSupply = n
    BY <1>1, <1>2, <1>3, <1>4 DEF Ledger
  <1>6. /\ m.snapshotBalances = u.snapshotBalances /\ m.lastFeeIndex = u.lastFeeIndex
        /\ m.lastDistributionIndex = u.lastDistributionIndex
        /\ m.isCommitToken = u.isCommitToken /\ m.fees = u.fees
        /\ m.distributions = u.distributions
        /\ m.confirmedDistributions = u.confirmedDistributions
        /\ m.totalDistributionAmount = u.totalDistributionAmount
        /\ m.feesPaid = u.feesPaid /\ m.paused = u.paused
    BY <1>1, <1>2 DEF Ledger
  <1>7. /\ u.snapshotBalances = Snapshots(t, S) /\ u.lastFeeIndex = FeesRead(t, S)
        /\ u.lastDistributionIndex = DistributionsRead(t, S)
        /\ u.isCommitToken = t.isCommitToken /\ u.fees = t.fees
        /\ u.distributions = t.distributions
        /\ u.confirmedDistributions = t.confirmedDistributions
        /\ u.totalDistributionAmount = t.totalDistributionAmount
        /\ u.feesPaid = t.feesPaid /\ u.paused = t.paused
    BY TouchedFields, TouchedKeeps DEF u
  <1>8. MintsTo(t, m, S, f)
    BY <1>5, <1>6, <1>7 DEF MintsTo, b, n
  <1> QED BY <1>5, <1>8 DEF m

LEMMA MintedFields ==
    ASSUME NEW t \in Ledger, NEW a \in Accounts, NEW f, f[a] \in Nat
    PROVE  /\ Minted(t, a, f[a]) \in Ledger
           /\ MintsTo(t, Minted(t, a, f[a]), {a}, f)
  <1>1. Minted(t, a, f[a]) = MintedToEach(t, {a}, f)
    <2> DEFINE u == Touched(t, {a})
    <2>1. u \in Ledger /\ u.balances = t.balances
      BY TouchedType, TouchedKeeps
    <2>2. [u.balances EXCEPT ![a] = t.balances[a] + f[a]]
            = [b \in Accounts |-> IF b \in {a} THEN t.balances[b] + f[b] ELSE t.balances[b]]
      BY <2>1 DEF Ledger
    <2>3. SumFunctionOnSet(f, {a}) = f[a]
      <3>1. IsFiniteSet({a}) /\ {a} \ {a} = {} /\ a \in {a}
        BY FS_Singleton
      <3>2. SumFunctionOnSet(f, {a}) = f[a] + SumFunctionOnSet(f, {a} \ {a})
        BY <3>1, SumRemove
      <3> QED BY <3>1, <3>2, SumEmpty
    <2> HIDE DEF u
    <2> QED BY <2>2, <2>3 DEF Minted, MintedToEach, u
  <1> QED BY <1>1, MintedToEachFields

LEMMA MintedToNobody ==
    ASSUME NEW t \in Ledger, NEW f
    PROVE  MintedToEach(t, {}, f) = t
  <1> DEFINE m == MintedToEach(t, {}, f)
  <1>1. m \in Ledger /\ MintsTo(t, m, {}, f)
    BY MintedToEachFields
  <1>2. /\ Snapshots(t, {}) = t.snapshotBalances /\ FeesRead(t, {}) = t.lastFeeIndex
        /\ DistributionsRead(t, {}) = t.lastDistributionIndex
        /\ BalancesMinted(t, {}, f) = t.balances
    BY DEF Snapshots, FeesRead, DistributionsRead, BalancesMinted, Ledger
  <1>3. t.totalSupply + SumFunctionOnSet(f, {}) = t.totalSupply
    BY SumEmpty DEF Ledger
  <1> HIDE DEF m
  <1>4. m = t
    BY <1>1, <1>2, <1>3, LedgerEqual DEF MintsTo
  <1> QED BY <1>4 DEF m

\* One mint more: the account is not among those minted to, and the snapshots
\* taken for it are of the ledger as the call found it.
LEMMA MintedToOneMore ==
    ASSUME NEW t \in Ledger, NEW S \in SUBSET Accounts, NEW a \in Accounts \ S,
           NEW f \in [S -> Nat], NEW g \in [S \cup {a} -> Nat], \A b \in S : g[b] = f[b]
    PROVE  Minted(MintedToEach(t, S, f), a, g[a]) = MintedToEach(t, S \cup {a}, g)
  <1> DEFINE R == S \cup {a}
             u == MintedToEach(t, S, f)
             v == Minted(u, a, g[a])
             w == MintedToEach(t, R, g)
  <1>1. SumFunctionOnSet(g, R) = SumFunctionOnSet(f, S) + g[a]
    <2>1. IsFiniteSet(S) /\ a \notin S
      BY AccountsAssumption, FS_Subset
    <2>2. \A x \in S : f[x] \in Nat /\ g[x] = f[x]
      OBVIOUS
    <2>3. g[a] \in Nat
      OBVIOUS
    <2> QED BY <2>1, <2>2, <2>3, SumInsert
  <1>2. u \in Ledger /\ MintsTo(t, u, S, f)
    BY MintedToEachFields
  <1>3. v \in Ledger /\ MintsTo(u, v, {a}, g)
    <2> HIDE DEF u
    <2> QED BY <1>2, MintedFields
  <1>4. w \in Ledger /\ MintsTo(t, w, R, g)
    BY MintedToEachFields
  <1>10. SumFunctionOnSet(g, {a}) = g[a]
    <3>1. IsFiniteSet({a}) /\ {a} \ {a} = {} /\ a \in {a}
      BY FS_Singleton
    <3>2. SumFunctionOnSet(g, {a}) = g[a] + SumFunctionOnSet(g, {a} \ {a})
      BY <3>1, SumRemove
    <3> QED BY <3>1, <3>2, SumEmpty
  <1> HIDE DEF u, v, w
  <1>5. v.totalSupply = w.totalSupply
    <2>1. SumFunctionOnSet(f, S) \in Nat
      BY AccountsAssumption, FS_Subset, SumType
    <2>2. t.totalSupply \in Nat
      BY DEF Ledger
    <2>3. /\ u.totalSupply = t.totalSupply + SumFunctionOnSet(f, S)
          /\ v.totalSupply = u.totalSupply + g[a]
          /\ w.totalSupply = t.totalSupply + SumFunctionOnSet(g, R)
      BY <1>2, <1>3, <1>4, <1>10 DEF MintsTo
    <2> HIDE DEF R
    <2> QED BY <1>1, <2>1, <2>2, <2>3
  <1>6. BalancesMinted(u, {a}, g) = BalancesMinted(t, R, g)
    BY <1>2 DEF MintsTo, BalancesMinted
  <1>7. FeesRead(u, {a}) = FeesRead(t, R) /\ DistributionsRead(u, {a}) = DistributionsRead(t, R)
    BY <1>2 DEF MintsTo, FeesRead, DistributionsRead
  <1>8. Snapshots(u, {a}) = Snapshots(t, R)
    <2>1. StaleKeys(u, a) = StaleKeys(t, a)
      BY <1>2 DEF MintsTo, StaleKeys, FeesRead, DistributionsRead
    <2>2. u.balances[a] = t.balances[a]
      BY <1>2 DEF MintsTo, BalancesMinted
    <2> QED BY <1>2, <2>1, <2>2 DEF MintsTo, Snapshots
  <1>9. v = w
    BY <1>2, <1>3, <1>4, <1>5, <1>6, <1>7, <1>8, LedgerEqual DEF MintsTo
  <1> QED BY <1>9 DEF u, v, w

\* Approving one account more.
LEMMA ApprovedOneMore ==
    ASSUME CommitTypeOK, NEW S \in SUBSET Accounts, NEW a \in Accounts \ S
    PROVE  /\ ApprovedFor(S)[a] = lpCommitments[a]
           /\ ApprovedFor(S \cup {a}) = [ApprovedFor(S) EXCEPT ![a].status = "APPROVED"]
           /\ Approved(S) \in Nat
           /\ Approved(S \cup {a}) = Approved(S) + lpCommitments[a].amount
  <1> DEFINE f == [b \in S |-> lpCommitments[b].amount]
             g == [b \in S \cup {a} |-> lpCommitments[b].amount]
  <1>1. \A b \in Accounts : lpCommitments[b].amount \in Nat
    BY DEF CommitTypeOK, Commit
  <1>2. IsFiniteSet(S \cup {a}) /\ IsFiniteSet(S) /\ (S \cup {a}) \ {a} = S
    BY AccountsAssumption, FS_Subset
  <1>3. \A x \in S : f[x] \in Nat /\ g[x] = f[x]
    BY <1>1
  <1>5. /\ Approved(S) = SumFunctionOnSet(f, S)
        /\ Approved(S \cup {a}) = SumFunctionOnSet(g, S \cup {a})
    BY DEF Approved, SumFunction
  <1>6. g[a] = lpCommitments[a].amount /\ g[a] \in Nat /\ a \notin S
    BY <1>1
  <1> HIDE DEF f, g
  <1>7. Approved(S) \in Nat /\ Approved(S \cup {a}) = Approved(S) + lpCommitments[a].amount
    <2>1. /\ SumFunctionOnSet(f, S) \in Nat
          /\ SumFunctionOnSet(g, S \cup {a}) = SumFunctionOnSet(f, S) + g[a]
      <3>1. IsFiniteSet(S) /\ a \notin S /\ g[a] \in Nat
        BY <1>2, <1>6
      <3> QED BY <3>1, <1>3, SumInsert, Zenon
    <2> QED BY <1>5, <1>6, <2>1
  <1>8. /\ ApprovedFor(S)[a] = lpCommitments[a]
        /\ ApprovedFor(S \cup {a}) = [ApprovedFor(S) EXCEPT ![a].status = "APPROVED"]
    BY DEF ApprovedFor
  <1> QED BY <1>7, <1>8

LEMMA ApprovedNobody ==
    ASSUME CommitTypeOK
    PROVE  ApprovedFor({}) = lpCommitments /\ Approved({}) = 0
  <1>1. Approved({}) = 0
    BY SumEmpty DEF Approved, SumFunction
  <1> QED BY <1>1 DEF ApprovedFor, CommitTypeOK

LEMMA ApproveStarts ==
    ASSUME TypeOK, NEW list \in ApprovalLists, startApproveCommits(list)
    PROVE  Approving(tx') /\ UNCHANGED <<vars, listVars, scenario>>
  <1> DEFINE S == Before(list, 0)
  <1>1. S = {}
    BY DEF Before
  <1>2. CommitTypeOK /\ TokensType
    BY TypeParts
  <1>3. list \in Seq(Accounts) /\ 0 \in 0..Len(list)
    BY ExecutionAssumption
  <1>4. /\ tx' = [call |-> "approveCommits", pc |-> "accounts", i |-> 1,
                  local |-> [accounts |-> list], written |-> Storage]
        /\ UNCHANGED <<vars, listVars, scenario>>
        /\ totalCommittedLp + Approved(Range(list)) <= MaxCommittedLp
    BY DEF startApproveCommits, Starts
  <1>5. tx'.written = Storage
    BY <1>4
  <1>6. /\ Storage.lpCommitments = lpCommitments /\ Storage.totalCommittedLp = totalCommittedLp
        /\ Storage.tokens = tokens
    BY DEF Storage
  <1>7. IsAt(tx', "approveCommits", "accounts", 0 + 1, [accounts |-> list])
    BY <1>4, <1>5 DEF IsAt
  <1>8. WritesOnly(tx'.written, {"lpCommitments", "totalCommittedLp", "tokens"})
    BY <1>5 DEF WritesOnly
  <1>9. lpCommitments = ApprovedFor(S) /\ totalCommittedLp = totalCommittedLp + Approved(S)
    BY <1>1, <1>2, ApprovedNobody DEF CommitTypeOK
  <1>10. tokens = [tokens EXCEPT !["lpCommit"] =
              MintedToEach(tokens["lpCommit"], S, CommitTokens(S))]
    <2>1. tokens["lpCommit"] \in Ledger
      BY <1>2 DEF TokensType, TokenNames
    <2>2. MintedToEach(tokens["lpCommit"], {}, CommitTokens(S)) = tokens["lpCommit"]
      BY <2>1, MintedToNobody
    <2> QED BY <1>1, <1>2, <2>2 DEF TokensType
  <1> QED BY <1>1, <1>3, <1>4, <1>5, <1>6, <1>7, <1>8, <1>9, <1>10 DEF Approving, ApprovingAt

LEMMA CommitMintedOneMore ==
    ASSUME TypeOK, NEW t \in Ledger, NEW S \in SUBSET Accounts, NEW a \in Accounts \ S
    PROVE  Minted(MintedToEach(t, S, CommitTokens(S)), a, lpCommitments[a].amount \div price)
             = MintedToEach(t, S \cup {a}, CommitTokens(S \cup {a}))
  <1> DEFINE f == CommitTokens(S)
             g == CommitTokens(S \cup {a})
             n == lpCommitments[a].amount \div price
  <1>0. CommitTypeOK
    BY TypeParts
  <1>1. g \in [S \cup {a} -> Nat] /\ f \in [S -> Nat]
    BY <1>0, CommitTokensType
  <1>2. g[a] = n /\ \A b \in S : g[b] = f[b]
    BY DEF CommitTokens
  <1> HIDE DEF f, g, n
  <1>5. Minted(MintedToEach(t, S, f), a, g[a]) = MintedToEach(t, S \cup {a}, g)
    BY <1>1, <1>2, MintedToOneMore
  <1> QED BY <1>2, <1>5 DEF f, g, n

\* The call goes on to its next account: c more is committed, and v tokens minted.
ApprovedNext(x, a, c, v) ==
    [x EXCEPT !.i = @ + 1,
              !.written.lpCommitments[a].status = "APPROVED",
              !.written.totalCommittedLp = @ + c,
              !.written.tokens["lpCommit"] = Minted(@, a, v)]

ApprovedOnceMore(x, y, a, c, v) ==
    /\ y.written.lpCommitments = [x.written.lpCommitments EXCEPT ![a].status = "APPROVED"]
    /\ y.written.totalCommittedLp = x.written.totalCommittedLp + c
    /\ y.written.tokens = [x.written.tokens EXCEPT !["lpCommit"] = Minted(@, a, v)]
    /\ WritesOnly(y.written, {"lpCommitments", "totalCommittedLp", "tokens"})

LEMMA ApprovedOnce ==
    ASSUME NEW x, NEW n \in Nat, NEW local, NEW a, NEW c, NEW v,
           IsAt(x, "approveCommits", "accounts", n, local),
           WritesOnly(x.written, {"lpCommitments", "totalCommittedLp", "tokens"}),
           NEW y, y = ApprovedNext(x, a, c, v)
    PROVE  /\ ApprovedOnceMore(x, y, a, c, v)
           /\ IsAt(y, "approveCommits", "accounts", n + 1, local)
  <1> DEFINE w == x.written
  <1>0. x = [call |-> "approveCommits", pc |-> "accounts", i |-> n, local |-> local,
             written |-> w]
    BY DEF IsAt
  <1> HIDE DEF w
  <1>1. y.written = [w EXCEPT !.lpCommitments[a].status = "APPROVED",
                              !.totalCommittedLp = @ + c,
                              !.tokens["lpCommit"] = Minted(@, a, v)]
    BY <1>0 DEF ApprovedNext
  <1>2. IsAt(y, "approveCommits", "accounts", n + 1, local)
    BY <1>0 DEF IsAt, ApprovedNext
  <1>3. {"lpCommitments", "totalCommittedLp", "tokens"} \subseteq DOMAIN w
    BY DEF WritesOnly, Storage, w
  <1>4. /\ y.written.lpCommitments = [w.lpCommitments EXCEPT ![a].status = "APPROVED"]
        /\ y.written.totalCommittedLp = w.totalCommittedLp + c
        /\ y.written.tokens = [w.tokens EXCEPT !["lpCommit"] = Minted(@, a, v)]
    BY <1>1, <1>3
  <1>5. WritesOnly(y.written, {"lpCommitments", "totalCommittedLp", "tokens"})
    <2> DEFINE names == {"lpCommitments", "totalCommittedLp", "tokens"}
    <2>1. DOMAIN y.written = DOMAIN w /\ \A f \in DOMAIN w \ names : y.written[f] = w[f]
      BY <1>1, <1>3
    <2>2. DOMAIN w = DOMAIN Storage /\ \A f \in DOMAIN Storage \ names : w[f] = Storage[f]
      BY DEF WritesOnly, w
    <2> HIDE DEF names
    <2>3. WritesOnly(y.written, names)
      BY <2>1, <2>2 DEF WritesOnly
    <2> QED BY <2>3 DEF names
  <1> QED BY <1>2, <1>4, <1>5 DEF w, ApprovedOnceMore

LEMMA ApproveContinues ==
    ASSUME TypeOK, Approving(tx), approveNext
    PROVE  (tx' = Idle \/ Approving(tx')) /\ UNCHANGED <<vars, listVars, scenario>>
  <1>0. PICK list \in ApprovalLists : \E n \in 0..Len(list) : ApprovingAt(tx, list, n)
    BY DEF Approving
  <1>1. PICK n \in 0..Len(list) : ApprovingAt(tx, list, n)
    BY <1>0
  <1> DEFINE S == Before(list, n)
             w == tx.written
             a == list[n + 1]
             R == Before(list, n + 1)
             t == tokens["lpCommit"]
             amount == lpCommitments[a].amount
  <1>2. tx = [call |-> "approveCommits", pc |-> "accounts", i |-> n + 1,
              local |-> [accounts |-> list], written |-> w]
    BY <1>1 DEF ApprovingAt, IsAt
  <1>3. n + 1 \in 0..Len(list) /\ list \in Seq(Accounts) /\ tx.local.accounts[tx.i] = a
    BY <1>2, ExecutionAssumption DEF approveNext, InLoop
  <1>4. a \in Accounts /\ S \subseteq Accounts /\ R = S \cup {a}
    BY <1>3, BeforeStep, BeforeAll
  <1>5. CommitTypeOK /\ TokensType /\ t \in Ledger
    BY TypeParts DEF TokensType, TokenNames
  <1>6. CASE Reverts
    BY <1>6 DEF Reverts
  <1>7. ASSUME IsPending(a), MayMintInto(w.tokens, "lpCommit", a),
               Continues([tx EXCEPT
                       !.i = @ + 1,
                       !.written.lpCommitments[a].status = "APPROVED",
                       !.written.totalCommittedLp = @ + w.lpCommitments[a].amount,
                       !.written.tokens["lpCommit"] =
                           Minted(@, a, w.lpCommitments[a].amount \div price)])
        PROVE  Approving(tx') /\ UNCHANGED <<vars, listVars, scenario>>
    <2>1. a \notin S /\ lpCommitments[a].status = "PENDING"
      BY <1>1, <1>4, <1>5, <1>7 DEF ApprovingAt, IsPending, ApprovedFor, CommitTypeOK, Commit
    <2> HIDE DEF S, R, a
    <2>2. /\ w.lpCommitments[a].amount = amount /\ amount \in Nat
          /\ ApprovedFor(R) = [ApprovedFor(S) EXCEPT ![a].status = "APPROVED"]
          /\ Approved(S) \in Nat /\ Approved(R) = Approved(S) + amount
      <3>1. /\ ApprovedFor(S)[a] = lpCommitments[a]
            /\ ApprovedFor(R) = [ApprovedFor(S) EXCEPT ![a].status = "APPROVED"]
            /\ Approved(S) \in Nat /\ Approved(R) = Approved(S) + amount
        BY <1>4, <1>5, <2>1, ApprovedOneMore
      <3> QED BY <1>1, <1>4, <1>5, <3>1 DEF ApprovingAt, S, CommitTypeOK, Commit
    <2>3. /\ CommitTokens(R)[a] = amount \div price /\ CommitTokens(R)[a] \in Nat
          /\ \A b \in S : CommitTokens(S)[b] \in Nat /\ CommitTokens(R)[b] = CommitTokens(S)[b]
      <3>1. CommitTokens(R) \in [R -> Nat] /\ CommitTokens(S) \in [S -> Nat]
        BY <1>4, CommitTokensType
      <3> QED BY <1>4, <3>1 DEF CommitTokens
    <2>4. Minted(MintedToEach(t, S, CommitTokens(S)), a, amount \div price)
            = MintedToEach(t, R, CommitTokens(R))
      <3> HIDE DEF t
      <3>1. a \in Accounts \ S
        BY <1>4, <2>1
      <3>2. Minted(MintedToEach(t, S, CommitTokens(S)), a, lpCommitments[a].amount \div price)
              = MintedToEach(t, S \cup {a}, CommitTokens(S \cup {a}))
        BY <1>4, <1>5, <3>1, CommitMintedOneMore
      <3> QED BY <1>4, <3>2
    <2> DEFINE u == MintedToEach(t, S, CommitTokens(S))
               v == MintedToEach(t, R, CommitTokens(R))
               L == [w.lpCommitments EXCEPT ![a].status = "APPROVED"]
               T == [w.tokens EXCEPT !["lpCommit"] = v]
               C == w.totalCommittedLp + amount
    <2>5. w.tokens = [tokens EXCEPT !["lpCommit"] = u] /\ w.tokens["lpCommit"] = u
      BY <1>1, <1>5 DEF ApprovingAt, S, TokensType, TokenNames
    <2>6. MayMint("lpCommit", a)
      <3>1. MintsTo(t, u, S, CommitTokens(S))
        BY <1>4, <1>5, <2>3, MintedToEachFields
      <3>2. u.paused = t.paused /\ u.isCommitToken = t.isCommitToken
        BY <3>1 DEF MintsTo
      <3> HIDE DEF u
      <3> QED BY <1>7, <2>5, <3>2 DEF MayMintInto, MayMint, MayMove
    <2> HIDE DEF u, v, w
    <2>7. /\ tx' = [tx EXCEPT !.i = @ + 1,
                      !.written.lpCommitments[a].status = "APPROVED",
                      !.written.totalCommittedLp = @ + amount,
                      !.written.tokens["lpCommit"] = Minted(@, a, amount \div price)]
          /\ Minted(w.tokens["lpCommit"], a, amount \div price) = v
      BY <1>7, <2>2, <2>4, <2>5 DEF Continues, u, v
    <2>8. /\ L = ApprovedFor(R) /\ C = totalCommittedLp + Approved(R)
          /\ T = [tokens EXCEPT !["lpCommit"] = v]
      <3>1. w.lpCommitments = ApprovedFor(S) /\ w.totalCommittedLp = totalCommittedLp + Approved(S)
        BY <1>1 DEF ApprovingAt, S, w
      <3>2. T = [tokens EXCEPT !["lpCommit"] = v]
        BY <1>5, <2>5 DEF TokensType
      <3>3. L = ApprovedFor(R)
        BY <2>2, <3>1
      <3>4. totalCommittedLp \in Nat
        BY <1>5 DEF CommitTypeOK
      <3>5. C = totalCommittedLp + Approved(R)
        <4> HIDE DEF amount
        <4> QED BY <2>2, <3>1, <3>4
      <3> QED BY <3>2, <3>3, <3>5
    <2>9. WritesOnly(w, {"lpCommitments", "totalCommittedLp", "tokens"})
      BY <1>1 DEF ApprovingAt, w
    <2>10. /\ tx'.written.lpCommitments = L /\ tx'.written.totalCommittedLp = C
           /\ tx'.written.tokens = T
           /\ WritesOnly(tx'.written, {"lpCommitments", "totalCommittedLp", "tokens"})
           /\ IsAt(tx', "approveCommits", "accounts", (n + 1) + 1, [accounts |-> list])
      <3> HIDE DEF amount
      <3>1. n + 1 \in Nat
        OBVIOUS
      <3> DEFINE m == amount \div price
      <3>2. Minted(w.tokens["lpCommit"], a, m) = v
        BY <2>7
      <3>3. tx' = [tx EXCEPT !.i = @ + 1,
                     !.written.lpCommitments[a].status = "APPROVED",
                     !.written.totalCommittedLp = @ + amount,
                     !.written.tokens["lpCommit"] = Minted(@, a, m)]
        BY <2>7
      <3> HIDE DEF m, L, C, T
      <3>4. /\ tx'.written.lpCommitments = [w.lpCommitments EXCEPT ![a].status = "APPROVED"]
            /\ tx'.written.totalCommittedLp = w.totalCommittedLp + amount
            /\ tx'.written.tokens = [w.tokens EXCEPT !["lpCommit"] = Minted(@, a, m)]
            /\ WritesOnly(tx'.written, {"lpCommitments", "totalCommittedLp", "tokens"})
            /\ IsAt(tx', "approveCommits", "accounts", (n + 1) + 1, [accounts |-> list])
        <4>1. tx' = ApprovedNext(tx, a, amount, m)
          BY <3>3 DEF ApprovedNext
        <4>2. IsAt(tx, "approveCommits", "accounts", n + 1, [accounts |-> list])
          BY <1>1 DEF ApprovingAt
        <4> DEFINE y == tx'
                   local == [accounts |-> list]
        <4>3. /\ IsAt(tx, "approveCommits", "accounts", n + 1, local)
              /\ WritesOnly(tx.written, {"lpCommitments", "totalCommittedLp", "tokens"})
              /\ y = ApprovedNext(tx, a, amount, m)
          BY <2>9, <4>1, <4>2 DEF w
        <4> HIDE DEF y, local
        <4>4. ApprovedOnceMore(tx, y, a, amount, m)
              /\ IsAt(y, "approveCommits", "accounts", (n + 1) + 1, local)
          BY <3>1, <4>3, ApprovedOnce
        <4> QED BY <4>4 DEF w, y, local, ApprovedOnceMore
      <3> QED BY <3>2, <3>4 DEF L, C, T
    <2> HIDE DEF L, T, C
    <2>12. \A b \in R : lpCommitments[b].status = "PENDING" /\ MayMint("lpCommit", b)
      BY <1>1, <1>4, <2>1, <2>6 DEF ApprovingAt, S
    <2> HIDE DEF amount, t
    <2>13. Approving(tx')
      BY <1>1, <1>3, <2>8, <2>10, <2>12 DEF Approving, ApprovingAt, R, t, v
    <2> QED BY <1>7, <2>13 DEF Continues
  <1> QED BY <1>3, <1>6, <1>7 DEF approveNext, Requires


LEMMA WritesRest ==
    ASSUME NEW w, NEW names, WritesOnly(w, names), Returns(w)
    PROVE  /\ "lpCommitments" \notin names => UNCHANGED lpCommitments
           /\ "totalCommittedLp" \notin names => UNCHANGED totalCommittedLp
           /\ "capitalCalls" \notin names => UNCHANGED capitalCalls
           /\ "accountCapitalCalls" \notin names => UNCHANGED accountCapitalCalls
           /\ "totalCalled" \notin names => UNCHANGED totalCalled
           /\ "redemptions" \notin names => UNCHANGED redemptions
           /\ "totalRedemptions" \notin names => UNCHANGED totalRedemptions
           /\ "interestEntries" \notin names => UNCHANGED interestEntries
           /\ "tokens" \notin names => UNCHANGED tokens
           /\ "cash" \notin names => UNCHANGED cash
           /\ "distributionCount" \notin names => UNCHANGED distributionCount
           /\ "totalDistributed" \notin names => UNCHANGED totalDistributed
           /\ "lpReturn" \notin names => UNCHANGED lpReturn
           /\ "gpReturn" \notin names => UNCHANGED gpReturn
           /\ "gpCatchup" \notin names => UNCHANGED gpCatchup
  BY DEF WritesOnly, Returns, Storage

LEMMA ApprovedType ==
    ASSUME CommitTypeOK, NEW S \in SUBSET Accounts
    PROVE  Approved(S) \in Nat
  <1> DEFINE f == [b \in S |-> lpCommitments[b].amount]
  <1>1. IsFiniteSet(S) /\ \A b \in S : f[b] \in Nat
    BY AccountsAssumption, FS_Subset DEF CommitTypeOK, Commit
  <1>2. Approved(S) = SumFunctionOnSet(f, S)
    BY DEF Approved, SumFunction
  <1> HIDE DEF f
  <1>3. SumFunctionOnSet(f, S) \in Nat
    BY <1>1, SumType
  <1> QED BY <1>2, <1>3

LEMMA ApproveReturns ==
    ASSUME TypeOK, Approving(tx), approveReturns
    PROVE  /\ \E list \in ApprovalLists : approveCommits(Range(list))
           /\ tx' = Idle /\ UNCHANGED <<listVars, scenario>>
  <1>0. PICK list \in ApprovalLists : \E n \in 0..Len(list) : ApprovingAt(tx, list, n)
    BY DEF Approving
  <1>1. PICK n \in 0..Len(list) : ApprovingAt(tx, list, n)
    BY <1>0
  <1> DEFINE S == Range(list)
             w == tx.written
             t == MintedToEach(tokens["lpCommit"], S, CommitTokens(S))
  <1>2. list \in Seq(Accounts) /\ S \subseteq Accounts
    BY ExecutionAssumption, BeforeAll
  <1>3. n = Len(list) /\ Before(list, n) = S
    <2>1. tx.i = n + 1 /\ tx.local.accounts = list
      BY <1>1 DEF ApprovingAt, IsAt
    <2> QED BY <1>2, <2>1, BeforeAll DEF approveReturns, LoopEnds
  <1>4. CommitTypeOK /\ TokensType
    BY TypeParts
  <1>5. Returns(w) /\ WritesOnly(w, {"lpCommitments", "totalCommittedLp", "tokens"})
    BY <1>1 DEF approveReturns, ApprovingAt
  <1>6. /\ w.lpCommitments = ApprovedFor(S)
        /\ w.totalCommittedLp = totalCommittedLp + Approved(S)
        /\ w.tokens = [tokens EXCEPT !["lpCommit"] = t]
        /\ \A a \in S : lpCommitments[a].status = "PENDING" /\ MayMint("lpCommit", a)
        /\ totalCommittedLp + Approved(S) <= MaxCommittedLp
    BY <1>1, <1>3 DEF ApprovingAt
  <1>7. IsUint(t.totalSupply)
    <2>1. \A a \in S : CommitTokens(S)[a] \in Nat
      BY <1>2, CommitTokensType
    <2>2. tokens["lpCommit"] \in Ledger
      BY <1>4 DEF TokensType, TokenNames
    <2>3. t \in Ledger
      BY <1>2, <2>1, <2>2, MintedToEachFields
    <2> HIDE DEF t
    <2> QED BY <2>3 DEF Ledger, IsUint
  <1>12. IsUint(Approved(S))
    BY <1>2, <1>4, ApprovedType DEF IsUint
  <1> HIDE DEF w, t, S
  <1>8. /\ UNCHANGED <<callVars, redemptionVars, interestEntries, cash, terms, distVars, envVars>>
        /\ UNCHANGED <<gpCommitments, gpAccounts, lpAccounts, totalInPendingLpCommits,
                       totalCommittedGp>>
        /\ tx' = Idle /\ UNCHANGED <<listVars, scenario>>
        /\ lpCommitments' = w.lpCommitments /\ totalCommittedLp' = w.totalCommittedLp
        /\ tokens' = w.tokens
    BY <1>5, WritesRest DEF Returns, callVars, redemptionVars, distVars, envVars
  <1>9. ApproveLpCommitments(S)
    BY <1>6, <1>8, <1>12 DEF ApproveLpCommitments, ApprovedFor
  <1>10. tokens' = [tokens EXCEPT !["lpCommit"] = t] /\ tokens'["lpCommit"] = t
    BY <1>4, <1>6, <1>8 DEF TokensType, TokenNames
  <1>11. approveCommits(S)
    BY <1>6, <1>7, <1>8, <1>9, <1>10 DEF approveCommits, t
  <1> QED BY <1>8, <1>11 DEF S

-----------------------------------------------------------------------------
(* pauseTokens and unpauseTokens.                                          *)

SwitchedTo(S, p) ==
    [k \in TokenNames |-> IF k \in S THEN [tokens[k] EXCEPT !.paused = p] ELSE tokens[k]]

SwitchingAt(x, call, p, n) ==
    /\ IsAt(x, call, "tokens", n + 1, [paused |-> p])
    /\ WritesOnly(x.written, {"tokens"})
    /\ x.written.tokens = SwitchedTo(Before(TokenOrder, n), p)
    /\ \A k \in Before(TokenOrder, n) : tokens[k].paused # p

SwitchedNext(x, k, p) == [x EXCEPT !.i = @ + 1, !.written.tokens[k].paused = p]

Switching(x) ==
    \E n \in 0..4 : \/ SwitchingAt(x, "pauseTokens", TRUE, n)
                    \/ SwitchingAt(x, "unpauseTokens", FALSE, n)

LEMMA TokenOrderCovers ==
    /\ Len(TokenOrder) = 4 /\ Before(TokenOrder, 0) = {}
    /\ Before(TokenOrder, 4) = TokenNames
    /\ \A n \in 0..3 : /\ TokenOrder[n + 1] \in TokenNames
                       /\ TokenOrder[n + 1] \notin Before(TokenOrder, n)
                       /\ Before(TokenOrder, n + 1) = Before(TokenOrder, n) \cup {TokenOrder[n + 1]}
  <1>1. Len(TokenOrder) = 4
    BY DEF TokenOrder
  <1>2. 1..4 = {1, 2, 3, 4}
    OBVIOUS
  <1>3. Before(TokenOrder, 4) = TokenNames
    BY <1>2 DEF Before, TokenOrder, TokenNames
  <1>4. ASSUME NEW n \in 0..3
        PROVE  /\ TokenOrder[n + 1] \in TokenNames
               /\ TokenOrder[n + 1] \notin Before(TokenOrder, n)
    <2>1. n = 0 \/ n = 1 \/ n = 2 \/ n = 3
      OBVIOUS
    <2>2. 1..0 = {} /\ 1..1 = {1} /\ 1..2 = {1, 2} /\ 1..3 = {1, 2, 3}
      OBVIOUS
    <2> QED BY <2>1, <2>2 DEF Before, TokenOrder, TokenNames
  <1> QED BY <1>1, <1>3, <1>4, BeforeStep

LEMMA SwitchStarts ==
    ASSUME TypeOK, startPauseTokens \/ startUnpauseTokens
    PROVE  Switching(tx') /\ UNCHANGED <<vars, listVars, scenario>>
  <1>1. TokensType
    BY TypeParts
  <1>2. ASSUME NEW call, NEW p, Starts(call, "tokens", [paused |-> p])
        PROVE  SwitchingAt(tx', call, p, 0)
    <2>1. tx' = [call |-> call, pc |-> "tokens", i |-> 1, local |-> [paused |-> p],
                 written |-> Storage]
      BY <1>2 DEF Starts
    <2>2. tx'.written = Storage /\ IsAt(tx', call, "tokens", 0 + 1, [paused |-> p])
      BY <2>1 DEF IsAt
    <2>3. WritesOnly(Storage, {"tokens"}) /\ Storage.tokens = tokens
      BY DEF WritesOnly, Storage
    <2>4. tokens = SwitchedTo({}, p)
      BY <1>1 DEF TokensType, SwitchedTo
    <2> QED BY <2>2, <2>3, <2>4, TokenOrderCovers DEF SwitchingAt
  <1>3. ASSUME startPauseTokens PROVE Switching(tx')
    <2>1. SwitchingAt(tx', "pauseTokens", TRUE, 0)
      BY <1>2, <1>3 DEF startPauseTokens
    <2>2. 0 \in 0..4
      OBVIOUS
    <2> QED BY <2>1, <2>2, Zenon DEF Switching
  <1>4. ASSUME startUnpauseTokens PROVE Switching(tx')
    <2>1. SwitchingAt(tx', "unpauseTokens", FALSE, 0)
      BY <1>2, <1>4 DEF startUnpauseTokens
    <2>2. 0 \in 0..4
      OBVIOUS
    <2> QED BY <2>1, <2>2, Zenon DEF Switching
  <1> QED BY <1>3, <1>4 DEF startPauseTokens, startUnpauseTokens, Starts

LEMMA SwitchContinues ==
    ASSUME TypeOK, Switching(tx), switchNext
    PROVE  (tx' = Idle \/ Switching(tx')) /\ UNCHANGED <<vars, listVars, scenario>>
  <1>1. TokensType
    BY TypeParts
  <1>2. ASSUME NEW call, NEW p \in BOOLEAN, NEW n \in 0..4, SwitchingAt(tx, call, p, n)
        PROVE  /\ tx' = Idle \/ (n < 4 /\ SwitchingAt(tx', call, p, n + 1))
               /\ UNCHANGED <<vars, listVars, scenario>>
    <2> DEFINE w == tx.written
               S == Before(TokenOrder, n)
               k == TokenOrder[n + 1]
               local == [paused |-> p]
    <2>1. tx = [call |-> call, pc |-> "tokens", i |-> n + 1, local |-> local, written |-> w]
      BY <1>2 DEF SwitchingAt, IsAt
    <2>2. n \in 0..3 /\ local.paused = p
      BY <2>1, TokenOrderCovers DEF switchNext
    <2>3. /\ k \in TokenNames /\ k \notin S /\ Before(TokenOrder, n + 1) = S \cup {k}
      BY <2>2, TokenOrderCovers
    <2>4. \/ Reverts
          \/ w.tokens[k].paused # p /\ Continues(SwitchedNext(tx, k, p))
      <3>1. tx.i = n + 1 /\ tx.local.paused = p
        BY <2>1, <2>2
      <3>2. \/ Reverts
            \/ /\ w.tokens[TokenOrder[tx.i]].paused # tx.local.paused
               /\ Continues(SwitchedNext(tx, TokenOrder[tx.i], tx.local.paused))
        BY DEF switchNext, Requires, SwitchedNext
      <3> QED BY <3>1, <3>2
    <2>5. CASE Reverts
      BY <2>5 DEF Reverts
    <2>6. ASSUME w.tokens[k].paused # p, Continues(SwitchedNext(tx, k, p))
          PROVE  SwitchingAt(tx', call, p, n + 1) /\ UNCHANGED <<vars, listVars, scenario>>
      <3>1. /\ WritesOnly(w, {"tokens"}) /\ w.tokens = SwitchedTo(S, p)
            /\ \A l \in S : tokens[l].paused # p
        BY <1>2 DEF SwitchingAt
      <3>2. w.tokens[k] = tokens[k]
        BY <2>3, <3>1 DEF SwitchedTo
      <3>3. [w.tokens EXCEPT ![k].paused = p] = SwitchedTo(S \cup {k}, p)
        BY <2>3, <3>1 DEF SwitchedTo
      <3> HIDE DEF w, S, k, local
      <3>4. tx' = [tx EXCEPT !.i = @ + 1, !.written.tokens[k].paused = p]
        BY <2>6 DEF Continues, SwitchedNext
      <3>5. /\ tx'.written = [w EXCEPT !.tokens[k].paused = p]
            /\ tx' = [call |-> call, pc |-> "tokens", i |-> (n + 1) + 1, local |-> local,
                      written |-> tx'.written]
        BY <2>1, <3>4
      <3>6. /\ tx'.written.tokens = [w.tokens EXCEPT ![k].paused = p]
            /\ WritesOnly(tx'.written, {"tokens"})
        BY <3>1, <3>5 DEF WritesOnly, Storage
      <3>7. IsAt(tx', call, "tokens", (n + 1) + 1, local)
        BY <3>5 DEF IsAt
      <3>8. \A l \in S \cup {k} : tokens[l].paused # p
        BY <2>6, <3>1, <3>2
      <3>9. UNCHANGED <<vars, listVars, scenario>>
        BY <2>6 DEF Continues
      <3> QED BY <2>3, <3>3, <3>6, <3>7, <3>8, <3>9 DEF SwitchingAt, local
    <2> QED BY <2>2, <2>4, <2>5, <2>6
  <1>3. PICK n \in 0..4 : \/ SwitchingAt(tx, "pauseTokens", TRUE, n)
                          \/ SwitchingAt(tx, "unpauseTokens", FALSE, n)
    BY DEF Switching
  <1>4. ASSUME SwitchingAt(tx, "pauseTokens", TRUE, n)
        PROVE  (tx' = Idle \/ Switching(tx')) /\ UNCHANGED <<vars, listVars, scenario>>
    <2>1. /\ tx' = Idle \/ (n < 4 /\ SwitchingAt(tx', "pauseTokens", TRUE, n + 1))
          /\ UNCHANGED <<vars, listVars, scenario>>
      BY <1>2, <1>4
    <2>2. n < 4 => n + 1 \in 0..4
      OBVIOUS
    <2> QED BY <2>1, <2>2 DEF Switching
  <1>5. ASSUME SwitchingAt(tx, "unpauseTokens", FALSE, n)
        PROVE  (tx' = Idle \/ Switching(tx')) /\ UNCHANGED <<vars, listVars, scenario>>
    <2>1. /\ tx' = Idle \/ (n < 4 /\ SwitchingAt(tx', "unpauseTokens", FALSE, n + 1))
          /\ UNCHANGED <<vars, listVars, scenario>>
      BY <1>2, <1>5
    <2>2. n < 4 => n + 1 \in 0..4
      OBVIOUS
    <2> QED BY <2>1, <2>2 DEF Switching
  <1> QED BY <1>3, <1>4, <1>5

LEMMA SwitchReturns ==
    ASSUME TypeOK, Switching(tx), switchReturns
    PROVE  /\ pauseTokens \/ unpauseTokens
           /\ tx' = Idle /\ UNCHANGED <<listVars, scenario>>
  <1>1. TokensType /\ \A k \in TokenNames : tokens[k].paused \in BOOLEAN
    BY TypeParts DEF TokensType, Ledger
  <1>2. ASSUME NEW call, NEW p \in BOOLEAN, NEW n \in 0..4, SwitchingAt(tx, call, p, n)
        PROVE  /\ \A k \in TokenNames : tokens[k].paused # p
               /\ tokens' = [k \in TokenNames |-> [tokens[k] EXCEPT !.paused = p]]
    <2>1. tx.i = n + 1
      BY <1>2 DEF SwitchingAt, IsAt
    <2>2. n = 4
      BY <2>1, TokenOrderCovers DEF switchReturns
    <2>3. /\ \A k \in TokenNames : tokens[k].paused # p
          /\ tx.written.tokens = SwitchedTo(TokenNames, p)
      BY <1>2, <2>2, TokenOrderCovers DEF SwitchingAt
    <2>4. tokens' = tx.written.tokens
      BY DEF switchReturns, Returns
    <2> QED BY <2>3, <2>4 DEF SwitchedTo
  <1>3. PICK n \in 0..4 : \/ SwitchingAt(tx, "pauseTokens", TRUE, n)
                          \/ SwitchingAt(tx, "unpauseTokens", FALSE, n)
    BY DEF Switching
  <1>4. WritesOnly(tx.written, {"tokens"}) /\ Returns(tx.written)
    BY <1>3 DEF SwitchingAt, switchReturns
  <1>5. /\ UNCHANGED <<commitVars, callVars, redemptionVars, interestEntries, cash,
                       terms, distVars, envVars>>
        /\ tx' = Idle /\ UNCHANGED <<listVars, scenario>>
    BY <1>4, WritesRest DEF Returns, commitVars, callVars, redemptionVars, distVars, envVars
  <1>6. ASSUME SwitchingAt(tx, "pauseTokens", TRUE, n) PROVE pauseTokens
    <2>1. /\ \A k \in TokenNames : tokens[k].paused # TRUE
          /\ tokens' = [k \in TokenNames |-> [tokens[k] EXCEPT !.paused = TRUE]]
      BY <1>2, <1>6
    <2> QED BY <1>5, <2>1 DEF pauseTokens
  <1>7. ASSUME SwitchingAt(tx, "unpauseTokens", FALSE, n) PROVE unpauseTokens
    <2>1. /\ \A k \in TokenNames : tokens[k].paused # FALSE
          /\ tokens' = [k \in TokenNames |-> [tokens[k] EXCEPT !.paused = FALSE]]
      BY <1>2, <1>7
    <2> QED BY <1>1, <1>5, <2>1 DEF unpauseTokens
  <1> QED BY <1>3, <1>5, <1>6, <1>7

-----------------------------------------------------------------------------
(* markFeesAsPaidUpToID.                                                   *)

MarkedTo(k, n, S) == [tokens EXCEPT ![k] = FeesMarked(tokens[k], n, S)]

MarkingAt(x, w, n) ==
    /\ IsAt(x, "markFeesAsPaidUpToID", "accounts", n + 1, w)
    /\ WritesOnly(x.written, {"tokens"})
    /\ x.written.tokens = MarkedTo(w.token, w.upToId, Before(w.accounts, n))
    /\ MayMarkFees(tokens[w.token], w.upToId, Before(w.accounts, n))

Marking(x) == \E w \in WaiverLists : \E n \in 0..Len(w.accounts) : MarkingAt(x, w, n)

LEMMA WaiverFields ==
    ASSUME NEW w \in WaiverLists
    PROVE  w.token \in TokenNames /\ w.upToId \in Nat /\ w.accounts \in Seq(Accounts)
  BY ExecutionAssumption

LEMMA MarkStarts ==
    ASSUME TypeOK, NEW w \in WaiverLists, startMarkFeesAsPaidUpToID(w)
    PROVE  Marking(tx') /\ UNCHANGED <<vars, listVars, scenario>>
  <1>1. TokensType /\ tokens[w.token] \in Ledger
    BY TypeParts, WaiverFields DEF TokensType
  <1>2. /\ tx' = [call |-> "markFeesAsPaidUpToID", pc |-> "accounts", i |-> 1, local |-> w,
                  written |-> Storage]
        /\ UNCHANGED <<vars, listVars, scenario>>
    BY DEF startMarkFeesAsPaidUpToID, Starts
  <1>3. tx'.written = Storage /\ IsAt(tx', "markFeesAsPaidUpToID", "accounts", 0 + 1, w)
    BY <1>2 DEF IsAt
  <1>4. WritesOnly(Storage, {"tokens"}) /\ Storage.tokens = tokens
    BY DEF WritesOnly, Storage
  <1>5. Before(w.accounts, 0) = {}
    BY BeforeStep
  <1>6. FeesMarked(tokens[w.token], w.upToId, {}) = tokens[w.token]
    BY <1>1 DEF FeesMarked, Ledger
  <1>7. tokens = MarkedTo(w.token, w.upToId, {})
    BY <1>1, <1>6 DEF TokensType, MarkedTo
  <1>8. MarkingAt(tx', w, 0)
    BY <1>3, <1>4, <1>5, <1>7 DEF MarkingAt, MayMarkFees
  <1>9. 0 \in 0..Len(w.accounts)
    BY WaiverFields
  <1> QED BY <1>2, <1>8, <1>9, Zenon DEF Marking

Waived(ts, k, n, a) == [ts EXCEPT ![k].lastFeeIndex[a] = n]
WaivedUpTo(ts, k, a) == ts[k].lastFeeIndex[a]

\* One account more: it may have been waived for before.
LEMMA MarkedOneMore ==
    ASSUME TypeOK, NEW k \in TokenNames, NEW n \in Nat, NEW S, NEW a \in Accounts
    PROVE  /\ a \in S => WaivedUpTo(MarkedTo(k, n, S), k, a) = n
           /\ a \notin S => WaivedUpTo(MarkedTo(k, n, S), k, a) = WaivedUpTo(tokens, k, a)
           /\ WaivedUpTo(tokens, k, a) \in Nat
           /\ MarkedTo(k, n, S \cup {a}) = Waived(MarkedTo(k, n, S), k, n, a)
           /\ WaivedUpTo(MarkedTo(k, n, S), k, a) = n
                => MarkedTo(k, n, S \cup {a}) = MarkedTo(k, n, S)
  <1> DEFINE t == tokens[k]
             u == FeesMarked(t, n, S)
             v == FeesMarked(t, n, S \cup {a})
  <1>1. tokens \in [TokenNames -> Ledger] /\ t \in Ledger
    BY TypeParts DEF TokensType
  <1>2. /\ u \in Ledger /\ v \in Ledger
        /\ u.lastFeeIndex = [b \in Accounts |-> IF b \in S THEN n ELSE t.lastFeeIndex[b]]
        /\ v.lastFeeIndex = [b \in Accounts |-> IF b \in S \cup {a} THEN n ELSE t.lastFeeIndex[b]]
    BY <1>1, FeesMarkedType DEF FeesMarked, Ledger
  <1>3. v = [u EXCEPT !.lastFeeIndex[a] = n]
    <2>1. v = [t EXCEPT !.lastFeeIndex = v.lastFeeIndex]
          /\ u = [t EXCEPT !.lastFeeIndex = u.lastFeeIndex]
      BY <1>1 DEF FeesMarked, Ledger
    <2>2. v.lastFeeIndex = [u.lastFeeIndex EXCEPT ![a] = n]
      BY <1>2
    <2> HIDE DEF u, v, t
    <2> QED BY <1>1, <2>1, <2>2 DEF Ledger
  <1>4. MarkedTo(k, n, S) = [tokens EXCEPT ![k] = u]
        /\ MarkedTo(k, n, S \cup {a}) = [tokens EXCEPT ![k] = v]
    BY DEF MarkedTo
  <1> HIDE DEF u, v
  <1>5. MarkedTo(k, n, S)[k] = u
    BY <1>1, <1>4
  <1>6. MarkedTo(k, n, S \cup {a}) = Waived(MarkedTo(k, n, S), k, n, a)
    BY <1>1, <1>3, <1>4, <1>5 DEF Waived
  <1>7. ASSUME u.lastFeeIndex[a] = n PROVE u = v
    <2>1. [u.lastFeeIndex EXCEPT ![a] = n] = u.lastFeeIndex
      BY <1>2, <1>7
    <2> QED BY <1>2, <1>3, <2>1 DEF Ledger
  <1>8. MarkedTo(k, n, S)[k].lastFeeIndex[a] = IF a \in S THEN n ELSE tokens[k].lastFeeIndex[a]
    BY <1>2, <1>5
  <1>9. tokens[k].lastFeeIndex[a] \in Nat
    BY <1>1 DEF Ledger
  <1> QED BY <1>4, <1>5, <1>6, <1>7, <1>8, <1>9 DEF WaivedUpTo

AdvancedNext(x, k, a, n) == [x EXCEPT !.i = @ + 1, !.written.tokens[k].lastFeeIndex[a] = n]

SteppedOver(x) == [x EXCEPT !.i = @ + 1]

LEMMA MarkContinues ==
    ASSUME TypeOK, Marking(tx), waiveNext
    PROVE  (tx' = Idle \/ Marking(tx')) /\ UNCHANGED <<vars, listVars, scenario>>
  <1>0. PICK w \in WaiverLists : \E n \in 0..Len(w.accounts) : MarkingAt(tx, w, n)
    BY DEF Marking
  <1>1. PICK n \in 0..Len(w.accounts) : MarkingAt(tx, w, n)
    BY <1>0
  <1> DEFINE wr == tx.written
             k == w.token
             m == w.upToId
             a == w.accounts[n + 1]
             S == Before(w.accounts, n)
             R == Before(w.accounts, n + 1)
             old == WaivedUpTo(tokens, k, a)
             index == WaivedUpTo(wr.tokens, k, a)
  <1>2. /\ tx = [call |-> "markFeesAsPaidUpToID", pc |-> "accounts", i |-> n + 1, local |-> w,
                 written |-> wr]
        /\ WritesOnly(wr, {"tokens"}) /\ wr.tokens = MarkedTo(k, m, S)
        /\ MayMarkFees(tokens[k], m, S)
    BY <1>1 DEF MarkingAt, IsAt
  <1>3. tx.i = n + 1 /\ tx.local = w
    BY <1>2
  <1>4. n + 1 \in 0..Len(w.accounts)
    BY <1>3, WaiverFields DEF waiveNext, InLoop
  <1>5. k \in TokenNames /\ m \in Nat /\ a \in Accounts /\ R = S \cup {a}
    BY <1>4, WaiverFields, BeforeStep
  <1>6. /\ a \in S => index = m
        /\ a \notin S => index = old
        /\ old \in Nat
        /\ MarkedTo(k, m, R) = Waived(MarkedTo(k, m, S), k, m, a)
        /\ index = m => MarkedTo(k, m, R) = MarkedTo(k, m, S)
    <2> HIDE DEF k, m, a, S, R
    <2> QED BY <1>2, <1>5, MarkedOneMore
  <1>7. \/ Reverts
        \/ /\ m >= index
           /\ Continues(IF m > index THEN AdvancedNext(tx, k, a, m) ELSE SteppedOver(tx))
    <2>1. \/ Reverts
          \/ /\ tx.local.upToId >= FeeIndex(tx.local.accounts[tx.i])
             /\ Continues(IF tx.local.upToId > FeeIndex(tx.local.accounts[tx.i])
                          THEN AdvancedNext(tx, tx.local.token, tx.local.accounts[tx.i],
                                            tx.local.upToId)
                          ELSE SteppedOver(tx))
      BY DEF waiveNext, Requires, MayAdvance, AfterWaiver, AdvancedNext, SteppedOver
    <2>2. FeeIndex(tx.local.accounts[tx.i]) = index
      BY <1>3 DEF FeeIndex, WaivedUpTo
    <2> HIDE DEF index
    <2> QED BY <1>3, <2>1, <2>2
  <1>8. CASE Reverts
    BY <1>8 DEF Reverts
  <1>9. ASSUME m >= index,
               Continues(IF m > index THEN AdvancedNext(tx, k, a, m) ELSE SteppedOver(tx))
        PROVE  Marking(tx') /\ UNCHANGED <<vars, listVars, scenario>>
    <2>1. MayMarkFees(tokens[k], m, R)
      BY <1>2, <1>5, <1>6, <1>9 DEF MayMarkFees, WaivedUpTo
    <2> HIDE DEF wr, k, m, a, S, R, old
    <2>2. CASE m > index
      <3>1. tx' = [tx EXCEPT !.i = @ + 1, !.written.tokens[k].lastFeeIndex[a] = m]
        BY <1>9, <2>2 DEF Continues, AdvancedNext
      <3>2. /\ tx'.written = [wr EXCEPT !.tokens[k].lastFeeIndex[a] = m]
            /\ tx' = [call |-> "markFeesAsPaidUpToID", pc |-> "accounts", i |-> (n + 1) + 1,
                      local |-> w, written |-> tx'.written]
        BY <1>2, <3>1
      <3>3. /\ tx'.written.tokens = [wr.tokens EXCEPT ![k].lastFeeIndex[a] = m]
            /\ WritesOnly(tx'.written, {"tokens"})
        BY <1>2, <3>2 DEF WritesOnly, Storage
      <3>4. tx'.written.tokens = MarkedTo(k, m, R)
        BY <1>2, <1>6, <3>3 DEF Waived
      <3>5. IsAt(tx', "markFeesAsPaidUpToID", "accounts", (n + 1) + 1, w)
        BY <3>2 DEF IsAt
      <3>6. MarkingAt(tx', w, n + 1)
        BY <2>1, <3>3, <3>4, <3>5 DEF MarkingAt, k, m, R
      <3> QED BY <1>4, <1>9, <3>6, Zenon DEF Marking, Continues
    <2>3. CASE ~ (m > index)
      <3>0. index = m
        <4> HIDE DEF index
        <4> QED BY <1>5, <1>6, <1>9, <2>3
      <3>1. tx' = [tx EXCEPT !.i = @ + 1]
        BY <1>9, <2>3 DEF Continues, SteppedOver
      <3>2. /\ tx'.written = wr
            /\ tx' = [call |-> "markFeesAsPaidUpToID", pc |-> "accounts", i |-> (n + 1) + 1,
                      local |-> w, written |-> tx'.written]
        BY <1>2, <3>1
      <3>3. tx'.written.tokens = MarkedTo(k, m, R)
        BY <1>2, <1>6, <3>0, <3>2
      <3>4. IsAt(tx', "markFeesAsPaidUpToID", "accounts", (n + 1) + 1, w)
        BY <3>2 DEF IsAt
      <3>5. MarkingAt(tx', w, n + 1)
        BY <1>2, <2>1, <3>2, <3>3, <3>4 DEF MarkingAt, k, m, R
      <3> QED BY <1>4, <1>9, <3>5, Zenon DEF Marking, Continues
    <2> QED BY <2>2, <2>3
  <1> QED BY <1>7, <1>8, <1>9

LEMMA MarkReturns ==
    ASSUME TypeOK, Marking(tx), waiverReturns
    PROVE  /\ \E w \in WaiverLists :
                 markFeesAsPaidUpToID(w.token, w.upToId, Range(w.accounts))
           /\ tx' = Idle /\ UNCHANGED <<listVars, scenario>>
  <1>0. PICK w \in WaiverLists : \E n \in 0..Len(w.accounts) : MarkingAt(tx, w, n)
    BY DEF Marking
  <1>1. PICK n \in 0..Len(w.accounts) : MarkingAt(tx, w, n)
    BY <1>0
  <1>2. n = Len(w.accounts) /\ Before(w.accounts, n) = Range(w.accounts)
    <2>1. tx.i = n + 1 /\ tx.local = w
      BY <1>1 DEF MarkingAt, IsAt
    <2> QED BY <2>1, WaiverFields, BeforeAll DEF waiverReturns, LoopEnds
  <1>3. Returns(tx.written) /\ WritesOnly(tx.written, {"tokens"})
    BY <1>1 DEF MarkingAt, waiverReturns
  <1>4. tokens' = MarkedTo(w.token, w.upToId, Range(w.accounts))
    BY <1>1, <1>2, <1>3 DEF MarkingAt, Returns
  <1>5. UNCHANGED cash /\ TokenUnchanged /\ tx' = Idle /\ UNCHANGED <<listVars, scenario>>
    BY <1>3, WritesRest
       DEF Returns, TokenUnchanged, commitVars, callVars, redemptionVars, distVars, envVars
  <1>6. markFeesAsPaidUpToID(w.token, w.upToId, Range(w.accounts))
    BY <1>1, <1>2, <1>4, <1>5 DEF MarkingAt, markFeesAsPaidUpToID, MarkedTo
  <1> QED BY <1>5, <1>6

-----------------------------------------------------------------------------
(* approveRedemption.                                                      *)

RequestedAt(x, a) ==
    /\ IsAt(x, "approveRedemption", "approve", 1, [account |-> a])
    /\ x.written = Storage

RedeemedAt(x, a) ==
    /\ IsAt(x, "approveRedemption", "burn", 1, [account |-> a])
    /\ WritesOnly(x.written, {"redemptions", "totalRedemptions"})
    /\ x.written.redemptions = [redemptions EXCEPT ![a].status = "APPROVED"]
    /\ x.written.totalRedemptions = totalRedemptions + redemptions[a].amount
    /\ redemptions[a].status = "PENDING"

Redeeming(x) == \E a \in Redeemers : RequestedAt(x, a) \/ RedeemedAt(x, a)

LEMMA RedemptionStarts ==
    ASSUME NEW a \in Redeemers, startApproveRedemption(a)
    PROVE  Redeeming(tx') /\ UNCHANGED <<vars, listVars, scenario>>
  <1>1. RequestedAt(tx', a)
    BY DEF startApproveRedemption, Starts, RequestedAt, IsAt
  <1> QED BY <1>1 DEF Redeeming, startApproveRedemption, Starts

RequestApproved(x, a, n) ==
    [x EXCEPT !.pc = "burn",
              !.written.redemptions[a].status = "APPROVED",
              !.written.totalRedemptions = @ + n]

LEMMA RedemptionContinues ==
    ASSUME Redeeming(tx), redemptionApproved
    PROVE  (tx' = Idle \/ Redeeming(tx')) /\ UNCHANGED <<vars, listVars, scenario>>
  <1>0. tx.pc = "approve"
    BY DEF redemptionApproved, At
  <1>1. PICK a \in Redeemers : RequestedAt(tx, a)
    BY <1>0 DEF Redeeming, RedeemedAt, IsAt
  <1> DEFINE local == [account |-> a]
             n == redemptions[a].amount
  <1>2. tx = [call |-> "approveRedemption", pc |-> "approve", i |-> 1, local |-> local,
              written |-> Storage]
    BY <1>1 DEF RequestedAt, IsAt
  <1>3. tx.local.account = a /\ tx.written.redemptions = redemptions
    BY <1>2 DEF Storage
  <1>4. \/ Reverts
        \/ redemptions[a].status = "PENDING" /\ Continues(RequestApproved(tx, a, n))
    <2>1. \/ Reverts
          \/ /\ tx.written.redemptions[tx.local.account].status = "PENDING"
             /\ Continues(RequestApproved(tx, tx.local.account,
                             tx.written.redemptions[tx.local.account].amount))
      BY DEF redemptionApproved, Requires, RequestApproved
    <2> QED BY <1>3, <2>1
  <1>5. CASE Reverts
    BY <1>5 DEF Reverts
  <1>6. ASSUME redemptions[a].status = "PENDING", Continues(RequestApproved(tx, a, n))
        PROVE  Redeeming(tx') /\ UNCHANGED <<vars, listVars, scenario>>
    <2> HIDE DEF local, n
    <2>1. tx' = [tx EXCEPT !.pc = "burn", !.written.redemptions[a].status = "APPROVED",
                           !.written.totalRedemptions = @ + n]
      BY <1>6 DEF Continues, RequestApproved
    <2>2. /\ tx'.written = [Storage EXCEPT !.redemptions[a].status = "APPROVED",
                                           !.totalRedemptions = @ + n]
          /\ tx' = [call |-> "approveRedemption", pc |-> "burn", i |-> 1, local |-> local,
                    written |-> tx'.written]
      BY <1>2, <2>1
    <2>3. /\ tx'.written.redemptions = [redemptions EXCEPT ![a].status = "APPROVED"]
          /\ tx'.written.totalRedemptions = totalRedemptions + n
          /\ WritesOnly(tx'.written, {"redemptions", "totalRedemptions"})
      BY <2>2 DEF WritesOnly, Storage
    <2>4. RedeemedAt(tx', a)
      BY <1>6, <2>2, <2>3 DEF RedeemedAt, IsAt, local, n
    <2> QED BY <1>6, <2>4 DEF Redeeming, Continues
  <1> QED BY <1>4, <1>5, <1>6

BurnedOf(w, k, a, n) == [w EXCEPT !.tokens[k] = Burned(@, a, n)]

LEMMA RedemptionReturns ==
    ASSUME TypeOK, Redeeming(tx), redeemedBurned
    PROVE  /\ \/ (\E a \in Redeemers : approveRedemption(a)) /\ UNCHANGED <<listVars, scenario>>
              \/ UNCHANGED <<vars, listVars, scenario>>
           /\ tx' = Idle
  <1>0. tx.pc = "burn"
    BY DEF redeemedBurned, At
  <1>1. PICK a \in Redeemers : RedeemedAt(tx, a)
    BY <1>0 DEF Redeeming, RequestedAt, IsAt
  <1> DEFINE w == tx.written
             n == redemptions[a].amount
             v == BurnedOf(w, "lpFund", a, n)
  <1>2. /\ WritesOnly(w, {"redemptions", "totalRedemptions"})
        /\ w.redemptions = [redemptions EXCEPT ![a].status = "APPROVED"]
        /\ w.totalRedemptions = totalRedemptions + n
        /\ redemptions[a].status = "PENDING" /\ tx.local.account = a
    BY <1>1 DEF RedeemedAt, IsAt
  <1>3. /\ w.redemptions[a].amount = n /\ w.tokens = tokens /\ tokens["lpFund"] \in Ledger
        /\ tokens \in [TokenNames -> Ledger]
    <2>1. /\ a \in Accounts /\ redemptions \in [Accounts -> RedemptionData]
          /\ tokens \in [TokenNames -> Ledger]
      BY TypeParts, FundAssumption DEF RedemptionTypeOK, TokensType
    <2> QED BY <1>2, <2>1 DEF WritesOnly, Storage, RedemptionData, TokenNames
  <1>4. \/ Reverts
        \/ MayBurn(tokens["lpFund"], compliant, a, n) /\ Returns(v)
    <2>1. \/ Reverts
          \/ /\ MayBurn(w.tokens["lpFund"], compliant, tx.local.account,
                        w.redemptions[tx.local.account].amount)
             /\ Returns(BurnedOf(w, "lpFund", tx.local.account,
                                 w.redemptions[tx.local.account].amount))
      BY DEF redeemedBurned, RequiresThenReturns, BurnedOf
    <2> HIDE DEF w, n
    <2> QED BY <1>2, <1>3, <2>1
  <1>5. CASE Reverts
    BY <1>5 DEF Reverts
  <1>6. ASSUME MayBurn(tokens["lpFund"], compliant, a, n), Returns(v)
        PROVE  approveRedemption(a) /\ UNCHANGED <<listVars, scenario>> /\ tx' = Idle
    <2> HIDE DEF w, n
    <2>1. /\ v.tokens = [tokens EXCEPT !["lpFund"] = Burned(@, a, n)]
          /\ v.redemptions = w.redemptions /\ v.totalRedemptions = w.totalRedemptions
          /\ WritesOnly(v, {"redemptions", "totalRedemptions", "tokens"})
      <3>1. v = [w EXCEPT !.tokens["lpFund"] = Burned(@, a, n)]
        BY DEF BurnedOf
      <3>2. {"tokens", "redemptions", "totalRedemptions"} \subseteq DOMAIN w
        BY <1>2 DEF WritesOnly, Storage
      <3> HIDE DEF v
      <3>3. /\ v.tokens = [tokens EXCEPT !["lpFund"] = Burned(@, a, n)]
            /\ DOMAIN v = DOMAIN w /\ \A x \in DOMAIN w \ {"tokens"} : v[x] = w[x]
        BY <1>3, <3>1, <3>2
      <3>4. WritesOnly(v, {"redemptions", "totalRedemptions", "tokens"})
        BY <1>2, <3>3 DEF WritesOnly
      <3>5. v.redemptions = w.redemptions /\ v.totalRedemptions = w.totalRedemptions
        BY <3>2, <3>3
      <3> QED BY <3>3, <3>4, <3>5
    <2> HIDE DEF v
    <2>2. /\ UNCHANGED <<commitVars, callVars, interestEntries, cash, terms, distVars, envVars>>
          /\ UNCHANGED <<listVars, scenario>> /\ tx' = Idle
          /\ tokens' = v.tokens /\ redemptions' = v.redemptions
          /\ totalRedemptions' = v.totalRedemptions
      <3>1. WritesOnly(v, {"redemptions", "totalRedemptions", "tokens"}) /\ Returns(v)
        BY <1>6, <2>1
      <3> QED BY <3>1, WritesRest DEF Returns, commitVars, callVars, distVars, envVars
    <2>3. ApproveRequest(a)
      BY <1>2, <2>1, <2>2 DEF ApproveRequest, UpdateRedemption, n
    <2> QED BY <1>6, <2>1, <2>2, <2>3 DEF approveRedemption, n
  <1> QED BY <1>4, <1>5, <1>6

-----------------------------------------------------------------------------
(* capitalCallDone.                                                        *)

SettledLocal(c, a, p) ==
    LET acc == accountCapitalCalls[a][c]
    IN  [callId |-> c, account |-> a, callPrice |-> p,
         type |-> acc.accountType, tokenAmount |-> acc.amount \div p]

CalledType(c, a) == accountCapitalCalls[a][c].accountType
CalledTokens(c, a, p) == accountCapitalCalls[a][c].amount \div p

ToSettleAt(x, c, a, p) ==
    /\ IsAt(x, "capitalCallDone", "burn", 1, SettledLocal(c, a, p))
    /\ x.written = Storage

SettlingAt(x, c, a, p) ==
    LET k == CommitToken(CalledType(c, a))
        n == CalledTokens(c, a, p) IN
    /\ IsAt(x, "capitalCallDone", "mint", 1, SettledLocal(c, a, p))
    /\ x.written = BurnedOf(Storage, k, a, n)
    /\ tokens[k].balances[a] >= n
    /\ MayBurn(tokens[k], compliant, a, n)

Settling(x) ==
    \E c \in CallIds : \E a \in Accounts : \E p \in CallPrices :
        ToSettleAt(x, c, a, p) \/ SettlingAt(x, c, a, p)

LEMMA SettleStarts ==
    ASSUME NEW c \in CallIds, NEW a \in Accounts, NEW p \in CallPrices,
           startCapitalCallDone(c, a, p)
    PROVE  Settling(tx') /\ UNCHANGED <<vars, listVars, scenario>>
  <1>1. ToSettleAt(tx', c, a, p)
    BY DEF startCapitalCallDone, Starts, ToSettleAt, IsAt, SettledLocal
  <1> QED BY <1>1 DEF Settling, startCapitalCallDone, Starts

CommitBurned(x, k, a, n) == [x EXCEPT !.pc = "mint", !.written.tokens[k] = Burned(@, a, n)]

LEMMA SettleContinues ==
    ASSUME Settling(tx), commitTokensBurned
    PROVE  (tx' = Idle \/ Settling(tx')) /\ UNCHANGED <<vars, listVars, scenario>>
  <1>0. tx.pc = "burn"
    BY DEF commitTokensBurned, At
  <1>1. PICK c \in CallIds, a \in Accounts, p \in CallPrices : ToSettleAt(tx, c, a, p)
    BY <1>0 DEF Settling, SettlingAt, IsAt
  <1> DEFINE local == SettledLocal(c, a, p)
             k == CommitToken(CalledType(c, a))
             n == CalledTokens(c, a, p)
  <1>2. tx = [call |-> "capitalCallDone", pc |-> "burn", i |-> 1, local |-> local,
              written |-> Storage]
    BY <1>1 DEF ToSettleAt, IsAt
  <1>3. /\ tx.local.account = a /\ CommitToken(tx.local.type) = k /\ tx.local.tokenAmount = n
        /\ tx.written.tokens = tokens
    BY <1>2 DEF Storage, SettledLocal, CalledType, CalledTokens
  <1>4. \/ Reverts
        \/ /\ tokens[k].balances[a] >= n /\ MayBurn(tokens[k], compliant, a, n)
           /\ Continues(CommitBurned(tx, k, a, n))
    <2>1. \/ Reverts
          \/ /\ tx.written.tokens[CommitToken(tx.local.type)].balances[tx.local.account]
                   >= tx.local.tokenAmount
             /\ MayBurn(tx.written.tokens[CommitToken(tx.local.type)], compliant,
                        tx.local.account, tx.local.tokenAmount)
             /\ Continues(CommitBurned(tx, CommitToken(tx.local.type), tx.local.account,
                                       tx.local.tokenAmount))
      BY DEF commitTokensBurned, Requires, CommitBurned
    <2> HIDE DEF k, n
    <2> QED BY <1>3, <2>1
  <1>5. CASE Reverts
    BY <1>5 DEF Reverts
  <1>6. ASSUME tokens[k].balances[a] >= n, MayBurn(tokens[k], compliant, a, n),
               Continues(CommitBurned(tx, k, a, n))
        PROVE  Settling(tx') /\ UNCHANGED <<vars, listVars, scenario>>
    <2> HIDE DEF local, n, k
    <2>1. tx' = [tx EXCEPT !.pc = "mint", !.written.tokens[k] = Burned(@, a, n)]
      BY <1>6 DEF Continues, CommitBurned
    <2>2. /\ tx'.written = [Storage EXCEPT !.tokens[k] = Burned(@, a, n)]
          /\ tx' = [call |-> "capitalCallDone", pc |-> "mint", i |-> 1, local |-> local,
                    written |-> tx'.written]
      BY <1>2, <2>1
    <2>3. SettlingAt(tx', c, a, p)
      BY <1>6, <2>2 DEF SettlingAt, IsAt, BurnedOf, local, n, k
    <2> QED BY <1>6, <2>3 DEF Settling, Continues
  <1> QED BY <1>4, <1>5, <1>6

SettledBy(w, f, a, c, n) ==
    [w EXCEPT !.tokens[f] = Minted(@, a, n),
              !.accountCapitalCalls[a][c].isDone = TRUE]

LEMMA SettleReturns ==
    ASSUME TypeOK, Settling(tx), fundTokensMinted
    PROVE  /\ \/ /\ \E c \in CallIds, a \in Accounts, p \in CallPrices : capitalCallDone(c, a, p)
                 /\ UNCHANGED <<listVars, scenario>>
              \/ UNCHANGED <<vars, listVars, scenario>>
           /\ tx' = Idle
  <1>0. tx.pc = "mint"
    BY DEF fundTokensMinted, At
  <1>1. PICK c \in CallIds, a \in Accounts, p \in CallPrices : SettlingAt(tx, c, a, p)
    BY <1>0 DEF Settling, ToSettleAt, IsAt
  <1> DEFINE type == CalledType(c, a)
             k == CommitToken(type)
             f == FundTokenOf(type)
             n == CalledTokens(c, a, p)
             w == BurnedOf(Storage, k, a, n)
             v == SettledBy(w, f, a, c, n)
  <1>2. /\ tokens[k].balances[a] >= n /\ MayBurn(tokens[k], compliant, a, n)
        /\ tx.written = w /\ tx.local = SettledLocal(c, a, p)
    BY <1>1 DEF SettlingAt, IsAt
  <1>3. /\ tx.local.account = a /\ FundTokenOf(tx.local.type) = f
        /\ tx.local.tokenAmount = n /\ tx.local.callId = c
    BY <1>2 DEF SettledLocal, CalledType, CalledTokens
  <1>4. /\ k \in TokenNames /\ f \in TokenNames /\ k # f
        /\ tokens \in [TokenNames -> Ledger]
    BY TypeParts DEF CommitToken, FundTokenOf, TokenNames, TokensType
  <1>5. w.tokens = [tokens EXCEPT ![k] = Burned(@, a, n)] /\ w.tokens[f] = tokens[f]
    <2> HIDE DEF k, f, n
    <2> QED BY <1>4 DEF BurnedOf, Storage
  <1>6. \/ Reverts
        \/ MayMint(f, a) /\ Returns(v)
    <2>1. \/ Reverts
          \/ /\ MayMintInto(tx.written.tokens, FundTokenOf(tx.local.type), tx.local.account)
             /\ Returns(SettledBy(tx.written, FundTokenOf(tx.local.type), tx.local.account,
                                  tx.local.callId, tx.local.tokenAmount))
      BY DEF fundTokensMinted, RequiresThenReturns, SettledBy
    <2>2. MayMintInto(w.tokens, f, a) <=> MayMint(f, a)
      <3> HIDE DEF w, f
      <3> QED BY <1>5 DEF MayMintInto, MayMint
    <2> HIDE DEF w, f, n
    <2> QED BY <1>2, <1>3, <2>1, <2>2
  <1>7. CASE Reverts
    BY <1>7 DEF Reverts
  <1>8. ASSUME MayMint(f, a), Returns(v)
        PROVE  capitalCallDone(c, a, p) /\ UNCHANGED <<listVars, scenario>> /\ tx' = Idle
    <2> HIDE DEF k, f, n, type
    <2>1. /\ v.tokens = [tokens EXCEPT ![k] = Burned(@, a, n), ![f] = Minted(@, a, n)]
          /\ v.accountCapitalCalls = [accountCapitalCalls EXCEPT ![a][c].isDone = TRUE]
          /\ WritesOnly(v, {"tokens", "accountCapitalCalls"})
      <3>1. v = [w EXCEPT !.tokens[f] = Minted(@, a, n),
                          !.accountCapitalCalls[a][c].isDone = TRUE]
        BY DEF SettledBy
      <3>2. /\ w.tokens = [tokens EXCEPT ![k] = Burned(@, a, n)]
            /\ w.accountCapitalCalls = accountCapitalCalls /\ DOMAIN w = DOMAIN Storage
            /\ \A x \in DOMAIN Storage \ {"tokens"} : w[x] = Storage[x]
        BY DEF BurnedOf, Storage
      <3>3. {"tokens", "accountCapitalCalls"} \subseteq DOMAIN Storage
        BY DEF Storage
      <3> HIDE DEF v, w
      <3>4. /\ v.tokens = [w.tokens EXCEPT ![f] = Minted(@, a, n)]
            /\ v.accountCapitalCalls = [w.accountCapitalCalls EXCEPT ![a][c].isDone = TRUE]
            /\ DOMAIN v = DOMAIN w
            /\ \A x \in DOMAIN w \ {"tokens", "accountCapitalCalls"} : v[x] = w[x]
        BY <3>1, <3>2, <3>3
      <3>5. v.tokens = [tokens EXCEPT ![k] = Burned(@, a, n), ![f] = Minted(@, a, n)]
        BY <1>4, <3>2, <3>4
      <3>6. WritesOnly(v, {"tokens", "accountCapitalCalls"})
        BY <3>2, <3>4 DEF WritesOnly
      <3>7. v.accountCapitalCalls = [accountCapitalCalls EXCEPT ![a][c].isDone = TRUE]
        BY <3>2, <3>4
      <3> QED BY <3>5, <3>6, <3>7
    <2> HIDE DEF v
    <2>2. /\ UNCHANGED <<capitalCalls, totalCalled, commitVars, redemptionVars,
                         interestEntries, cash, terms, distVars, envVars>>
          /\ UNCHANGED <<listVars, scenario>> /\ tx' = Idle
          /\ tokens' = v.tokens /\ accountCapitalCalls' = v.accountCapitalCalls
      <3>1. WritesOnly(v, {"tokens", "accountCapitalCalls"}) /\ Returns(v)
        BY <1>8, <2>1
      <3> QED BY <3>1, WritesRest DEF Returns, commitVars, redemptionVars, distVars, envVars
    <2>3. tokens' = Converted(tokens, type, a, n)
      BY <2>1, <2>2 DEF Converted, k, f
    <2>4. capitalCallDone(c, a, p)
      BY <1>2, <1>8, <2>1, <2>2, <2>3 DEF capitalCallDone, k, f, n, type, CalledType, CalledTokens
    <2> QED BY <2>2, <2>4
  <1> QED BY <1>6, <1>7, <1>8

-----------------------------------------------------------------------------
(* Compounding: what the loop has computed before it compounds `mark`.     *)

FirstMark ==
    IF Annually THEN getYear(LastInterestEntry.timestamp) + 1
    ELSE Days(LastInterestEntry.timestamp)

LatestMark(time) == IF Annually THEN getYear(time) ELSE Days(QuarterStart(time))

QuarterEnd == Days(NextQuarter(LastInterestEntry.timestamp))

CashFlowAt(amount, time, mark, run) ==
    [amount |-> amount, time |-> time, mark |-> mark, latest |-> LatestMark(time),
     quarterEnd |-> QuarterEnd, run |-> run, payments |-> << >>]

\* The runs of the loop over years, by the last year compounded.
YearRuns(time) ==
    CHOOSE g : Years(g, LastInterestEntry, terms["prefRate"],
                     getYear(LastInterestEntry.timestamp) + 1,
                     getYear(time) - getYear(LastInterestEntry.timestamp))

\* The run after the one quarter that is compounded.
QuarterRun ==
    LET day == Days(LastInterestEntry.timestamp) * DaySeconds
    IN  CompoundedTo(Started(LastInterestEntry),
                     QuarterEnd - Days(LastInterestEntry.timestamp),
                     terms["prefRate"], day, day)

BeforeFirst(mark, run) == mark = FirstMark /\ run = Started(LastInterestEntry)

AfterYears(mark, run, time) ==
    /\ Annually
    /\ mark \in (FirstMark + 1)..(LatestMark(time) + 1)
    /\ run = YearRuns(time)[mark - 1]

AfterQuarter(mark, run) ==
    /\ ~ Annually
    /\ mark = NextQuarter(FirstMark)
    /\ run = QuarterRun

Progress(mark, run, time) ==
    \/ BeforeFirst(mark, run)
    \/ /\ LastInterestEntry.timestamp > 0 /\ FirstMark <= LatestMark(time)
       /\ AfterYears(mark, run, time) \/ AfterQuarter(mark, run)

\* Quarterly compounding takes a day number for a date: it is one of a uint32.
DatesInRange == ~ Annually => Days(LastInterestEntry.timestamp) <= LastDay

Compounded(time) ==
    ComputeCompounding(terms["compoundingInterval"], terms["prefRate"], time)

LEMMA LastEntryIs ==
    ASSUME TypeOK
    PROVE  LastInterestEntry \in InterestEntry
  <1>1. interestEntries \in Seq(InterestEntry)
    BY TypeParts DEF InterestTypeOK
  <1>2. CASE interestEntries = << >>
    BY <1>2 DEF LastInterestEntry, Entry, InterestEntry
  <1>3. CASE interestEntries # << >>
    <2>1. Len(interestEntries) \in 1..Len(interestEntries)
      BY <1>1, <1>3
    <2>2. interestEntries[Len(interestEntries)] \in InterestEntry
      BY <1>1, <2>1
    <2> QED BY <1>3, <2>2 DEF LastInterestEntry
  <1> QED BY <1>2, <1>3

LEMMA YearRunsAre ==
    ASSUME TypeOK, NEW time \in Times, Annually, FirstMark <= LatestMark(time)
    PROVE  /\ FirstMark \in Int /\ LatestMark(time) \in Int
           /\ YearRuns(time)[FirstMark - 1] = Started(LastInterestEntry)
           /\ \A y \in FirstMark..LatestMark(time) :
                 YearRuns(time)[y] = AnnualStep(YearRuns(time)[y - 1], y, terms["prefRate"])
           /\ CompoundAnnual(LastInterestEntry, terms["prefRate"], time)
                 = YearRuns(time)[LatestMark(time)]
  <1> DEFINE last == LastInterestEntry
             rate == terms["prefRate"]
             first == getYear(last.timestamp) + 1
             latest == getYear(time)
             n == latest - getYear(last.timestamp)
             g == YearRuns(time)
  <1>1. /\ last \in InterestEntry /\ time \in Nat
        /\ FirstMark = first /\ LatestMark(time) = latest
    BY LastEntryIs, TypeParts, FundAssumption DEF FirstMark, LatestMark
  <1>2. first \in Int /\ latest \in Int /\ n \in Nat /\ n = latest - first + 1
        /\ first <= latest /\ first - 1 + n = latest
    <2>1. getYear(last.timestamp) \in Int /\ getYear(time) \in Int
      BY <1>1, YearType DEF InterestEntry
    <2> QED BY <1>1, <2>1
  <1>3. Years(g, last, rate, first, n)
    <2>1. \E h : Years(h, last, rate, first, n)
      <3> HIDE DEF first, n, last, rate
      <3> QED BY <1>2, YearsExist
    <2>2. g = CHOOSE h : Years(h, last, rate, first, n)
      BY DEF YearRuns
    <2> HIDE DEF first, n, last, rate, g
    <2> QED BY <2>1, <2>2
  <1>4. CompoundAnnual(last, rate, time) = g[latest]
    BY <1>2 DEF CompoundAnnual, Years, YearRuns
  <1> HIDE DEF g, last, rate, first, latest, n
  <1>5. \A y \in (first - 1)..latest :
           g[y] = IF y < first THEN Started(last) ELSE AnnualStep(g[y - 1], y, rate)
    BY <1>2, <1>3, Zenon DEF Years
  <1>6. g[first - 1] = Started(last)
    <2>1. first - 1 \in (first - 1)..latest /\ first - 1 < first
      BY <1>2
    <2> QED BY <1>5, <2>1
  <1>7. \A y \in first..latest : g[y] = AnnualStep(g[y - 1], y, rate)
    <2>1. \A y \in first..latest : y \in (first - 1)..latest /\ ~ (y < first)
      BY <1>2
    <2> QED BY <1>5, <2>1
  <1> QED BY <1>1, <1>2, <1>4, <1>6, <1>7 DEF g, last, rate

\* One iteration, with the end of the quarter spelled out.
CompoundedFrom(run, mark) ==
    LET stamp == mark * DaySeconds
    IN  IF Annually THEN AnnualStep(run, mark, terms["prefRate"])
        ELSE CompoundedTo(run, QuarterEnd - mark, terms["prefRate"], stamp, stamp)

LEMMA QuarterMarks ==
    ASSUME TypeOK, DatesInRange, NEW time \in Times, ~ Annually
    PROVE  /\ FirstMark \in 0..LastDay
           /\ LatestMark(time) \in Int
           /\ NextQuarter(FirstMark) = 7776000 /\ NextQuarter(FirstMark) > LatestMark(time)
  <1>1. LastInterestEntry.timestamp \in Nat /\ time \in Nat /\ Days(time) <= LastDay
    BY LastEntryIs, FundAssumption, ExecutionAssumption DEF InterestEntry
  <1>2. FirstMark = Days(LastInterestEntry.timestamp) /\ LatestMark(time) = Days(QuarterStart(time))
    BY DEF FirstMark, LatestMark
  <1>3. FirstMark \in 0..LastDay
    <2>1. Days(LastInterestEntry.timestamp) \in Nat /\ LastDay \in Int
      BY <1>1, DaysType DEF LastDay
    <2>2. Days(LastInterestEntry.timestamp) <= LastDay
      BY DEF DatesInRange
    <2> QED BY <1>2, <2>1, <2>2
  <1>4. LatestMark(time) \in Int /\ LatestMark(time) <= LastDay + 366
    BY <1>1, <1>2, QuarterDay
  <1>5. NextQuarter(FirstMark) = 7776000
    BY <1>3, NextQuarterOfDayNumber
  <1>6. LastDay = 49710
    BY DEF LastDay
  <1> DEFINE m == LatestMark(time)
  <1> HIDE DEF m
  <1>7. m < 7776000
    BY <1>4, <1>6 DEF m
  <1>8. 7776000 > m
    BY <1>4, <1>7 DEF m
  <1> QED BY <1>3, <1>4, <1>5, <1>8 DEF m

LEMMA ProgressContinues ==
    ASSUME TypeOK, DatesInRange, NEW time \in Times, NEW mark, NEW run, Progress(mark, run, time),
           LastInterestEntry.timestamp > 0, mark <= LatestMark(time)
    PROVE  Progress(NextMark(mark), CompoundedFrom(run, mark), time)
  <1>1. CASE Annually
    <2> DEFINE last == LastInterestEntry
               rate == terms["prefRate"]
               g == YearRuns(time)
    <2>1. mark \in FirstMark..LatestMark(time) /\ run = g[mark - 1]
          /\ FirstMark <= LatestMark(time) /\ FirstMark \in Int /\ LatestMark(time) \in Int
      <3>1. FirstMark <= LatestMark(time)
        BY DEF Progress, BeforeFirst
      <3>2. FirstMark \in Int /\ LatestMark(time) \in Int /\ g[FirstMark - 1] = Started(last)
        BY <1>1, <3>1, YearRunsAre
      <3>3. CASE BeforeFirst(mark, run)
        BY <3>1, <3>2, <3>3 DEF BeforeFirst
      <3>4. CASE AfterYears(mark, run, time)
        BY <3>1, <3>2, <3>4 DEF AfterYears
      <3> QED BY <1>1, <3>3, <3>4 DEF Progress, AfterQuarter
    <2>2. CompoundedFrom(run, mark) = g[mark]
      <3>1. CompoundedFrom(run, mark) = AnnualStep(run, mark, rate)
        BY <1>1 DEF CompoundedFrom
      <3>2. g[mark] = AnnualStep(g[mark - 1], mark, rate)
        BY <1>1, <2>1, YearRunsAre
      <3> QED BY <2>1, <3>1, <3>2
    <2>3. NextMark(mark) = mark + 1 /\ (mark + 1) - 1 = mark
          /\ mark + 1 \in (FirstMark + 1)..(LatestMark(time) + 1)
      BY <1>1, <2>1 DEF NextMark
    <2>4. AfterYears(NextMark(mark), CompoundedFrom(run, mark), time)
      BY <1>1, <2>2, <2>3 DEF AfterYears
    <2> QED BY <2>1, <2>4 DEF Progress
  <1>2. CASE ~ Annually
    <2>1. NextQuarter(FirstMark) > LatestMark(time) /\ FirstMark \in 0..LastDay
          /\ LatestMark(time) \in Int /\ NextQuarter(FirstMark) = 7776000
      BY <1>2, QuarterMarks
    <2>2. BeforeFirst(mark, run)
      <3>1. ~ AfterQuarter(mark, run)
        BY <2>1 DEF AfterQuarter
      <3> QED BY <1>2, <3>1 DEF Progress, AfterYears
    <2>3. FirstMark <= LatestMark(time)
      BY <2>2 DEF BeforeFirst
    <2>4. CompoundedFrom(run, mark) = QuarterRun
      BY <1>2, <2>2 DEF CompoundedFrom, QuarterRun, BeforeFirst, FirstMark
    <2>5. NextMark(mark) = NextQuarter(FirstMark)
      BY <1>2, <2>2 DEF NextMark, BeforeFirst
    <2> QED BY <1>2, <2>3, <2>4, <2>5 DEF Progress, AfterQuarter
  <1> QED BY <1>1, <1>2

LEMMA ProgressEnds ==
    ASSUME TypeOK, DatesInRange, NEW time \in Times, NEW mark, NEW run, Progress(mark, run, time),
           ~ (LastInterestEntry.timestamp > 0 /\ mark <= LatestMark(time))
    PROVE  run = Compounded(time)
  <1> DEFINE last == LastInterestEntry
             rate == terms["prefRate"]
  <1>0. last.timestamp \in Nat
    BY LastEntryIs DEF InterestEntry
  <1>1. CASE last.timestamp = 0
    <2>1. run = Started(last)
      BY <1>1 DEF Progress, BeforeFirst
    <2> QED BY <1>1, <2>1 DEF Compounded, ComputeCompounding
  <1>2. CASE last.timestamp # 0 /\ Annually
    <2>1. ~ (mark <= LatestMark(time)) /\ Compounded(time) = CompoundAnnual(last, rate, time)
      BY <1>0, <1>2 DEF Compounded, ComputeCompounding, Annually
    <2>2. CASE BeforeFirst(mark, run)
      BY <2>1, <2>2, <1>2 DEF BeforeFirst, CompoundAnnual, FirstMark, LatestMark
    <2>3. CASE AfterYears(mark, run, time) /\ FirstMark <= LatestMark(time)
      <3>1. FirstMark \in Int /\ LatestMark(time) \in Int
            /\ CompoundAnnual(last, rate, time) = YearRuns(time)[LatestMark(time)]
        BY <1>2, <2>3, YearRunsAre
      <3>2. mark - 1 = LatestMark(time) /\ run = YearRuns(time)[mark - 1]
        BY <2>1, <2>3, <3>1 DEF AfterYears
      <3> QED BY <2>1, <3>1, <3>2
    <2> QED BY <1>2, <2>2, <2>3 DEF Progress, AfterQuarter
  <1>3. CASE last.timestamp # 0 /\ ~ Annually
    <2>1. ~ (mark <= LatestMark(time)) /\ Compounded(time) = CompoundQuarterly(last, rate, time)
      BY <1>0, <1>3 DEF Compounded, ComputeCompounding, Annually
    <2>2. CASE BeforeFirst(mark, run)
      BY <2>1, <2>2, <1>3 DEF BeforeFirst, CompoundQuarterly, FirstMark, LatestMark
    <2>3. CASE AfterQuarter(mark, run) /\ FirstMark <= LatestMark(time)
      BY <2>1, <2>3, <1>3
         DEF AfterQuarter, CompoundQuarterly, FirstMark, LatestMark, QuarterRun, QuarterEnd
    <2> QED BY <1>3, <2>2, <2>3 DEF Progress, AfterYears
  <1> QED BY <1>1, <1>2, <1>3

\* A call that is compounding: it has left its loop variables behind it.
CompoundingAt(x, call, amount, time) ==
    \E mark, run :
        /\ IsAt(x, call, "compounding", x.i, CashFlowAt(amount, time, mark, run))
        /\ Progress(mark, run, time)

LEMMA CashFlowStarts ==
    ASSUME NEW amount, NEW time
    PROVE  CashFlow(amount, time) = CashFlowAt(amount, time, FirstMark, Started(LastInterestEntry))
  BY DEF CashFlow, CashFlowAt, FirstMark, LatestMark, QuarterEnd

LEMMA CompoundingStarts ==
    ASSUME NEW x, NEW call, NEW amount, NEW time,
           IsAt(x, call, "compounding", x.i, CashFlow(amount, time))
    PROVE  CompoundingAt(x, call, amount, time)
  BY CashFlowStarts DEF CompoundingAt, Progress, BeforeFirst

CompoundedNext(x, mark, run) == [x EXCEPT !.local.run = run, !.local.mark = mark]

LEMMA CompoundContinues ==
    ASSUME TypeOK, DatesInRange, NEW call, NEW amount, NEW time \in Times,
           CompoundingAt(tx, call, amount, time), compoundNext
    PROVE  /\ CompoundingAt(tx', call, amount, time)
           /\ tx'.i = tx.i /\ tx'.written = tx.written
           /\ UNCHANGED <<vars, listVars, scenario>>
  <1>0. PICK mark, run : /\ IsAt(tx, call, "compounding", tx.i, CashFlowAt(amount, time, mark, run))
                         /\ Progress(mark, run, time)
    BY DEF CompoundingAt
  <1> DEFINE i == tx.i
             w == tx.written
  <1>1. tx = [call |-> call, pc |-> "compounding", i |-> i,
              local |-> CashFlowAt(amount, time, mark, run), written |-> w]
    BY <1>0 DEF IsAt
  <1> HIDE DEF i, w
  <1>2. /\ tx.local.mark = mark /\ tx.local.run = run /\ tx.local.latest = LatestMark(time)
        /\ tx.local.quarterEnd = QuarterEnd
    BY <1>1 DEF CashFlowAt
  <1>3. LastInterestEntry.timestamp > 0 /\ mark <= LatestMark(time)
    BY <1>2 DEF compoundNext, CompoundingGoesOn
  <1> DEFINE m == NextMark(mark)
             r == CompoundedFrom(run, mark)
  <1>4. tx' = CompoundedNext(tx, m, r) /\ UNCHANGED <<vars, listVars, scenario>>
    <2>1. CompoundedOnce(tx.local.run, tx.local.mark) = r
      BY <1>2 DEF CompoundedOnce, CompoundedFrom
    <2>2. Continues(CompoundedNext(tx, NextMark(tx.local.mark),
                                   CompoundedOnce(tx.local.run, tx.local.mark)))
      <3>1. \E q \in {CompoundedOnce(tx.local.run, tx.local.mark)} :
               Continues([tx EXCEPT !.local.run = q, !.local.mark = NextMark(@)])
        BY DEF compoundNext
      <3> DEFINE p == CompoundedOnce(tx.local.run, tx.local.mark)
      <3> HIDE DEF p
      <3>2. Continues([tx EXCEPT !.local.run = p, !.local.mark = NextMark(@)])
        BY <3>1 DEF p
      <3>3. [tx EXCEPT !.local.run = p, !.local.mark = NextMark(@)]
               = CompoundedNext(tx, NextMark(tx.local.mark), p)
        BY <1>1 DEF CompoundedNext, CashFlowAt
      <3> QED BY <3>2, <3>3 DEF p
    <2> HIDE DEF r
    <2>3. Continues(CompoundedNext(tx, m, r))
      BY <1>2, <2>1, <2>2
    <2> QED BY <2>3 DEF Continues
  <1>5. Progress(m, r, time)
    BY <1>0, <1>3, ProgressContinues
  <1> HIDE DEF m, r
  <1>6. /\ tx' = [call |-> call, pc |-> "compounding", i |-> i,
                  local |-> CashFlowAt(amount, time, m, r), written |-> w]
    BY <1>1, <1>4 DEF CompoundedNext, CashFlowAt
  <1>7. tx'.i = i /\ tx'.written = w
    BY <1>6
  <1>8. IsAt(tx', call, "compounding", tx'.i, CashFlowAt(amount, time, m, r))
    BY <1>6, <1>7 DEF IsAt
  <1> QED BY <1>4, <1>5, <1>7, <1>8 DEF CompoundingAt, i, w

LEMMA CompoundEnds ==
    ASSUME TypeOK, DatesInRange, NEW call, NEW amount, NEW time \in Times,
           CompoundingAt(tx, call, amount, time), ~ CompoundingGoesOn
    PROVE  tx.local = CashFlowAt(amount, time, tx.local.mark, Compounded(time))
  <1>0. PICK mark, run : /\ IsAt(tx, call, "compounding", tx.i, CashFlowAt(amount, time, mark, run))
                         /\ Progress(mark, run, time)
    BY DEF CompoundingAt
  <1>1. tx.local = CashFlowAt(amount, time, mark, run)
    BY <1>0 DEF IsAt
  <1>2. tx.local.mark = mark /\ tx.local.latest = LatestMark(time)
    BY <1>1 DEF CashFlowAt
  <1>3. run = Compounded(time)
    BY <1>0, <1>2, ProgressEnds DEF CompoundingGoesOn
  <1> QED BY <1>1, <1>2, <1>3

-----------------------------------------------------------------------------
(* capitalCall.                                                            *)

CallRecords(amount, gps, lps) ==
    AccountCalls(gps, lps, LAMBDA a : GpShare(amount, a), LAMBDA a : LpShare(amount, a))

MayCall(amount) ==
    /\ Len(capitalCalls) < MaxCalls
    /\ WithinCommitments(amount)
    /\ totalCommitted > 0
    /\ (amount * scale) \div totalCommitted > 0

CallWrites == {"capitalCalls", "accountCapitalCalls", "totalCalled"}

\* The call is on record with the shares of gps and lps.
Recorded(w, amount, gps, lps) ==
    /\ WritesOnly(w, CallWrites)
    /\ w.capitalCalls = Append(capitalCalls, amount)
    /\ w.accountCapitalCalls = CallRecords(amount, gps, lps)
    /\ \A a \in gps : GpShare(amount, a) # 0
    /\ \A a \in lps : LpShare(amount, a) # 0
    /\ MayCall(amount)

ToCallAt(x, n) ==
    /\ IsAt(x, "capitalCall", "call", 1, CashFlow(n, now))
    /\ x.written = Storage
    /\ Len(capitalCalls) < MaxCalls

GpsAt(x, n, i) ==
    /\ IsAt(x, "capitalCall", "gps", i + 1, CashFlow(n, now))
    /\ Recorded(x.written, n, Before(gpAccountList, i), {})
    /\ x.written.totalCalled = totalCalled

LpsAt(x, n, i) ==
    /\ IsAt(x, "capitalCall", "lps", i + 1, CashFlow(n, now))
    /\ Recorded(x.written, n, Range(gpAccountList), Before(lpAccountList, i))
    /\ x.written.totalCalled = totalCalled

CalledAt(x, n) ==
    /\ CompoundingAt(x, "capitalCall", n, now)
    /\ Recorded(x.written, n, Range(gpAccountList), Range(lpAccountList))
    /\ x.written.totalCalled = totalCalled + n

CallingFor(x, n) ==
    \/ ToCallAt(x, n)
    \/ \E i \in 0..Len(gpAccountList) : GpsAt(x, n, i)
    \/ \E i \in 0..Len(lpAccountList) : LpsAt(x, n, i)
    \/ CalledAt(x, n)

Calling(x) == \E n \in CallAmounts : CallingFor(x, n)

LEMMA CallStages ==
    ASSUME NEW x, NEW n, CallingFor(x, n)
    PROVE  /\ x.call = "capitalCall"
           /\ x.pc = "call" => ToCallAt(x, n)
           /\ x.pc = "gps" => \E i \in 0..Len(gpAccountList) : GpsAt(x, n, i)
           /\ x.pc = "lps" => \E i \in 0..Len(lpAccountList) : LpsAt(x, n, i)
           /\ x.pc = "compounding" => CalledAt(x, n)
           /\ x.pc \in {"call", "gps", "lps", "compounding"}
  <1>1. ASSUME ToCallAt(x, n) PROVE x.call = "capitalCall" /\ x.pc = "call"
    BY <1>1 DEF ToCallAt, IsAt
  <1>2. ASSUME NEW i, GpsAt(x, n, i) PROVE x.call = "capitalCall" /\ x.pc = "gps"
    BY <1>2 DEF GpsAt, IsAt
  <1>3. ASSUME NEW i, LpsAt(x, n, i) PROVE x.call = "capitalCall" /\ x.pc = "lps"
    BY <1>3 DEF LpsAt, IsAt
  <1>4. ASSUME CalledAt(x, n) PROVE x.call = "capitalCall" /\ x.pc = "compounding"
    BY <1>4 DEF CalledAt, CompoundingAt, IsAt
  <1> QED BY <1>1, <1>2, <1>3, <1>4 DEF CallingFor

LEMMA CallStarts ==
    ASSUME NEW n \in CallAmounts, startCapitalCall(n)
    PROVE  Calling(tx') /\ UNCHANGED <<vars, listVars, scenario>>
  <1>1. /\ tx' = [call |-> "capitalCall", pc |-> "call", i |-> 1, local |-> CashFlow(n, now),
                  written |-> Storage]
        /\ UNCHANGED <<vars, listVars, scenario>> /\ Len(capitalCalls) < MaxCalls
    BY DEF startCapitalCall, Starts
  <1>2. ToCallAt(tx', n)
    <2> DEFINE local == CashFlow(n, now)
    <2>1. tx' = [call |-> "capitalCall", pc |-> "call", i |-> 1, local |-> local,
                  written |-> Storage]
      BY <1>1
    <2> HIDE DEF local
    <2>2. tx'.written = Storage /\ IsAt(tx', "capitalCall", "call", 1, local)
      BY <2>1 DEF IsAt
    <2> QED BY <1>1, <2>2 DEF ToCallAt, local
  <1> QED BY <1>1, <1>2 DEF Calling, CallingFor

\* The records of no account, and of one account more.
LEMMA RecordsOfNobody ==
    ASSUME CallTypeOK, NEW n
    PROVE  CallRecords(n, {}, {}) = accountCapitalCalls
  BY DEF CallTypeOK, CallRecords, AccountCalls

WithRecord(f, a, r) == [f EXCEPT ![a][NextCallId] = r]

LEMMA GpRecordOneMore ==
    ASSUME TypeOK, NEW n, NEW G, NEW a \in Accounts
    PROVE  CallRecords(n, G \cup {a}, {})
             = WithRecord(CallRecords(n, G, {}), a, AccountCall(GpShare(n, a), "GP"))
  <1> DEFINE c == NextCallId
  <1>1. /\ c \in CallIds
        /\ accountCapitalCalls \in [Accounts -> [CallIds -> AccountCapitalCall]]
    BY NextCallIdType, TypeParts DEF CallTypeOK
  <1> HIDE DEF c
  <1>2. CallRecords(n, G \cup {a}, {})
          = [CallRecords(n, G, {}) EXCEPT ![a][c] = AccountCall(GpShare(n, a), "GP")]
    BY <1>1 DEF CallRecords, AccountCalls, c
  <1> QED BY <1>2 DEF c, WithRecord

LEMMA LpRecordOneMore ==
    ASSUME TypeOK, NEW n, NEW G, NEW L, NEW a \in Accounts
    PROVE  CallRecords(n, G, L \cup {a})
             = WithRecord(CallRecords(n, G, L), a, AccountCall(LpShare(n, a), "LP"))
  <1> DEFINE c == NextCallId
  <1>1. /\ c \in CallIds
        /\ accountCapitalCalls \in [Accounts -> [CallIds -> AccountCapitalCall]]
    BY NextCallIdType, TypeParts DEF CallTypeOK
  <1> HIDE DEF c
  <1>2. CallRecords(n, G, L \cup {a})
          = [CallRecords(n, G, L) EXCEPT ![a][c] = AccountCall(LpShare(n, a), "LP")]
    BY <1>1 DEF CallRecords, AccountCalls, c
  <1> QED BY <1>2 DEF c, WithRecord

CallPushed(x, n) == [x EXCEPT !.pc = "gps", !.written.capitalCalls = Append(@, n)]

LEMMA CallAddedContinues ==
    ASSUME TypeOK, NEW n \in CallAmounts, ToCallAt(tx, n), callAdded
    PROVE  (tx' = Idle \/ GpsAt(tx', n, 0)) /\ UNCHANGED <<vars, listVars, scenario>>
  <1> DEFINE local == CashFlow(n, now)
  <1>0. tx.local.amount = n
    BY DEF ToCallAt, IsAt, CashFlow
  <1>1. tx = [call |-> "capitalCall", pc |-> "call", i |-> 1, local |-> local,
              written |-> Storage]
    BY DEF ToCallAt, IsAt
  <1> HIDE DEF local
  <1>2. \/ Reverts
        \/ MayCall(n) /\ Continues(CallPushed(tx, n))
    <2>1. \/ Reverts
          \/ /\ WithinCommitments(tx.local.amount) /\ totalCommitted > 0
             /\ (tx.local.amount * scale) \div totalCommitted > 0
             /\ Continues(CallPushed(tx, tx.local.amount))
      BY DEF callAdded, Requires, CallPushed
    <2> QED BY <1>0, <2>1 DEF MayCall, ToCallAt
  <1>3. CASE Reverts
    BY <1>3 DEF Reverts
  <1>4. ASSUME MayCall(n), Continues(CallPushed(tx, n))
        PROVE  GpsAt(tx', n, 0) /\ UNCHANGED <<vars, listVars, scenario>>
    <2>1. tx' = [tx EXCEPT !.pc = "gps", !.written.capitalCalls = Append(@, n)]
      BY <1>4 DEF Continues, CallPushed
    <2>2. tx'.written = [Storage EXCEPT !.capitalCalls = Append(@, n)]
      BY <1>1, <2>1
    <2>3. IsAt(tx', "capitalCall", "gps", 1, local)
      BY <1>1, <2>1 DEF IsAt
    <2>4. /\ tx'.written.capitalCalls = Append(capitalCalls, n)
          /\ tx'.written.accountCapitalCalls = accountCapitalCalls
          /\ tx'.written.totalCalled = totalCalled
      BY <2>2 DEF Storage
    <2>5. WritesOnly(tx'.written, CallWrites)
      BY <2>2 DEF WritesOnly, Storage, CallWrites
    <2>6. Before(gpAccountList, 0) = {} /\ CallTypeOK
      BY TypeParts DEF Before
    <2>7. Recorded(tx'.written, n, {}, {})
      BY <1>4, <2>4, <2>5, <2>6, RecordsOfNobody DEF Recorded
    <2>8. GpsAt(tx', n, 0)
      <3>1. IsAt(tx', "capitalCall", "gps", 0 + 1, local)
        BY <2>3
      <3> QED BY <2>4, <2>6, <2>7, <3>1 DEF GpsAt, local
    <2> QED BY <1>4, <2>8 DEF Continues
  <1> QED BY <1>2, <1>3, <1>4

\* The step of either loop: the record of one account.
ShareRecorded(x, a, c, r) == [x EXCEPT !.i = @ + 1, !.written.accountCapitalCalls[a][c] = r]

LEMMA RecordWritten ==
    ASSUME CallTypeOK, NEW pc, NEW i, NEW j, j = i + 1, NEW local, NEW n \in Nat, NEW G, NEW L, NEW a, NEW r,
           IsAt(tx, "capitalCall", pc, i, local),
           Recorded(tx.written, n, G, L),
           Continues(ShareRecorded(tx, a, CallId, r))
    PROVE  /\ IsAt(tx', "capitalCall", pc, j, local)
           /\ WritesOnly(tx'.written, CallWrites)
           /\ tx'.written.capitalCalls = Append(capitalCalls, n)
           /\ tx'.written.accountCapitalCalls = WithRecord(CallRecords(n, G, L), a, r)
           /\ tx'.written.totalCalled = tx.written.totalCalled
           /\ UNCHANGED <<vars, listVars, scenario>>
  <1> DEFINE w == tx.written
             c == NextCallId
             f == CallRecords(n, G, L)
  <1>1. tx = [call |-> "capitalCall", pc |-> pc, i |-> i, local |-> local, written |-> w]
    BY DEF IsAt
  <1>2. /\ WritesOnly(w, CallWrites) /\ w.capitalCalls = Append(capitalCalls, n)
        /\ w.accountCapitalCalls = f
    BY DEF Recorded
  <1>3. CallId = c
    <2>1. capitalCalls \in Seq(Nat)
      BY DEF CallTypeOK
    <2>2. Len(Append(capitalCalls, n)) = Len(capitalCalls) + 1 /\ Len(capitalCalls) \in Nat
      BY <2>1
    <2>3. (Len(capitalCalls) + 1) - 1 = Len(capitalCalls)
      BY <2>2
    <2> QED BY <1>2, <2>2, <2>3 DEF CallId, NextCallId
  <1>4. tx' = [tx EXCEPT !.i = @ + 1, !.written.accountCapitalCalls[a][c] = r]
        /\ UNCHANGED <<vars, listVars, scenario>>
    BY <1>3 DEF Continues, ShareRecorded
  <1>5. {"capitalCalls", "accountCapitalCalls", "totalCalled"} \subseteq DOMAIN w
    BY <1>2 DEF WritesOnly, Storage
  <1> HIDE DEF w, c, f
  <1>6. /\ tx'.written = [w EXCEPT !.accountCapitalCalls[a][c] = r]
        /\ IsAt(tx', "capitalCall", pc, j, local)
    BY <1>1, <1>4 DEF IsAt
  <1> DEFINE v == tx'.written
  <1> HIDE DEF v
  <1>7. /\ v.accountCapitalCalls = [f EXCEPT ![a][c] = r]
        /\ DOMAIN v = DOMAIN w
        /\ \A x \in DOMAIN w \ {"accountCapitalCalls"} : v[x] = w[x]
    BY <1>2, <1>5, <1>6 DEF v
  <1>8. v.capitalCalls = w.capitalCalls /\ v.totalCalled = w.totalCalled
    BY <1>5, <1>7
  <1>9. WritesOnly(v, CallWrites)
    BY <1>2, <1>7 DEF WritesOnly, CallWrites
  <1> QED BY <1>2, <1>4, <1>6, <1>7, <1>8, <1>9 DEF v, w, c, f, WithRecord

LEMMA GpShareContinues ==
    ASSUME TypeOK, gpAccountList \in Seq(Accounts), NEW n \in CallAmounts,
           NEW i \in 0..Len(gpAccountList), GpsAt(tx, n, i), gpShareNext
    PROVE  /\ tx' = Idle \/ (i + 1 \in 0..Len(gpAccountList) /\ GpsAt(tx', n, i + 1))
           /\ UNCHANGED <<vars, listVars, scenario>>
  <1> DEFINE a == gpAccountList[i + 1]
             G == Before(gpAccountList, i)
             r == AccountCall(GpShare(n, a), "GP")
             local == CashFlow(n, now)
  <1>1. /\ tx.i = i + 1 /\ tx.local.amount = n
        /\ IsAt(tx, "capitalCall", "gps", i + 1, local)
        /\ Recorded(tx.written, n, G, {}) /\ tx.written.totalCalled = totalCalled
    BY DEF GpsAt, IsAt, CashFlow
  <1>2. i + 1 \in 0..Len(gpAccountList) /\ i + 1 \in 1..Len(gpAccountList)
    BY <1>1 DEF gpShareNext, InLoop
  <1>3. a \in Accounts /\ n \in Nat /\ CallTypeOK
    BY <1>2, TypeParts, FundAssumption
  <1>4. \/ Reverts
        \/ GpShare(n, a) # 0 /\ Continues(ShareRecorded(tx, a, CallId, r))
    <2>1. \/ Reverts
          \/ /\ GpShare(tx.local.amount, gpAccountList[tx.i]) # 0
             /\ Continues(ShareRecorded(tx, gpAccountList[tx.i], CallId,
                  AccountCall(GpShare(tx.local.amount, gpAccountList[tx.i]), "GP")))
      BY DEF gpShareNext, RecordsShare, Requires, ShareRecorded
    <2> QED BY <1>1, <2>1
  <1>5. CASE Reverts
    BY <1>5 DEF Reverts
  <1>6. ASSUME GpShare(n, a) # 0, Continues(ShareRecorded(tx, a, CallId, r))
        PROVE  GpsAt(tx', n, i + 1) /\ UNCHANGED <<vars, listVars, scenario>>
    <2> HIDE DEF r, local, a, G
    <2> DEFINE p == i + 1
               q == (i + 1) + 1
    <2>0. q = p + 1
      OBVIOUS
    <2>a. IsAt(tx, "capitalCall", "gps", p, local) /\ Recorded(tx.written, n, G, {})
      BY <1>1
    <2> HIDE DEF p, q
    <2>1. /\ IsAt(tx', "capitalCall", "gps", q, local)
          /\ WritesOnly(tx'.written, CallWrites)
          /\ tx'.written.capitalCalls = Append(capitalCalls, n)
          /\ tx'.written.accountCapitalCalls = WithRecord(CallRecords(n, G, {}), a, r)
          /\ tx'.written.totalCalled = tx.written.totalCalled
          /\ UNCHANGED <<vars, listVars, scenario>>
      BY <1>3, <1>6, <2>0, <2>a, RecordWritten
    <2>2. Before(gpAccountList, i + 1) = G \cup {a}
      BY BeforeStep DEF G, a
    <2>3. CallRecords(n, G \cup {a}, {}) = WithRecord(CallRecords(n, G, {}), a, r)
      BY <1>3, GpRecordOneMore DEF r
    <2>4. Recorded(tx'.written, n, G \cup {a}, {})
      BY <1>1, <1>6, <2>1, <2>3 DEF Recorded
    <2> QED BY <1>1, <2>1, <2>2, <2>4 DEF GpsAt, local, q
  <1> QED BY <1>2, <1>4, <1>5, <1>6

LEMMA LpShareContinues ==
    ASSUME TypeOK, lpAccountList \in Seq(Accounts), NEW n \in CallAmounts,
           NEW i \in 0..Len(lpAccountList), LpsAt(tx, n, i), lpShareNext
    PROVE  /\ tx' = Idle \/ (i + 1 \in 0..Len(lpAccountList) /\ LpsAt(tx', n, i + 1))
           /\ UNCHANGED <<vars, listVars, scenario>>
  <1> DEFINE a == lpAccountList[i + 1]
             G == Range(gpAccountList)
             L == Before(lpAccountList, i)
             r == AccountCall(LpShare(n, a), "LP")
             local == CashFlow(n, now)
  <1>1. /\ tx.i = i + 1 /\ tx.local.amount = n
        /\ IsAt(tx, "capitalCall", "lps", i + 1, local)
        /\ Recorded(tx.written, n, G, L) /\ tx.written.totalCalled = totalCalled
    BY DEF LpsAt, IsAt, CashFlow
  <1>2. i + 1 \in 0..Len(lpAccountList) /\ i + 1 \in 1..Len(lpAccountList)
    BY <1>1 DEF lpShareNext, InLoop
  <1>3. a \in Accounts /\ n \in Nat /\ CallTypeOK
    BY <1>2, TypeParts, FundAssumption
  <1>4. \/ Reverts
        \/ LpShare(n, a) # 0 /\ Continues(ShareRecorded(tx, a, CallId, r))
    <2>1. \/ Reverts
          \/ /\ LpShare(tx.local.amount, lpAccountList[tx.i]) # 0
             /\ Continues(ShareRecorded(tx, lpAccountList[tx.i], CallId,
                  AccountCall(LpShare(tx.local.amount, lpAccountList[tx.i]), "LP")))
      BY DEF lpShareNext, RecordsShare, Requires, ShareRecorded
    <2> QED BY <1>1, <2>1
  <1>5. CASE Reverts
    BY <1>5 DEF Reverts
  <1>6. ASSUME LpShare(n, a) # 0, Continues(ShareRecorded(tx, a, CallId, r))
        PROVE  LpsAt(tx', n, i + 1) /\ UNCHANGED <<vars, listVars, scenario>>
    <2> HIDE DEF r, local, a, G, L
    <2> DEFINE p == i + 1
               q == (i + 1) + 1
    <2>0. q = p + 1
      OBVIOUS
    <2>a. IsAt(tx, "capitalCall", "lps", p, local) /\ Recorded(tx.written, n, G, L)
      BY <1>1
    <2> HIDE DEF p, q
    <2>1. /\ IsAt(tx', "capitalCall", "lps", q, local)
          /\ WritesOnly(tx'.written, CallWrites)
          /\ tx'.written.capitalCalls = Append(capitalCalls, n)
          /\ tx'.written.accountCapitalCalls = WithRecord(CallRecords(n, G, L), a, r)
          /\ tx'.written.totalCalled = tx.written.totalCalled
          /\ UNCHANGED <<vars, listVars, scenario>>
      BY <1>3, <1>6, <2>0, <2>a, RecordWritten
    <2>2. Before(lpAccountList, i + 1) = L \cup {a}
      BY BeforeStep DEF L, a
    <2>3. CallRecords(n, G, L \cup {a}) = WithRecord(CallRecords(n, G, L), a, r)
      BY <1>3, LpRecordOneMore DEF r
    <2>4. Recorded(tx'.written, n, G, L \cup {a})
      BY <1>1, <1>6, <2>1, <2>3 DEF Recorded
    <2>5. Range(gpAccountList)' = G
      BY <2>1 DEF G, listVars
    <2> QED BY <1>1, <2>1, <2>2, <2>4 DEF LpsAt, local, G, q
  <1> QED BY <1>2, <1>4, <1>5, <1>6

LEMMA GpSharesEnd ==
    ASSUME gpAccountList \in Seq(Accounts), NEW n, NEW i \in 0..Len(gpAccountList),
           GpsAt(tx, n, i), gpSharesEnd
    PROVE  LpsAt(tx', n, 0) /\ UNCHANGED <<vars, listVars, scenario>>
  <1> DEFINE local == CashFlow(n, now)
             w == tx.written
  <1>1. /\ tx = [call |-> "capitalCall", pc |-> "gps", i |-> i + 1, local |-> local,
                 written |-> w]
        /\ Recorded(w, n, Before(gpAccountList, i), {}) /\ w.totalCalled = totalCalled
    BY DEF GpsAt, IsAt
  <1> HIDE DEF local, w
  <1>2. i = Len(gpAccountList)
    BY <1>1 DEF gpSharesEnd, LoopEnds
  <1>3. Before(gpAccountList, i) = Range(gpAccountList) /\ Before(lpAccountList, 0) = {}
    BY <1>2, BeforeAll, BeforeStep
  <1>4. tx' = [call |-> "capitalCall", pc |-> "lps", i |-> 1, local |-> local, written |-> w]
        /\ UNCHANGED <<vars, listVars, scenario>>
    BY <1>1 DEF gpSharesEnd, Continues
  <1>5. IsAt(tx', "capitalCall", "lps", 0 + 1, local) /\ tx'.written = w
    BY <1>4 DEF IsAt
  <1> QED BY <1>1, <1>3, <1>4, <1>5 DEF LpsAt, local

LEMMA LpSharesEnd ==
    ASSUME lpAccountList \in Seq(Accounts), NEW n, NEW i \in 0..Len(lpAccountList),
           LpsAt(tx, n, i), lpSharesEnd
    PROVE  CalledAt(tx', n) /\ UNCHANGED <<vars, listVars, scenario>>
  <1> DEFINE local == CashFlow(n, now)
             w == tx.written
             v == [w EXCEPT !.totalCalled = @ + n]
             G == Range(gpAccountList)
             L == Range(lpAccountList)
  <1>1. /\ tx = [call |-> "capitalCall", pc |-> "lps", i |-> i + 1, local |-> local,
                 written |-> w]
        /\ Recorded(w, n, G, Before(lpAccountList, i)) /\ w.totalCalled = totalCalled
    BY DEF LpsAt, IsAt
  <1>a. local.amount = n
    BY DEF CashFlow
  <1> HIDE DEF local, w, G
  <1>2. i = Len(lpAccountList)
    BY <1>1 DEF lpSharesEnd, LoopEnds
  <1>3. Before(lpAccountList, i) = L
    BY <1>2, BeforeAll
  <1>4. /\ tx' = [call |-> "capitalCall", pc |-> "compounding", i |-> i + 1, local |-> local,
                  written |-> v]
        /\ UNCHANGED <<vars, listVars, scenario>>
    BY <1>1, <1>a DEF lpSharesEnd, Continues
  <1> HIDE DEF v, L
  <1>5. IsAt(tx', "capitalCall", "compounding", tx'.i, local) /\ tx'.written = v
    BY <1>4 DEF IsAt
  <1>6. CompoundingAt(tx', "capitalCall", n, now)
    BY <1>5, CompoundingStarts DEF local
  <1>7. WritesOnly(w, CallWrites)
    BY <1>1 DEF Recorded
  <1>8. /\ v.totalCalled = totalCalled + n /\ v.capitalCalls = w.capitalCalls
        /\ v.accountCapitalCalls = w.accountCapitalCalls /\ WritesOnly(v, CallWrites)
    <2>1. "totalCalled" \in DOMAIN w /\ "capitalCalls" \in DOMAIN w
          /\ "accountCapitalCalls" \in DOMAIN w
      BY <1>7 DEF WritesOnly, Storage
    <2>2. /\ DOMAIN v = DOMAIN w /\ \A x \in DOMAIN w \ {"totalCalled"} : v[x] = w[x]
          /\ v.totalCalled = totalCalled + n
      BY <1>1, <2>1 DEF v
    <2>3. WritesOnly(v, CallWrites)
      BY <1>7, <2>2 DEF WritesOnly, CallWrites
    <2> QED BY <2>1, <2>2, <2>3
  <1>9. Recorded(v, n, G, L)
    BY <1>1, <1>3, <1>8 DEF Recorded
  <1> QED BY <1>4, <1>5, <1>6, <1>8, <1>9 DEF CalledAt, G, L

LEMMA CallContinues ==
    ASSUME TypeOK, DatesInRange,
           gpAccountList \in Seq(Accounts), lpAccountList \in Seq(Accounts),
           Calling(tx),
           \/ callAdded
           \/ gpShareNext \/ gpSharesEnd
           \/ lpShareNext \/ lpSharesEnd
           \/ compoundNext
    PROVE  (tx' = Idle \/ Calling(tx')) /\ UNCHANGED <<vars, listVars, scenario>>
  <1>1. PICK n \in CallAmounts : CallingFor(tx, n)
    BY DEF Calling
  <1>2. ASSUME callAdded
        PROVE  (tx' = Idle \/ Calling(tx')) /\ UNCHANGED <<vars, listVars, scenario>>
    <2>1. ToCallAt(tx, n)
      BY <1>1, <1>2, CallStages DEF callAdded, At
    <2>2. (tx' = Idle \/ GpsAt(tx', n, 0)) /\ UNCHANGED <<vars, listVars, scenario>>
      BY <1>2, <2>1, CallAddedContinues
    <2>3. 0 \in 0..Len(gpAccountList)
      OBVIOUS
    <2> QED BY <2>2, <2>3, Zenon DEF Calling, CallingFor
  <1>3. ASSUME gpShareNext
        PROVE  (tx' = Idle \/ Calling(tx')) /\ UNCHANGED <<vars, listVars, scenario>>
    <2>1. PICK i \in 0..Len(gpAccountList) : GpsAt(tx, n, i)
      BY <1>1, <1>3, CallStages DEF gpShareNext, InLoop, At
    <2>2. /\ tx' = Idle \/ (i + 1 \in 0..Len(gpAccountList) /\ GpsAt(tx', n, i + 1))
          /\ UNCHANGED <<vars, listVars, scenario>>
      BY <1>3, <2>1, GpShareContinues
    <2> QED BY <2>2, Zenon DEF Calling, CallingFor
  <1>4. ASSUME gpSharesEnd
        PROVE  (tx' = Idle \/ Calling(tx')) /\ UNCHANGED <<vars, listVars, scenario>>
    <2>1. PICK i \in 0..Len(gpAccountList) : GpsAt(tx, n, i)
      BY <1>1, <1>4, CallStages DEF gpSharesEnd, LoopEnds, At
    <2>2. LpsAt(tx', n, 0) /\ UNCHANGED <<vars, listVars, scenario>>
      BY <1>4, <2>1, GpSharesEnd
    <2>3. 0 \in 0..Len(lpAccountList)
      OBVIOUS
    <2> QED BY <2>2, <2>3, Zenon DEF Calling, CallingFor
  <1>5. ASSUME lpShareNext
        PROVE  (tx' = Idle \/ Calling(tx')) /\ UNCHANGED <<vars, listVars, scenario>>
    <2>1. PICK i \in 0..Len(lpAccountList) : LpsAt(tx, n, i)
      BY <1>1, <1>5, CallStages DEF lpShareNext, InLoop, At
    <2>2. /\ tx' = Idle \/ (i + 1 \in 0..Len(lpAccountList) /\ LpsAt(tx', n, i + 1))
          /\ UNCHANGED <<vars, listVars, scenario>>
      BY <1>5, <2>1, LpShareContinues
    <2> QED BY <2>2, Zenon DEF Calling, CallingFor
  <1>6. ASSUME lpSharesEnd
        PROVE  (tx' = Idle \/ Calling(tx')) /\ UNCHANGED <<vars, listVars, scenario>>
    <2>1. PICK i \in 0..Len(lpAccountList) : LpsAt(tx, n, i)
      BY <1>1, <1>6, CallStages DEF lpSharesEnd, LoopEnds, At
    <2>2. CalledAt(tx', n) /\ UNCHANGED <<vars, listVars, scenario>>
      BY <1>6, <2>1, LpSharesEnd
    <2> QED BY <2>2, Zenon DEF Calling, CallingFor
  <1>7. ASSUME compoundNext
        PROVE  (tx' = Idle \/ Calling(tx')) /\ UNCHANGED <<vars, listVars, scenario>>
    <2>1. CalledAt(tx, n) /\ now \in Times
      BY <1>1, <1>7, CallStages, TypeParts DEF compoundNext, EnvType
    <2>2. /\ CompoundingAt(tx', "capitalCall", n, now)
          /\ tx'.i = tx.i /\ tx'.written = tx.written
          /\ UNCHANGED <<vars, listVars, scenario>>
      BY <1>7, <2>1, CompoundContinues DEF CalledAt
    <2>3. CalledAt(tx', n)
      BY <2>1, <2>2 DEF CalledAt
    <2> QED BY <2>2, <2>3, Zenon DEF Calling, CallingFor
  <1> QED BY <1>2, <1>3, <1>4, <1>5, <1>6, <1>7

LEMMA EntriesPushed ==
    ASSUME NEW w, NEW names, WritesOnly(w, names), "interestEntries" \notin names, NEW pushed
    PROVE  /\ WithEntries(w, pushed).interestEntries = interestEntries \o pushed
           /\ DOMAIN WithEntries(w, pushed) = DOMAIN w
           /\ \A x \in DOMAIN w \ {"interestEntries"} : WithEntries(w, pushed)[x] = w[x]
           /\ WritesOnly(WithEntries(w, pushed), names \cup {"interestEntries"})
  <1> DEFINE v == WithEntries(w, pushed)
  <1>1. "interestEntries" \in DOMAIN w /\ w.interestEntries = interestEntries
    BY DEF WritesOnly, Storage
  <1>2. /\ v.interestEntries = interestEntries \o pushed
        /\ DOMAIN v = DOMAIN w
        /\ \A x \in DOMAIN w \ {"interestEntries"} : v[x] = w[x]
    BY <1>1 DEF WithEntries
  <1> HIDE DEF v
  <1>3. WritesOnly(v, names \cup {"interestEntries"})
    BY <1>2 DEF WritesOnly
  <1> QED BY <1>2, <1>3 DEF v

LEMMA CallReturns ==
    ASSUME TypeOK, DatesInRange, ListsAgree, Calling(tx), inflowAdded
    PROVE  /\ \/ (\E n \in CallAmounts : capitalCall(n)) /\ UNCHANGED <<listVars, scenario>>
              \/ UNCHANGED <<vars, listVars, scenario>>
           /\ tx' = Idle
  <1>1. PICK n \in CallAmounts : CallingFor(tx, n)
    BY DEF Calling
  <1>2. CalledAt(tx, n) /\ now \in Times
    BY <1>1, CallStages, TypeParts DEF inflowAdded, CompoundingEnds, At, EnvType
  <1> DEFINE w == tx.written
             flow == Inflow(n, terms["prefRate"], now, terms["compoundingInterval"])
             v == WithEntries(w, flow.pushed)
  <1>3. tx.local.run = Compounded(now) /\ tx.local.amount = n
    <2>1. tx.local = CashFlowAt(n, now, tx.local.mark, Compounded(now))
      BY <1>2, CompoundEnds DEF CalledAt, inflowAdded, CompoundingEnds
    <2> DEFINE m == tx.local.mark
    <2> HIDE DEF m
    <2>2. tx.local = CashFlowAt(n, now, m, Compounded(now))
      BY <2>1 DEF m
    <2> QED BY <2>2 DEF CashFlowAt
  <1>4. Reverts \/ (flow.completes /\ Returns(v))
    <2>1. flow = InflowAfter(tx.local.run, tx.local.amount, terms["prefRate"], now)
      BY <1>3 DEF Inflow, Compounded
    <2> HIDE DEF flow
    <2>2. RequiresThenReturns(flow.completes, v)
      BY <2>1 DEF inflowAdded
    <2> QED BY <2>2 DEF RequiresThenReturns
  <1>5. CASE Reverts
    BY <1>5 DEF Reverts
  <1>6. ASSUME flow.completes, Returns(v)
        PROVE  capitalCall(n) /\ UNCHANGED <<listVars, scenario>> /\ tx' = Idle
    <2>1. /\ Recorded(w, n, gpAccounts, lpAccounts) /\ w.totalCalled = totalCalled + n
          /\ WritesOnly(w, CallWrites)
      BY <1>2 DEF CalledAt, ListsAgree, Recorded
    <2> HIDE DEF w, flow
    <2>2. /\ v.interestEntries = interestEntries \o flow.pushed
          /\ DOMAIN v = DOMAIN w
          /\ \A x \in DOMAIN w \ {"interestEntries"} : v[x] = w[x]
          /\ WritesOnly(v, CallWrites \cup {"interestEntries"})
      BY <2>1, EntriesPushed DEF CallWrites
    <2> HIDE DEF v
    <2>3. /\ v.capitalCalls = w.capitalCalls /\ v.accountCapitalCalls = w.accountCapitalCalls
          /\ v.totalCalled = w.totalCalled
      BY <2>1, <2>2 DEF WritesOnly, Storage
    <2>4. /\ UNCHANGED <<commitVars, redemptionVars, tokens, cash, terms, distVars, envVars>>
          /\ UNCHANGED <<listVars, scenario>> /\ tx' = Idle
          /\ capitalCalls' = v.capitalCalls /\ accountCapitalCalls' = v.accountCapitalCalls
          /\ totalCalled' = v.totalCalled /\ interestEntries' = v.interestEntries
      BY <1>6, <2>2, WritesRest
         DEF Returns, CallWrites, commitVars, redemptionVars, distVars, envVars
    <2>5. capitalCall(n)
      BY <1>6, <2>1, <2>2, <2>3, <2>4, Zenon
         DEF capitalCall, Recorded, MayCall, CallRecords, flow
    <2> QED BY <2>4, <2>5
  <1> QED BY <1>4, <1>5, <1>6

-----------------------------------------------------------------------------
(* distribute.                                                             *)

PayOf(n, t) == Outflow(n, terms["prefRate"], t, terms["compoundingInterval"])

DistWrites ==
    {"interestEntries", "distributionCount", "totalDistributed", "gpCatchup",
     "lpReturn", "gpReturn", "tokens", "cash"}

\* The outflow is on record.
OutflowRecorded(w, pay, n) ==
    /\ WritesOnly(w, DistWrites)
    /\ w.interestEntries = interestEntries \o pay.pushed
    /\ w.distributionCount = distributionCount + 1
    /\ w.totalDistributed = totalDistributed + n
    /\ w.gpCatchup = Shares(pay).catchup

ShareOf(pay, type) == IF type = "LP" THEN Shares(pay).lp ELSE Shares(pay).gp

ReturnPaid(type, before, S, pay) ==
    IF type \in S THEN before + ShareOf(pay, type) ELSE before

TokensPaid(S, pay) ==
    [k \in TokenNames |->
        IF k = "lpFund" /\ "LP" \in S THEN Distributed(tokens[k], Shares(pay).lp, scale)
        ELSE IF k = "gpFund" /\ "GP" \in S THEN Distributed(tokens[k], Shares(pay).gp, scale)
        ELSE tokens[k]]

CashPaid(S, pay) ==
    [k \in TokenNames |->
        IF k = "lpFund" /\ "LP" \in S THEN cash[k] + Shares(pay).lp
        ELSE IF k = "gpFund" /\ "GP" \in S THEN cash[k] + Shares(pay).gp
        ELSE cash[k]]

\* The accounts of S have been paid, each of them once.
PaidTo(w, pay, S) ==
    /\ w.lpReturn = ReturnPaid("LP", lpReturn, S, pay)
    /\ w.gpReturn = ReturnPaid("GP", gpReturn, S, pay)
    /\ w.tokens = TokensPaid(S, pay)
    /\ w.cash = CashPaid(S, pay)
    /\ \A type \in S : MayDistribute(tokens[FundTokenOf(type)], ShareOf(pay, type), scale)

\* The types that the first i payments are for.
TypesPaid(pay, i) == {Payments(pay)[j].type : j \in 1..i}

ToDistributeAt(x, n, t) ==
    /\ CompoundingAt(x, "distribute", n, t)
    /\ x.i = 1
    /\ x.written = Storage
    /\ distributionCount < MaxDistributions

PayingAt(x, n, t, i) ==
    LET pay == PayOf(n, t) IN
    /\ IsAt(x, "distribute", "pay", i + 1, x.local)
    /\ x.local.payments = Payments(pay)
    /\ OutflowRecorded(x.written, pay, n)
    /\ PaidTo(x.written, pay, TypesPaid(pay, i))
    /\ pay.completes
    /\ distributionCount < MaxDistributions

DistributingFor(x, n, t) ==
    \/ ToDistributeAt(x, n, t)
    \/ \E i \in 0..Len(Payments(PayOf(n, t))) : PayingAt(x, n, t, i)

Distributing(x) == \E n \in DistAmounts : \E t \in Times : DistributingFor(x, n, t)

LEMMA DistributeStages ==
    ASSUME NEW x, NEW n, NEW t, DistributingFor(x, n, t)
    PROVE  /\ x.call = "distribute"
           /\ x.pc = "compounding" => ToDistributeAt(x, n, t)
           /\ x.pc = "pay" => \E i \in 0..Len(Payments(PayOf(n, t))) : PayingAt(x, n, t, i)
           /\ x.pc \in {"compounding", "pay"}
  <1>1. ASSUME ToDistributeAt(x, n, t) PROVE x.call = "distribute" /\ x.pc = "compounding"
    BY <1>1 DEF ToDistributeAt, CompoundingAt, IsAt
  <1>2. ASSUME NEW i, PayingAt(x, n, t, i) PROVE x.call = "distribute" /\ x.pc = "pay"
    BY <1>2 DEF PayingAt, IsAt
  <1> QED BY <1>1, <1>2 DEF DistributingFor

LEMMA DistributeStarts ==
    ASSUME NEW n \in DistAmounts, NEW t \in Times, startDistribute(n, t)
    PROVE  Distributing(tx') /\ UNCHANGED <<vars, listVars, scenario>>
  <1> DEFINE local == CashFlow(n, t)
  <1>1. /\ tx' = [call |-> "distribute", pc |-> "compounding", i |-> 1, local |-> local,
                  written |-> Storage]
        /\ UNCHANGED <<vars, listVars, scenario>> /\ distributionCount < MaxDistributions
    BY DEF startDistribute, Starts
  <1> HIDE DEF local
  <1>2. /\ tx'.written = Storage /\ tx'.i = 1
        /\ IsAt(tx', "distribute", "compounding", tx'.i, local)
    BY <1>1 DEF IsAt
  <1>3. CompoundingAt(tx', "distribute", n, t)
    BY <1>2, CompoundingStarts DEF local
  <1>4. ToDistributeAt(tx', n, t)
    BY <1>1, <1>2, <1>3 DEF ToDistributeAt
  <1> QED BY <1>1, <1>4 DEF Distributing, DistributingFor

LEMMA OneAndOne ==
    ASSUME NEW a, NEW b
    PROVE  <<a>> \o <<b>> = <<a, b>>
  <1> DEFINE s == <<a>> \o <<b>>
             t == <<a, b>>
             S == {a, b}
  <1>1. <<a>> \in Seq(S) /\ <<b>> \in Seq(S) /\ t \in Seq(S)
    OBVIOUS
  <1>2. s \in Seq(S) /\ Len(s) = 2 /\ s[1] = a /\ s[2] = b
    BY <1>1
  <1>3. Len(t) = 2 /\ t[1] = a /\ t[2] = b
    BY <1>1
  <1> HIDE DEF s, t, S
  <1>4. s = [i \in 1..2 |-> s[i]] /\ t = [i \in 1..2 |-> t[i]]
    BY <1>1, <1>2, <1>3
  <1>5. \A i \in 1..2 : s[i] = t[i]
    BY <1>2, <1>3
  <1>6. s = t
    BY <1>4, <1>5
  <1> QED BY <1>6 DEF s, t

\* A distribution pays each of LP and GP at most once, and whoever has a share.
LEMMA PaymentsAre ==
    ASSUME NEW pay, Shares(pay).lp \in Nat, Shares(pay).gp \in Nat
    PROVE  /\ Len(Payments(pay)) \in Nat
           /\ \A j \in 1..Len(Payments(pay)) :
                 /\ Payments(pay)[j].type \in {"LP", "GP"}
                 /\ Payments(pay)[j].amount = ShareOf(pay, Payments(pay)[j].type)
           /\ \A i, j \in 1..Len(Payments(pay)) :
                 i # j => Payments(pay)[i].type # Payments(pay)[j].type
           /\ "LP" \in TypesPaid(pay, Len(Payments(pay))) <=> Shares(pay).lp > 0
           /\ "GP" \in TypesPaid(pay, Len(Payments(pay))) <=> Shares(pay).gp > 0
  <1> DEFINE lp == Shares(pay).lp
             gp == Shares(pay).gp
             L == [type |-> "LP", amount |-> lp]
             G == [type |-> "GP", amount |-> gp]
             p == Payments(pay)
             Good(q) == /\ Len(q) \in Nat
                        /\ \A j \in 1..Len(q) :
                              /\ q[j].type \in {"LP", "GP"}
                              /\ q[j].amount = IF q[j].type = "LP" THEN lp ELSE gp
                        /\ \A i, j \in 1..Len(q) : i # j => q[i].type # q[j].type
                        /\ "LP" \in {q[j].type : j \in 1..Len(q)} <=> lp > 0
                        /\ "GP" \in {q[j].type : j \in 1..Len(q)} <=> gp > 0
  <1>1. /\ lp > 0 /\ gp > 0 => p = <<L, G>> \/ p = <<G, L>>
        /\ lp > 0 /\ ~ (gp > 0) => p = <<L>>
        /\ ~ (lp > 0) /\ gp > 0 => p = <<G>>
        /\ ~ (lp > 0) /\ ~ (gp > 0) => p = << >>
    <2> DEFINE q == Payment("LP", lp)
               r == Payment("GP", gp)
    <2>1. p = q \o r \/ p = r \o q
      BY DEF Payments
    <2>2. /\ q = IF lp > 0 THEN <<L>> ELSE << >>
          /\ r = IF gp > 0 THEN <<G>> ELSE << >>
      BY DEF Payment
    <2> HIDE DEF q, r, p, L, G, lp, gp
    <2>4. /\ <<L>> \o <<G>> = <<L, G>> /\ <<G>> \o <<L>> = <<G, L>>
      BY OneAndOne
    <2>3. /\ <<L>> \o << >> = <<L>> /\ << >> \o <<L>> = <<L>>
          /\ <<G>> \o << >> = <<G>> /\ << >> \o <<G>> = <<G>>
          /\ << >> \o << >> = << >>
      OBVIOUS
    <2> QED BY <2>1, <2>2, <2>3, <2>4
  <1>2. L.type = "LP" /\ L.amount = lp /\ G.type = "GP" /\ G.amount = gp
    OBVIOUS
  <1> HIDE DEF L, G, lp, gp
  <1>3. /\ lp > 0 /\ gp > 0 => Good(<<L, G>>) /\ Good(<<G, L>>)
    BY <1>2
  <1>4. /\ lp > 0 /\ ~ (gp > 0) => Good(<<L>>)
    BY <1>2
  <1>5. ~ (lp > 0) /\ gp > 0 => Good(<<G>>)
    BY <1>2
  <1>6. ~ (lp > 0) /\ ~ (gp > 0) => Good(<< >>)
    OBVIOUS
  <1> HIDE DEF Good
  <1>7. Good(p)
    BY <1>1, <1>3, <1>4, <1>5, <1>6
  <1> QED BY <1>7 DEF Good, lp, gp, ShareOf, TypesPaid

OutflowWritten(w, pay, n) ==
    [WithEntries(w, pay.pushed) EXCEPT
        !.distributionCount = @ + 1,
        !.totalDistributed  = @ + n,
        !.gpCatchup         = Shares(pay).catchup]

OutflowNext(x, pay, n) ==
    [x EXCEPT !.pc = "pay",
              !.local.payments = Payments(pay),
              !.written = [WithEntries(x.written, pay.pushed) EXCEPT
                  !.distributionCount = @ + 1,
                  !.totalDistributed  = @ + n,
                  !.gpCatchup         = Shares(pay).catchup]]

LEMMA OutflowWrites ==
    ASSUME TypeOK, NEW pay, NEW n
    PROVE  /\ OutflowRecorded(OutflowWritten(Storage, pay, n), pay, n)
           /\ PaidTo(OutflowWritten(Storage, pay, n), pay, {})
  <1> DEFINE w == WithEntries(Storage, pay.pushed)
             v == OutflowWritten(Storage, pay, n)
             catchup == Shares(pay).catchup
  <1>1. WritesOnly(Storage, {})
    BY DEF WritesOnly
  <1>2. /\ w.interestEntries = interestEntries \o pay.pushed
        /\ DOMAIN w = DOMAIN Storage
        /\ \A x \in DOMAIN Storage \ {"interestEntries"} : w[x] = Storage[x]
    BY <1>1, EntriesPushed
  <1>3. {"interestEntries", "distributionCount", "totalDistributed", "gpCatchup",
         "lpReturn", "gpReturn", "tokens", "cash"} \subseteq DOMAIN Storage
    BY DEF Storage
  <1>4. v = [w EXCEPT !.distributionCount = @ + 1, !.totalDistributed = @ + n,
                      !.gpCatchup = catchup]
    BY DEF OutflowWritten
  <1> HIDE DEF v, w, catchup
  <1>5. /\ v.interestEntries = w.interestEntries
        /\ v.distributionCount = w.distributionCount + 1
        /\ v.totalDistributed = w.totalDistributed + n
        /\ v.gpCatchup = catchup
        /\ DOMAIN v = DOMAIN w
        /\ \A x \in DOMAIN w \ {"distributionCount", "totalDistributed", "gpCatchup"} :
              v[x] = w[x]
    BY <1>2, <1>3, <1>4
  <1>6. /\ w.distributionCount = distributionCount /\ w.totalDistributed = totalDistributed
        /\ w.lpReturn = lpReturn /\ w.gpReturn = gpReturn
        /\ w.tokens = tokens /\ w.cash = cash
    BY <1>2, <1>3 DEF Storage
  <1>7. v.lpReturn = lpReturn /\ v.gpReturn = gpReturn /\ v.tokens = tokens /\ v.cash = cash
    BY <1>2, <1>3, <1>5, <1>6
  <1>8. WritesOnly(v, DistWrites)
    BY <1>2, <1>5 DEF WritesOnly, DistWrites
  <1>9. OutflowRecorded(v, pay, n)
    BY <1>2, <1>5, <1>6, <1>8 DEF OutflowRecorded, catchup
  <1>10. TokensPaid({}, pay) = tokens /\ CashPaid({}, pay) = cash
    BY TypeParts DEF TokensType, CashType, TokensPaid, CashPaid
  <1>11. PaidTo(v, pay, {})
    BY <1>7, <1>10 DEF PaidTo, ReturnPaid
  <1> QED BY <1>9, <1>11 DEF v

LEMMA OutflowContinues ==
    ASSUME TypeOK, DatesInRange, NEW n \in DistAmounts, NEW t \in Times,
           ToDistributeAt(tx, n, t), outflowAdded
    PROVE  (tx' = Idle \/ PayingAt(tx', n, t, 0)) /\ UNCHANGED <<vars, listVars, scenario>>
  <1> DEFINE pay == PayOf(n, t)
  <1>1. tx.local = CashFlowAt(n, t, tx.local.mark, Compounded(t))
    BY CompoundEnds DEF ToDistributeAt, outflowAdded, CompoundingEnds
  <1> DEFINE m == tx.local.mark
  <1> HIDE DEF m
  <1>2. tx.local = CashFlowAt(n, t, m, Compounded(t))
    BY <1>1 DEF m
  <1>3. tx.local.run = Compounded(t) /\ tx.local.amount = n /\ tx.local.time = t
    BY <1>2 DEF CashFlowAt
  <1>4. \/ Reverts
        \/ pay.completes /\ Continues(OutflowNext(tx, pay, n))
    <2>1. pay = OutflowAfter(tx.local.run, tx.local.amount, terms["prefRate"], tx.local.time)
      BY <1>3 DEF PayOf, Outflow, Compounded
    <2> HIDE DEF pay
    <2>2. Requires(pay.completes, OutflowNext(tx, pay, tx.local.amount))
      <3> DEFINE p == OutflowAfter(tx.local.run, tx.local.amount, terms["prefRate"],
                                   tx.local.time)
      <3>1. \E q \in {p} : Requires(q.completes, OutflowNext(tx, q, tx.local.amount))
        BY DEF outflowAdded, OutflowNext
      <3> HIDE DEF p
      <3>2. Requires(p.completes, OutflowNext(tx, p, tx.local.amount))
        BY <3>1
      <3> QED BY <2>1, <3>2 DEF p
    <2> QED BY <1>3, <2>2 DEF Requires
  <1>5. CASE Reverts
    BY <1>5 DEF Reverts
  <1>6. ASSUME pay.completes, Continues(OutflowNext(tx, pay, n))
        PROVE  PayingAt(tx', n, t, 0) /\ UNCHANGED <<vars, listVars, scenario>>
    <2> DEFINE local == tx.local
               w == OutflowWritten(Storage, pay, n)
               p == Payments(pay)
    <2>1. tx = [call |-> "distribute", pc |-> "compounding", i |-> 1, local |-> local,
                written |-> Storage]
      <3>1. PICK mark, run : IsAt(tx, "distribute", "compounding", tx.i, CashFlowAt(n, t, mark, run))
        BY DEF ToDistributeAt, CompoundingAt
      <3> DEFINE c == CashFlowAt(n, t, mark, run)
      <3> HIDE DEF c
      <3>2. tx = [call |-> "distribute", pc |-> "compounding", i |-> 1, local |-> c,
                  written |-> Storage]
        BY <3>1 DEF IsAt, ToDistributeAt, c
      <3> QED BY <3>2
    <2>2. OutflowRecorded(w, pay, n) /\ PaidTo(w, pay, {})
      BY OutflowWrites
    <2>3. tx' = [tx EXCEPT !.pc = "pay", !.local.payments = p, !.written = w]
      <3> DEFINE c == Shares(pay).catchup
                 e == pay.pushed
                 Booked(u) == [WithEntries(u, e) EXCEPT
                                !.distributionCount = @ + 1,
                                !.totalDistributed  = @ + n,
                                !.gpCatchup         = c]
      <3>1. tx' = [tx EXCEPT !.pc = "pay", !.local.payments = p, !.written = Booked(@)]
        BY <1>6 DEF Continues, OutflowNext
      <3>2. w = Booked(Storage) /\ tx.written = Storage
        BY <2>1 DEF OutflowWritten
      <3> HIDE DEF local, p, pay, w, Booked
      <3> QED BY <3>1, <3>2
    <2>4. "payments" \in DOMAIN local
      BY <1>2 DEF CashFlowAt
    <2> HIDE DEF local, p, pay
    <2>5. /\ tx'.written = w /\ tx'.local = [local EXCEPT !.payments = p]
          /\ tx' = [call |-> "distribute", pc |-> "pay", i |-> 1, local |-> tx'.local,
                    written |-> tx'.written]
      BY <2>1, <2>3
    <2>6. tx'.local.payments = p /\ IsAt(tx', "distribute", "pay", 0 + 1, tx'.local)
      BY <2>4, <2>5 DEF IsAt
    <2>7. TypesPaid(pay, 0) = {}
      BY DEF TypesPaid
    <2> HIDE DEF w
    <2>8. PayingAt(tx', n, t, 0)
      BY <1>6, <2>2, <2>5, <2>6, <2>7 DEF PayingAt, ToDistributeAt, p, pay
    <2> QED BY <1>6, <2>8 DEF Continues
  <1> QED BY <1>4, <1>5, <1>6

\* One payment: what is booked, what the token is told, what it receives.
PaidOut(w, type, k, n) ==
    [WithReturn(w, type, n) EXCEPT !.tokens[k] = Distributed(@, n, scale),
                                   !.cash[k]   = @ + n]

PaidNext(x, type, k, n) ==
    [x EXCEPT !.i = @ + 1,
              !.written = [WithReturn(x.written, type, n) EXCEPT
                  !.tokens[k] = Distributed(@, n, scale),
                  !.cash[k]   = @ + n]]

PaymentBooked(v, w, type, k, n) ==
    /\ v.lpReturn = IF type = "LP" THEN w.lpReturn + n ELSE w.lpReturn
    /\ v.gpReturn = IF type = "GP" THEN w.gpReturn + n ELSE w.gpReturn
    /\ v.tokens = [w.tokens EXCEPT ![k] = Distributed(@, n, scale)]
    /\ v.cash = [w.cash EXCEPT ![k] = @ + n]
    /\ v.interestEntries = w.interestEntries
    /\ v.distributionCount = w.distributionCount
    /\ v.totalDistributed = w.totalDistributed
    /\ v.gpCatchup = w.gpCatchup
    /\ WritesOnly(v, DistWrites)

LEMMA PaidOutFields ==
    ASSUME NEW w, WritesOnly(w, DistWrites), NEW type \in {"LP", "GP"}, NEW k, NEW n,
           NEW v, v = PaidOut(w, type, k, n)
    PROVE  PaymentBooked(v, w, type, k, n)
  <1> DEFINE u == WithReturn(w, type, n)
  <1>1. {"interestEntries", "distributionCount", "totalDistributed", "gpCatchup",
         "lpReturn", "gpReturn", "tokens", "cash"} \subseteq DOMAIN w
    BY DEF WritesOnly, Storage
  <1>2. /\ u.lpReturn = IF type = "LP" THEN w.lpReturn + n ELSE w.lpReturn
        /\ u.gpReturn = IF type = "GP" THEN w.gpReturn + n ELSE w.gpReturn
        /\ DOMAIN u = DOMAIN w
        /\ \A x \in DOMAIN w \ {"lpReturn", "gpReturn"} : u[x] = w[x]
    BY <1>1 DEF WithReturn
  <1>3. v = [u EXCEPT !.tokens[k] = Distributed(@, n, scale), !.cash[k] = @ + n]
    BY DEF PaidOut
  <1> HIDE DEF u
  <1>4. /\ v.tokens = [u.tokens EXCEPT ![k] = Distributed(@, n, scale)]
        /\ v.cash = [u.cash EXCEPT ![k] = @ + n]
        /\ DOMAIN v = DOMAIN u
        /\ \A x \in DOMAIN u \ {"tokens", "cash"} : v[x] = u[x]
    BY <1>1, <1>2, <1>3
  <1>5. u.tokens = w.tokens /\ u.cash = w.cash
    BY <1>1, <1>2
  <1>6. /\ v.lpReturn = u.lpReturn /\ v.gpReturn = u.gpReturn
        /\ v.interestEntries = w.interestEntries
        /\ v.distributionCount = w.distributionCount
        /\ v.totalDistributed = w.totalDistributed
        /\ v.gpCatchup = w.gpCatchup
    BY <1>1, <1>2, <1>4
  <1>7. WritesOnly(v, DistWrites)
    BY <1>2, <1>4 DEF WritesOnly, DistWrites
  <1>8. /\ v.lpReturn = IF type = "LP" THEN w.lpReturn + n ELSE w.lpReturn
        /\ v.gpReturn = IF type = "GP" THEN w.gpReturn + n ELSE w.gpReturn
    BY <1>2, <1>6
  <1>9. /\ v.tokens = [w.tokens EXCEPT ![k] = Distributed(@, n, scale)]
        /\ v.cash = [w.cash EXCEPT ![k] = @ + n]
    BY <1>4, <1>5
  <1> QED BY <1>6, <1>7, <1>8, <1>9 DEF PaymentBooked

PaidAlso(w, pay, n, S) == OutflowRecorded(w, pay, n) /\ PaidTo(w, pay, S)

\* Paying one type more.
LEMMA PaidOneMore ==
    ASSUME TypeOK, NEW pay, NEW n, NEW w, NEW S, NEW type \in {"LP", "GP"}, type \notin S,
           PaidAlso(w, pay, n, S),
           MayDistribute(w.tokens[FundTokenOf(type)], ShareOf(pay, type), scale),
           NEW v, v = PaidOut(w, type, FundTokenOf(type), ShareOf(pay, type))
    PROVE  PaidAlso(v, pay, n, S \cup {type})
  <1> DEFINE k == FundTokenOf(type)
             a == ShareOf(pay, type)
             R == S \cup {type}
  <1>1. WritesOnly(w, DistWrites)
    BY DEF PaidAlso, OutflowRecorded
  <1>2. /\ v.lpReturn = IF type = "LP" THEN w.lpReturn + a ELSE w.lpReturn
        /\ v.gpReturn = IF type = "GP" THEN w.gpReturn + a ELSE w.gpReturn
        /\ v.tokens = [w.tokens EXCEPT ![k] = Distributed(@, a, scale)]
        /\ v.cash = [w.cash EXCEPT ![k] = @ + a]
        /\ v.interestEntries = w.interestEntries
        /\ v.distributionCount = w.distributionCount
        /\ v.totalDistributed = w.totalDistributed
        /\ v.gpCatchup = w.gpCatchup
        /\ WritesOnly(v, DistWrites)
    <2> HIDE DEF k, a
    <2>1. v = PaidOut(w, type, k, a)
      BY DEF k, a
    <2>2. PaymentBooked(v, w, type, k, a)
      BY <1>1, <2>1, PaidOutFields
    <2> QED BY <2>2 DEF PaymentBooked
  <1>3. OutflowRecorded(v, pay, n)
    BY <1>2 DEF PaidAlso, OutflowRecorded
  <1>4. PaidTo(w, pay, S)
    BY DEF PaidAlso
  <1>5. /\ k = IF type = "GP" THEN "gpFund" ELSE "lpFund"
        /\ a = IF type = "LP" THEN Shares(pay).lp ELSE Shares(pay).gp
    BY DEF FundTokenOf, ShareOf
  <1>6. k \in TokenNames
    BY <1>5 DEF TokenNames
  <1>7. w.tokens[k] = tokens[k] /\ w.cash[k] = cash[k]
    BY <1>4, <1>5, <1>6 DEF PaidTo, TokensPaid, CashPaid
  <1>8. v.lpReturn = ReturnPaid("LP", lpReturn, R, pay)
        /\ v.gpReturn = ReturnPaid("GP", gpReturn, R, pay)
    BY <1>2, <1>4 DEF PaidTo, ReturnPaid
  <1>9. v.tokens = TokensPaid(R, pay)
    <2>1. w.tokens = TokensPaid(S, pay)
      BY <1>4 DEF PaidTo
    <2>2. v.tokens = [w.tokens EXCEPT ![k] = Distributed(tokens[k], a, scale)]
      BY <1>2, <1>6, <1>7, <2>1 DEF TokensPaid
    <2> HIDE DEF k, a
    <2>3. ASSUME NEW l \in TokenNames
          PROVE  v.tokens[l] = TokensPaid(R, pay)[l]
      BY <1>5, <1>6, <2>1, <2>2 DEF TokensPaid
    <2>4. v.tokens = [l \in TokenNames |-> v.tokens[l]]
          /\ TokensPaid(R, pay) = [l \in TokenNames |-> TokensPaid(R, pay)[l]]
      BY <2>1, <2>2 DEF TokensPaid
    <2> QED BY <2>3, <2>4
  <1>10. v.cash = CashPaid(R, pay)
    <2>1. w.cash = CashPaid(S, pay)
      BY <1>4 DEF PaidTo
    <2>2. v.cash = [w.cash EXCEPT ![k] = cash[k] + a]
      BY <1>2, <1>6, <1>7, <2>1 DEF CashPaid
    <2> HIDE DEF k, a
    <2>3. ASSUME NEW l \in TokenNames
          PROVE  v.cash[l] = CashPaid(R, pay)[l]
      BY <1>5, <1>6, <2>1, <2>2 DEF CashPaid
    <2>4. v.cash = [l \in TokenNames |-> v.cash[l]]
          /\ CashPaid(R, pay) = [l \in TokenNames |-> CashPaid(R, pay)[l]]
      BY <2>1, <2>2 DEF CashPaid
    <2> QED BY <2>3, <2>4
  <1>11. \A s \in R : MayDistribute(tokens[FundTokenOf(s)], ShareOf(pay, s), scale)
    BY <1>4, <1>7 DEF PaidTo
  <1>12. PaidTo(v, pay, R)
    BY <1>8, <1>9, <1>10, <1>11 DEF PaidTo
  <1> QED BY <1>3, <1>12 DEF PaidAlso

LEMMA DistSharesType ==
    ASSUME TypeOK, NEW n \in DistAmounts, NEW t \in Times, PayOf(n, t).completes
    PROVE  Shares(PayOf(n, t)).lp \in Nat /\ Shares(PayOf(n, t)).gp \in Nat
  <1> DEFINE pay == PayOf(n, t)
             run == Compounded(t)
  <1>1. pay = OutflowAfter(run, n, terms["prefRate"], t)
    BY DEF PayOf, Outflow, Compounded
  <1>2. n \in Nat /\ t \in Nat
    BY FundAssumption
  <1> HIDE DEF pay, run
  <1>3. pay.completes
    BY DEF pay
  <1>4. Shares(pay).lp \in Nat /\ Shares(pay).gp \in Nat
    BY <1>1, <1>2, <1>3, SharesAddUp
  <1> QED BY <1>4 DEF pay

\* The next payment is to a type that has not been paid.
LEMMA NextTypePaid ==
    ASSUME NEW pay, Shares(pay).lp \in Nat, Shares(pay).gp \in Nat,
           NEW i \in Nat, NEW j, j = i + 1, j <= Len(Payments(pay)),
           NEW type, type = Payments(pay)[j].type
    PROVE  /\ type \in {"LP", "GP"} /\ type \notin TypesPaid(pay, i)
           /\ Payments(pay)[j].amount = ShareOf(pay, type)
           /\ TypesPaid(pay, j) = TypesPaid(pay, i) \cup {type}
           /\ j \in 0..Len(Payments(pay))
  <1> DEFINE p == Payments(pay)
  <1>1. /\ Len(p) \in Nat
        /\ \A m \in 1..Len(p) : /\ p[m].type \in {"LP", "GP"}
                                /\ p[m].amount = ShareOf(pay, p[m].type)
        /\ \A l, m \in 1..Len(p) : l # m => p[l].type # p[m].type
    BY PaymentsAre
  <1>2. TypesPaid(pay, i) = {p[m].type : m \in 1..i} /\ TypesPaid(pay, j) = {p[m].type : m \in 1..j}
        /\ type = p[j].type /\ j <= Len(p)
    BY DEF TypesPaid
  <1> HIDE DEF p
  <1>3. j \in 1..Len(p) /\ 1..j = 1..i \cup {j} /\ \A m \in 1..i : m \in 1..Len(p) /\ m # j
    BY <1>1, <1>2
  <1>4. type \notin TypesPaid(pay, i)
    BY <1>1, <1>2, <1>3
  <1>5. TypesPaid(pay, j) = TypesPaid(pay, i) \cup {type}
    BY <1>2, <1>3
  <1>6. type \in {"LP", "GP"} /\ p[j].amount = ShareOf(pay, type) /\ j \in 0..Len(p)
    BY <1>1, <1>2, <1>3
  <1> QED BY <1>4, <1>5, <1>6 DEF p

LEMMA PayContinues ==
    ASSUME TypeOK, NEW n \in DistAmounts, NEW t \in Times,
           NEW i \in 0..Len(Payments(PayOf(n, t))), PayingAt(tx, n, t, i), payNext,
           NEW j, j = i + 1
    PROVE  /\ tx' = Idle \/ (PayingAt(tx', n, t, j) /\ j \in 0..Len(Payments(PayOf(n, t))))
           /\ UNCHANGED <<vars, listVars, scenario>>
  <1> DEFINE pay == PayOf(n, t)
             local == tx.local
             w == tx.written
             p == Payments(pay)
             type == p[j].type
             k == FundTokenOf(type)
             a == ShareOf(pay, type)
  <1>1. /\ tx = [call |-> "distribute", pc |-> "pay", i |-> j, local |-> local,
                 written |-> w]
        /\ local.payments = p
        /\ OutflowRecorded(w, pay, n)
        /\ PaidTo(w, pay, TypesPaid(pay, i))
        /\ pay.completes /\ distributionCount < MaxDistributions
    BY DEF PayingAt, IsAt
  <1>2. Shares(pay).lp \in Nat /\ Shares(pay).gp \in Nat
    BY <1>1, DistSharesType
  <1>3. tx.local = local /\ tx.i = j /\ tx.written = w /\ tx.local.payments = p
    BY <1>1
  <1>4. j <= Len(p)
    BY <1>3 DEF payNext, InLoop
  <1>5. /\ type \in {"LP", "GP"} /\ type \notin TypesPaid(pay, i)
        /\ p[j].amount = a
        /\ TypesPaid(pay, j) = TypesPaid(pay, i) \cup {type}
        /\ j \in 0..Len(p)
    <2> HIDE DEF pay
    <2> QED BY <1>2, <1>4, NextTypePaid
  <1>6. \/ Reverts
        \/ MayDistribute(w.tokens[k], a, scale) /\ Continues(PaidNext(tx, type, k, a))
    <2>1. LET m == tx.local.payments[tx.i].amount
              s == tx.local.payments[tx.i].type
          IN  Requires(MayDistribute(tx.written.tokens[FundTokenOf(s)], m, scale),
                       PaidNext(tx, s, FundTokenOf(s), m))
      BY DEF payNext, PaidNext
    <2>2. tx.local.payments[tx.i].amount = a /\ tx.local.payments[tx.i].type = type
      BY <1>3, <1>5
    <2> HIDE DEF a, type
    <2> QED BY <2>1, <2>2, <1>3 DEF Requires
  <1>7. CASE Reverts
    BY <1>7 DEF Reverts
  <1>8. ASSUME MayDistribute(w.tokens[k], a, scale), Continues(PaidNext(tx, type, k, a))
        PROVE  PayingAt(tx', n, t, j) /\ UNCHANGED <<vars, listVars, scenario>>
    <2> DEFINE v == PaidOut(w, type, k, a)
               S == TypesPaid(pay, i)
               Booked(u) == [WithReturn(u, type, a) EXCEPT
                                !.tokens[k] = Distributed(@, a, scale),
                                !.cash[k]   = @ + a]
    <2>1. tx' = [tx EXCEPT !.i = @ + 1, !.written = Booked(tx.written)]
      BY <1>8 DEF Continues, PaidNext
    <2>2. v = Booked(w)
      BY DEF PaidOut
    <2>3. PaidAlso(v, pay, n, S \cup {type})
      <3>1. PaidAlso(w, pay, n, S)
        BY <1>1 DEF PaidAlso
      <3>2. MayDistribute(w.tokens[FundTokenOf(type)], ShareOf(pay, type), scale)
            /\ v = PaidOut(w, type, FundTokenOf(type), ShareOf(pay, type))
        BY <1>8
      <3>3. type \in {"LP", "GP"} /\ type \notin S
        BY <1>5
      <3> HIDE DEF pay, w, type, k, a, v, S
      <3> QED BY <3>1, <3>2, <3>3, PaidOneMore, ZenonT(30)
    <2> HIDE DEF pay, local, w, p, type, k, a, v, S, Booked
    <2>4. tx' = [call |-> "distribute", pc |-> "pay", i |-> j + 1, local |-> local,
                 written |-> v]
      BY <1>1, <2>1, <2>2
    <2>5. /\ IsAt(tx', "distribute", "pay", j + 1, tx'.local)
          /\ tx'.local.payments = p /\ tx'.written = v
      BY <1>1, <2>4 DEF IsAt
    <2>6. OutflowRecorded(v, pay, n) /\ PaidTo(v, pay, TypesPaid(pay, j))
      BY <1>5, <2>3 DEF PaidAlso, S
    <2>7. PayingAt(tx', n, t, j)
      BY <1>1, <2>5, <2>6 DEF PayingAt, pay, p
    <2> QED BY <1>8, <2>7 DEF Continues
  <1> QED BY <1>5, <1>6, <1>7, <1>8

LEMMA DistributeContinues ==
    ASSUME TypeOK, DatesInRange, Distributing(tx), compoundNext \/ outflowAdded \/ payNext
    PROVE  (tx' = Idle \/ Distributing(tx')) /\ UNCHANGED <<vars, listVars, scenario>>
  <1>1. PICK n \in DistAmounts : \E t \in Times : DistributingFor(tx, n, t)
    BY DEF Distributing
  <1>2. PICK t \in Times : DistributingFor(tx, n, t)
    BY <1>1
  <1>3. CASE compoundNext
    <2>1. ToDistributeAt(tx, n, t)
      BY <1>2, <1>3, DistributeStages DEF compoundNext
    <2>2. /\ CompoundingAt(tx', "distribute", n, t)
          /\ tx'.i = tx.i /\ tx'.written = tx.written
          /\ UNCHANGED <<vars, listVars, scenario>>
      BY <1>3, <2>1, CompoundContinues DEF ToDistributeAt
    <2>3. ToDistributeAt(tx', n, t)
      BY <2>1, <2>2 DEF ToDistributeAt
    <2> QED BY <2>2, <2>3 DEF Distributing, DistributingFor
  <1>4. CASE outflowAdded
    <2>1. ToDistributeAt(tx, n, t)
      BY <1>2, <1>4, DistributeStages DEF outflowAdded, CompoundingEnds, At
    <2>2. (tx' = Idle \/ PayingAt(tx', n, t, 0)) /\ UNCHANGED <<vars, listVars, scenario>>
      BY <1>4, <2>1, OutflowContinues
    <2>3. ToDistributeAt(tx, n, t)
      BY <2>1
    <2>4. ASSUME PayingAt(tx', n, t, 0) PROVE Distributing(tx')
      <3>1. Shares(PayOf(n, t)).lp \in Nat /\ Shares(PayOf(n, t)).gp \in Nat
        BY <2>4, DistSharesType DEF PayingAt
      <3> DEFINE pay == PayOf(n, t)
      <3>2. Len(Payments(pay)) \in Nat
        <4> HIDE DEF pay
        <4>1. Shares(pay).lp \in Nat /\ Shares(pay).gp \in Nat
          BY <3>1 DEF pay
        <4> QED BY <4>1, PaymentsAre
      <3>3. 0 \in 0..Len(Payments(PayOf(n, t)))
        BY <3>2
      <3> QED BY <2>4, <3>3, Zenon DEF Distributing, DistributingFor
    <2> QED BY <2>2, <2>4
  <1>5. CASE payNext
    <2>1. PICK i \in 0..Len(Payments(PayOf(n, t))) : PayingAt(tx, n, t, i)
      BY <1>2, <1>5, DistributeStages DEF payNext, InLoop, At
    <2> DEFINE j == i + 1
    <2> HIDE DEF j
    <2>2. /\ tx' = Idle \/ (PayingAt(tx', n, t, j) /\ j \in 0..Len(Payments(PayOf(n, t))))
          /\ UNCHANGED <<vars, listVars, scenario>>
      BY <1>5, <2>1, PayContinues DEF j
    <2> QED BY <2>2, Zenon DEF Distributing, DistributingFor
  <1> QED BY <1>3, <1>4, <1>5

LEMMA DistributeReturns ==
    ASSUME TypeOK, Distributing(tx), distributeReturns
    PROVE  /\ (\E n \in DistAmounts, t \in Times : distribute(n, t))
           /\ UNCHANGED <<listVars, scenario>>
           /\ tx' = Idle
  <1>1. PICK n \in DistAmounts : \E t \in Times : DistributingFor(tx, n, t)
    BY DEF Distributing
  <1>2. PICK t \in Times : DistributingFor(tx, n, t)
    BY <1>1
  <1>3. PICK i \in 0..Len(Payments(PayOf(n, t))) : PayingAt(tx, n, t, i)
    BY <1>2, DistributeStages DEF distributeReturns, LoopEnds, At
  <1> DEFINE pay == PayOf(n, t)
             w == tx.written
             p == Payments(pay)
             S == TypesPaid(pay, i)
             lp == Shares(pay).lp
             gp == Shares(pay).gp
  <1>4. /\ tx = [call |-> "distribute", pc |-> "pay", i |-> i + 1, local |-> tx.local,
                 written |-> w]
        /\ tx.local.payments = p
        /\ OutflowRecorded(w, pay, n) /\ PaidTo(w, pay, S)
        /\ pay.completes /\ distributionCount < MaxDistributions
    BY <1>3 DEF PayingAt, IsAt
  <1>5. lp \in Nat /\ gp \in Nat
    BY <1>4, DistSharesType
  <1>6. Returns(w)
    BY DEF distributeReturns
  <1>7. i = Len(p)
    <2>1. tx.i = i + 1
      <3> DEFINE local == tx.local
      <3> HIDE DEF local, w
      <3>1. tx = [call |-> "distribute", pc |-> "pay", i |-> i + 1, local |-> local,
                  written |-> w]
        BY <1>4 DEF local
      <3> QED BY <3>1
    <2>2. tx.i > Len(p)
      BY <1>4 DEF distributeReturns, LoopEnds
    <2>3. Len(p) \in Nat
      <3> HIDE DEF pay
      <3> QED BY <1>5, PaymentsAre
    <2> HIDE DEF p
    <2>4. i \in 0..Len(p)
      BY DEF p
    <2> QED BY <2>1, <2>2, <2>3, <2>4
  <1>8. ("LP" \in S <=> lp > 0) /\ ("GP" \in S <=> gp > 0)
    <2> HIDE DEF pay
    <2>1. /\ "LP" \in TypesPaid(pay, Len(p)) <=> lp > 0
          /\ "GP" \in TypesPaid(pay, Len(p)) <=> gp > 0
      BY <1>5, PaymentsAre
    <2> QED BY <1>7, <2>1
  <1> HIDE DEF pay, w, p, S
  <1>9. WritesOnly(w, DistWrites)
    BY <1>4 DEF OutflowRecorded
  <1>10. /\ UNCHANGED <<commitVars, callVars, redemptionVars, terms, envVars>>
         /\ UNCHANGED <<listVars, scenario>> /\ tx' = Idle
         /\ interestEntries' = w.interestEntries /\ tokens' = w.tokens /\ cash' = w.cash
         /\ distributionCount' = w.distributionCount /\ totalDistributed' = w.totalDistributed
         /\ lpReturn' = w.lpReturn /\ gpReturn' = w.gpReturn /\ gpCatchup' = w.gpCatchup
    BY <1>6, <1>9, WritesRest
       DEF Returns, DistWrites, commitVars, callVars, redemptionVars, envVars
  <1>11. /\ interestEntries' = interestEntries \o pay.pushed
         /\ distributionCount' = distributionCount + 1
         /\ totalDistributed' = totalDistributed + n
         /\ gpCatchup' = Shares(pay).catchup
    BY <1>4, <1>10 DEF OutflowRecorded
  <1>12. tokens \in [TokenNames -> Ledger] /\ cash \in [TokenNames -> Nat]
         /\ lpReturn \in Nat /\ gpReturn \in Nat
    BY TypeParts DEF TokensType, CashType, DistType
  <1>13. ShareOf(pay, "LP") = lp /\ ShareOf(pay, "GP") = gp
         /\ FundTokenOf("LP") = "lpFund" /\ FundTokenOf("GP") = "gpFund"
    BY DEF ShareOf, FundTokenOf
  <1>14. MayProcess("lpFund", lp) /\ MayProcess("gpFund", gp)
    <2>1. \A type \in S : MayDistribute(tokens[FundTokenOf(type)], ShareOf(pay, type), scale)
      BY <1>4 DEF PaidTo
    <2>2. ASSUME lp > 0 PROVE MayDistribute(tokens["lpFund"], lp, scale)
      BY <2>1, <2>2, <1>8, <1>13
    <2>3. ASSUME gp > 0 PROVE MayDistribute(tokens["gpFund"], gp, scale)
      BY <2>1, <2>3, <1>8, <1>13
    <2> QED BY <2>2, <2>3 DEF MayProcess
  <1>15. /\ w.lpReturn = ReturnPaid("LP", lpReturn, S, pay)
         /\ w.gpReturn = ReturnPaid("GP", gpReturn, S, pay)
         /\ w.tokens = TokensPaid(S, pay) /\ w.cash = CashPaid(S, pay)
    BY <1>4 DEF PaidTo
  <1> HIDE DEF lp, gp
  <1>16. lpReturn' = lpReturn + lp /\ gpReturn' = gpReturn + gp
    <2>1. /\ lpReturn' = IF lp > 0 THEN lpReturn + lp ELSE lpReturn
          /\ gpReturn' = IF gp > 0 THEN gpReturn + gp ELSE gpReturn
      BY <1>8, <1>10, <1>13, <1>15 DEF ReturnPaid
    <2> QED BY <2>1, <1>5, <1>12
  <1>17. tokens' = [tokens EXCEPT !["lpFund"] = Processed(@, lp), !["gpFund"] = Processed(@, gp)]
    <2> DEFINE L(l) == IF lp > 0 THEN Distributed(l, lp, scale) ELSE l
               G(l) == IF gp > 0 THEN Distributed(l, gp, scale) ELSE l
    <2>1. \A l : Processed(l, lp) = L(l) /\ Processed(l, gp) = G(l)
      BY DEF Processed
    <2>2. tokens' = [k \in TokenNames |-> IF k = "lpFund" THEN L(tokens[k])
                                          ELSE IF k = "gpFund" THEN G(tokens[k])
                                          ELSE tokens[k]]
      BY <1>8, <1>10, <1>15 DEF TokensPaid, lp, gp
    <2> HIDE DEF L, G
    <2>3. tokens' = [tokens EXCEPT !["lpFund"] = L(@), !["gpFund"] = G(@)]
      BY <1>12, <2>2 DEF TokenNames
    <2> QED BY <2>1, <2>3
  <1>18. cash' = [cash EXCEPT !["lpFund"] = @ + lp, !["gpFund"] = @ + gp]
    <2>1. cash' = [k \in TokenNames |-> IF k = "lpFund" /\ lp > 0 THEN cash[k] + lp
                                        ELSE IF k = "gpFund" /\ gp > 0 THEN cash[k] + gp
                                        ELSE cash[k]]
      BY <1>8, <1>10, <1>15 DEF CashPaid, lp, gp
    <2>2. cash["lpFund"] \in Nat /\ cash["gpFund"] \in Nat
      BY <1>12 DEF TokenNames
    <2>3. /\ ~ (lp > 0) => cash["lpFund"] + lp = cash["lpFund"]
          /\ ~ (gp > 0) => cash["gpFund"] + gp = cash["gpFund"]
      BY <1>5, <2>2
    <2>4. cash' = [k \in TokenNames |-> IF k = "lpFund" THEN cash[k] + lp
                                        ELSE IF k = "gpFund" THEN cash[k] + gp
                                        ELSE cash[k]]
      BY <2>1, <2>3
    <2> QED BY <1>12, <2>4 DEF TokenNames
  <1>19. DistributeShares(Shares(pay))
    BY <1>11, <1>14, <1>16, <1>17, <1>18, Zenon DEF DistributeShares, lp, gp
  <1>20. distribute(n, t)
    BY <1>4, <1>10, <1>11, <1>19, Zenon DEF distribute, pay, PayOf
  <1> QED BY <1>10, <1>20

-----------------------------------------------------------------------------
(* Where a call is, stated about the storage, still holds of a storage     *)
(* that has not changed.                                                   *)

Unchanged == UNCHANGED <<vars, listVars, scenario>>

LEMMA VariablesStay ==
    ASSUME Unchanged
    PROVE  /\ UNCHANGED <<lpCommitments, gpCommitments, lpAccounts, gpAccounts,
                          totalInPendingLpCommits, totalCommittedGp, totalCommittedLp>>
           /\ UNCHANGED <<capitalCalls, accountCapitalCalls, totalCalled>>
           /\ UNCHANGED <<redemptions, totalRedemptions, interestEntries>>
           /\ UNCHANGED <<tokens, cash, terms, compliant, now>>
           /\ UNCHANGED <<distributionCount, totalDistributed, lpReturn, gpReturn, gpCatchup>>
           /\ UNCHANGED <<gpAccountList, lpAccountList>>
  BY DEF Unchanged, vars, commitVars, callVars, redemptionVars, distVars, envVars, listVars

LEMMA ApprovingStays ==
    ASSUME Unchanged
    PROVE  \A x : Approving(x)' <=> Approving(x)
  BY VariablesStay
     DEF Approving, ApprovingAt, IsAt, WritesOnly, Storage, ApprovedFor, Approved,
         CommitTokens, MayMint

LEMMA SwitchingStays ==
    ASSUME Unchanged
    PROVE  \A x : Switching(x)' <=> Switching(x)
  BY VariablesStay DEF Switching, SwitchingAt, IsAt, WritesOnly, Storage, SwitchedTo

LEMMA MarkingStays ==
    ASSUME Unchanged
    PROVE  \A x : Marking(x)' <=> Marking(x)
  BY VariablesStay DEF Marking, MarkingAt, IsAt, WritesOnly, Storage, MarkedTo

LEMMA RedeemingStays ==
    ASSUME Unchanged
    PROVE  \A x : Redeeming(x)' <=> Redeeming(x)
  BY VariablesStay DEF Redeeming, RequestedAt, RedeemedAt, IsAt, WritesOnly, Storage

LEMMA SettlingStays ==
    ASSUME Unchanged
    PROVE  \A x : Settling(x)' <=> Settling(x)
  BY VariablesStay
     DEF Settling, ToSettleAt, SettlingAt, IsAt, WritesOnly, Storage, BurnedOf,
         SettledLocal, CalledType, CalledTokens

LEMMA CompoundingStays ==
    ASSUME Unchanged
    PROVE  /\ UNCHANGED LastInterestEntry
           /\ \A time : Compounded(time)' = Compounded(time)
           /\ \A n, time : CashFlow(n, time)' = CashFlow(n, time)
           /\ \A x, call, n, time :
                 CompoundingAt(x, call, n, time)' <=> CompoundingAt(x, call, n, time)
  <1>1. UNCHANGED <<LastInterestEntry, terms, Annually>>
    BY VariablesStay DEF LastInterestEntry, Annually
  <1>2. \A time : Compounded(time)' = Compounded(time)
    BY <1>1 DEF Compounded, ComputeCompounding
  <1>3. /\ UNCHANGED <<FirstMark, QuarterEnd, QuarterRun>>
        /\ \A time : LatestMark(time)' = LatestMark(time)
        /\ \A time : YearRuns(time)' = YearRuns(time)
    BY <1>1 DEF FirstMark, QuarterEnd, LatestMark, YearRuns, QuarterRun
  <1>4. \A n, time : CashFlow(n, time)' = CashFlow(n, time)
    BY <1>1 DEF CashFlow
  <1>5. \A n, time, mark, run : CashFlowAt(n, time, mark, run)' = CashFlowAt(n, time, mark, run)
    BY <1>3 DEF CashFlowAt
  <1>6. \A mark, run, time : Progress(mark, run, time)' <=> Progress(mark, run, time)
    BY <1>1, <1>3 DEF Progress, BeforeFirst, AfterYears, AfterQuarter
  <1>7. \A x, call, n, time :
           CompoundingAt(x, call, n, time)' <=> CompoundingAt(x, call, n, time)
    BY <1>5, <1>6 DEF CompoundingAt, IsAt
  <1> QED BY <1>1, <1>2, <1>4, <1>7

LEMMA CallingStays ==
    ASSUME Unchanged
    PROVE  \A x : Calling(x)' <=> Calling(x)
  <1> USE VariablesStay
  <1>1. /\ \A n, a : GpShare(n, a)' = GpShare(n, a) /\ LpShare(n, a)' = LpShare(n, a)
        /\ \A n : MayCall(n)' <=> MayCall(n)
    BY DEF GpShare, LpShare, CallShare, totalCommitted, MayCall, WithinCommitments
  <1>2. \A n, gps, lps : CallRecords(n, gps, lps)' = CallRecords(n, gps, lps)
    BY <1>1 DEF CallRecords, AccountCalls, NextCallId
  <1>3. \A w, n, gps, lps : Recorded(w, n, gps, lps)' <=> Recorded(w, n, gps, lps)
    BY <1>1, <1>2 DEF Recorded, WritesOnly, Storage
  <1>4. \A x, n : ToCallAt(x, n)' <=> ToCallAt(x, n)
    BY CompoundingStays DEF ToCallAt, IsAt, Storage
  <1>5. \A x, n, i : (GpsAt(x, n, i)' <=> GpsAt(x, n, i)) /\ (LpsAt(x, n, i)' <=> LpsAt(x, n, i))
    BY <1>3, CompoundingStays DEF GpsAt, LpsAt, IsAt
  <1>6. \A x, n : CalledAt(x, n)' <=> CalledAt(x, n)
    BY <1>3, CompoundingStays DEF CalledAt
  <1> QED BY <1>4, <1>5, <1>6 DEF Calling, CallingFor

LEMMA DistributingStays ==
    ASSUME Unchanged
    PROVE  \A x : Distributing(x)' <=> Distributing(x)
  <1> USE VariablesStay
  <1>1. \A n, t : PayOf(n, t)' = PayOf(n, t)
    BY CompoundingStays DEF PayOf, Outflow, Compounded
  <1>2. \A pay : Shares(pay)' = Shares(pay) /\ Payments(pay)' = Payments(pay)
    BY DEF Shares, CatchupOwed, Payments
  <1>3. \A w, pay, n : OutflowRecorded(w, pay, n)' <=> OutflowRecorded(w, pay, n)
    BY <1>2 DEF OutflowRecorded, WritesOnly, Storage
  <1>4. \A pay, type : ShareOf(pay, type)' = ShareOf(pay, type)
    BY <1>2 DEF ShareOf
  <1>5. \A w, pay, S : PaidTo(w, pay, S)' <=> PaidTo(w, pay, S)
    BY <1>2, <1>4 DEF PaidTo, ReturnPaid, TokensPaid, CashPaid
  <1>6. \A pay, i : TypesPaid(pay, i)' = TypesPaid(pay, i)
    BY <1>2 DEF TypesPaid
  <1>7. \A x, n, t : ToDistributeAt(x, n, t)' <=> ToDistributeAt(x, n, t)
    BY CompoundingStays DEF ToDistributeAt, Storage
  <1>8. \A x, n, t, i : PayingAt(x, n, t, i)' <=> PayingAt(x, n, t, i)
    BY <1>1, <1>2, <1>3, <1>5, <1>6 DEF PayingAt, IsAt
  <1> QED BY <1>1, <1>2, <1>7, <1>8 DEF Distributing, DistributingFor

-----------------------------------------------------------------------------
(* The inductive invariant: the lists are the sets of Fund, and a call     *)
(* that is running is at one of the stages above.                          *)

ListsType ==
    /\ gpAccountList \in Seq(Accounts)
    /\ lpAccountList \in Seq(Accounts) /\ IsInjective(lpAccountList)

\* An account is listed from its first commitment on, and only LPs are.
ListedOnce ==
    /\ \A a \in Accounts : lpCommitments[a].status = "NONE" <=> a \notin lpAccounts
    /\ lpAccounts \subseteq Lps

Running(x) ==
    \/ Approving(x) \/ Switching(x) \/ Marking(x) \/ Redeeming(x)
    \/ Settling(x) \/ Calling(x) \/ Distributing(x)

Resting == TypeOK /\ ListsType /\ ListsAgree /\ ListedOnce /\ DatesInRange

ExecInv == Resting /\ scenario \in Scenarios /\ (tx = Idle \/ Running(tx))

\* A stage names its call.
LEMMA StageCall ==
    ASSUME NEW x
    PROVE  /\ x = Idle => x.call = "none"
           /\ Approving(x) => x.call = "approveCommits"
           /\ Switching(x) => x.call \in {"pauseTokens", "unpauseTokens"}
           /\ Marking(x) => x.call = "markFeesAsPaidUpToID"
           /\ Redeeming(x) => x.call = "approveRedemption"
           /\ Settling(x) => x.call = "capitalCallDone"
           /\ Calling(x) => x.call = "capitalCall"
           /\ Distributing(x) => x.call = "distribute"
  <1>1. x = Idle => x.call = "none"
    BY DEF Idle
  <1>2. Approving(x) => x.call = "approveCommits"
    BY DEF Approving, ApprovingAt, IsAt
  <1>3. Switching(x) => x.call \in {"pauseTokens", "unpauseTokens"}
    <2>1. ASSUME NEW call, NEW p, NEW n, SwitchingAt(x, call, p, n) PROVE x.call = call
      BY <2>1 DEF SwitchingAt, IsAt
    <2> QED BY <2>1, Zenon DEF Switching
  <1>4. Marking(x) => x.call = "markFeesAsPaidUpToID"
    BY DEF Marking, MarkingAt, IsAt
  <1>5. Redeeming(x) => x.call = "approveRedemption"
    BY DEF Redeeming, RequestedAt, RedeemedAt, IsAt
  <1>6. Settling(x) => x.call = "capitalCallDone"
    BY DEF Settling, ToSettleAt, SettlingAt, IsAt
  <1>7. Calling(x) => x.call = "capitalCall"
    BY CallStages DEF Calling
  <1>8. Distributing(x) => x.call = "distribute"
    BY DistributeStages DEF Distributing
  <1> QED BY <1>1, <1>2, <1>3, <1>4, <1>5, <1>6, <1>7, <1>8

\* The call that is running tells the stage it is at.
LEMMA StageOf ==
    ASSUME NEW x, x = Idle \/ Running(x)
    PROVE  /\ x.call = "approveCommits" => Approving(x)
           /\ x.call \in {"pauseTokens", "unpauseTokens"} => Switching(x)
           /\ x.call = "markFeesAsPaidUpToID" => Marking(x)
           /\ x.call = "approveRedemption" => Redeeming(x)
           /\ x.call = "capitalCallDone" => Settling(x)
           /\ x.call = "capitalCall" => Calling(x)
           /\ x.call = "distribute" => Distributing(x)
  <1> QED BY StageCall DEF Running

LEMMA RunningStays ==
    ASSUME Unchanged
    PROVE  Running(tx)' <=> Running(tx')
  <1>1. /\ Approving(tx)' <=> Approving(tx')
        /\ Switching(tx)' <=> Switching(tx')
        /\ Marking(tx)' <=> Marking(tx')
        /\ Redeeming(tx)' <=> Redeeming(tx')
        /\ Settling(tx)' <=> Settling(tx')
        /\ Calling(tx)' <=> Calling(tx')
        /\ Distributing(tx)' <=> Distributing(tx')
    BY ApprovingStays, SwitchingStays, MarkingStays, RedeemingStays, SettlingStays,
       CallingStays, DistributingStays
  <1> QED BY <1>1 DEF Running

-----------------------------------------------------------------------------
(* What a step does: it moves a running call, or a commitment is made, or  *)
(* a whole call of Fund is done.                                           *)

Moves == Unchanged /\ (tx' = Idle \/ Running(tx'))

LpCommits ==
    /\ tx' = tx /\ tx = Idle /\ UNCHANGED scenario
    /\ \E a \in Lps, n \in CommitAmounts : (commit(a, n) \/ addLpCommit(a, n)) /\ PushesLp(a)

GpCommits ==
    /\ tx' = tx /\ tx = Idle /\ UNCHANGED scenario
    /\ \E a \in Gps, n \in GpCommitAmounts : issueGpCommit(a, n) /\ PushesGp(a)

\* The calls that commit nothing new, single or at their end.
OtherCalls ==
    \/ \E a \in Lps : cancelCommit(a)
    \/ \E list \in ApprovalLists : approveCommits(Range(list))
    \/ CapitalNext
    \/ RedemptionNext
    \/ \E n \in DOMAIN TermChanges : \E v \in TermChanges[n] : setTerm(n, v)
    \/ pauseTokens \/ unpauseTokens
    \/ \E k \in TokenNames, a \in Holders : payFees(k, a)
    \/ \E k \in TokenNames, a \in Holders : claimAllDistributions(k, a)
    \/ \E w \in WaiverLists : markFeesAsPaidUpToID(w.token, w.upToId, Range(w.accounts))
    \/ \E k \in TokenNames, a \in Holders, b \in Accounts, n \in TransferAmounts :
          transfer(k, a, b, n)
    \/ EnvironmentNext

Completes == tx' = Idle /\ UNCHANGED <<listVars, scenario>> /\ OtherCalls

LEMMA CommitmentStepIs ==
    ASSUME ExecInv, CommitmentStep
    PROVE  LpCommits \/ GpCommits
  <1>1. scenario.lps \subseteq Lps
    BY ExecutionAssumption DEF ExecInv
  <1>2. CASE \E a \in scenario.lps, n \in CommitAmounts : commit(a, n) /\ PushesLp(a)
    BY <1>1, <1>2 DEF CommitmentStep, LpCommits, PushesLp
  <1>3. CASE \E a \in scenario.lps, n \in CommitAmounts : addLpCommit(a, n) /\ PushesLp(a)
    BY <1>1, <1>3 DEF CommitmentStep, LpCommits, PushesLp
  <1>4. CASE \E a \in Gps, n \in GpCommitAmounts : issueGpCommit(a, n) /\ PushesGp(a)
    BY <1>4 DEF CommitmentStep, GpCommits, PushesGp
  <1> QED BY <1>2, <1>3, <1>4 DEF CommitmentStep

LEMMA SingleStepIs ==
    ASSUME SingleStep
    PROVE  Completes
  <1>1. tx' = Idle /\ UNCHANGED <<listVars, scenario>>
    BY DEF SingleStep
  <1>2. CASE \E a \in Lps : cancelCommit(a)
    BY <1>1, <1>2 DEF Completes, OtherCalls
  <1>3. CASE chargeManagementFee
    BY <1>1, <1>3 DEF Completes, OtherCalls, CapitalNext
  <1>4. CASE RedemptionStep
    BY <1>1, <1>4 DEF Completes, OtherCalls, RedemptionStep, RedemptionNext
  <1>5. CASE \E n \in DOMAIN TermChanges : \E v \in TermChanges[n] : setTerm(n, v)
    BY <1>1, <1>5 DEF Completes, OtherCalls
  <1>6. CASE \E k \in TokenNames, a \in Holders : payFees(k, a)
    BY <1>1, <1>6 DEF Completes, OtherCalls
  <1>7. CASE \E k \in TokenNames, a \in Holders : claimAllDistributions(k, a)
    BY <1>1, <1>7 DEF Completes, OtherCalls
  <1>8. CASE \E k \in TokenNames, a \in Holders, b \in Accounts, n \in TransferAmounts :
                transfer(k, a, b, n)
    BY <1>1, <1>8 DEF Completes, OtherCalls
  <1>9. CASE EnvironmentNext
    BY <1>1, <1>9 DEF Completes, OtherCalls
  <1> QED BY <1>2, <1>3, <1>4, <1>5, <1>6, <1>7, <1>8, <1>9 DEF SingleStep

LEMMA StartIs ==
    ASSUME ExecInv, Start
    PROVE  Moves
  <1> USE DEF Moves, Unchanged, Running
  <1>1. TypeOK
    BY DEF ExecInv, Resting
  <1>2. CASE \E list \in ApprovalLists : startApproveCommits(list)
    BY <1>1, <1>2, ApproveStarts
  <1>3. CASE \E n \in CallAmounts : startCapitalCall(n)
    BY <1>3, CallStarts
  <1>4. CASE \E c \in CallIds, a \in Accounts, p \in CallPrices : startCapitalCallDone(c, a, p)
    BY <1>4, SettleStarts
  <1>5. CASE \E n \in DistAmounts, t \in Times : startDistribute(n, t)
    BY <1>5, DistributeStarts
  <1>6. CASE \E a \in Redeemers : startApproveRedemption(a)
    BY <1>6, RedemptionStarts
  <1>7. CASE startPauseTokens \/ startUnpauseTokens
    BY <1>1, <1>7, SwitchStarts
  <1>8. CASE \E w \in WaiverLists : startMarkFeesAsPaidUpToID(w)
    BY <1>1, <1>8, MarkStarts
  <1> QED BY <1>2, <1>3, <1>4, <1>5, <1>6, <1>7, <1>8 DEF Start

LEMMA ExecutesIs ==
    ASSUME ExecInv, Executes
    PROVE  Moves \/ Completes
  <1> USE DEF Moves, Unchanged, Running, Completes
  <1>1. /\ TypeOK /\ DatesInRange /\ ListsAgree
        /\ gpAccountList \in Seq(Accounts) /\ lpAccountList \in Seq(Accounts)
    BY DEF ExecInv, Resting, ListsType
  <1>2. tx = Idle \/ Running(tx)
    BY DEF ExecInv
  <1>3. /\ tx.call = "approveCommits" => Approving(tx)
        /\ tx.call \in {"pauseTokens", "unpauseTokens"} => Switching(tx)
        /\ tx.call = "markFeesAsPaidUpToID" => Marking(tx)
        /\ tx.call = "approveRedemption" => Redeeming(tx)
        /\ tx.call = "capitalCallDone" => Settling(tx)
        /\ tx.call = "capitalCall" => Calling(tx)
        /\ tx.call = "distribute" => Distributing(tx)
    BY <1>2, StageOf
  <1> HIDE DEF Running
  <1>4. CASE approveNext
    <2>1. Approving(tx)
      BY <1>3, <1>4, Zenon DEF approveNext, InLoop, At
    <2> QED BY <1>1, <1>4, <2>1, ApproveContinues DEF Running
  <1>5. CASE approveReturns
    <2>1. Approving(tx)
      BY <1>3, <1>5, Zenon DEF approveReturns, LoopEnds, At
    <2> QED BY <1>1, <1>5, <2>1, ApproveReturns DEF OtherCalls
  <1>6. CASE callAdded \/ gpShareNext \/ gpSharesEnd \/ lpShareNext \/ lpSharesEnd
    <2>1. Calling(tx)
      BY <1>3, <1>6, Zenon
         DEF callAdded, gpShareNext, gpSharesEnd, lpShareNext, lpSharesEnd, InLoop, LoopEnds, At
    <2> QED BY <1>1, <1>6, <2>1, CallContinues DEF Running
  <1>7. CASE compoundNext
    <2>1. tx.call \in {"capitalCall", "distribute"}
      BY <1>7, Zenon DEF compoundNext
    <2>2. CASE Calling(tx)
      BY <1>1, <1>7, <2>2, CallContinues DEF Running
    <2>3. CASE Distributing(tx)
      BY <1>1, <1>7, <2>3, DistributeContinues DEF Running
    <2> QED BY <1>3, <2>1, <2>2, <2>3
  <1>8. CASE inflowAdded
    <2>1. Calling(tx)
      BY <1>3, <1>8, Zenon DEF inflowAdded, CompoundingEnds, At
    <2> QED BY <1>1, <1>8, <2>1, CallReturns DEF OtherCalls, CapitalNext
  <1>9. CASE commitTokensBurned
    <2>1. Settling(tx)
      BY <1>3, <1>9, Zenon DEF commitTokensBurned, At
    <2> QED BY <1>9, <2>1, SettleContinues DEF Running
  <1>10. CASE fundTokensMinted
    <2>1. Settling(tx)
      BY <1>3, <1>10, Zenon DEF fundTokensMinted, At
    <2> QED BY <1>1, <1>10, <2>1, SettleReturns DEF OtherCalls, CapitalNext
  <1>11. CASE redemptionApproved
    <2>1. Redeeming(tx)
      BY <1>3, <1>11, Zenon DEF redemptionApproved, At
    <2> QED BY <1>11, <2>1, RedemptionContinues DEF Running
  <1>12. CASE redeemedBurned
    <2>1. Redeeming(tx)
      BY <1>3, <1>12, Zenon DEF redeemedBurned, At
    <2> QED BY <1>1, <1>12, <2>1, RedemptionReturns DEF OtherCalls, RedemptionNext
  <1>13. CASE outflowAdded \/ payNext
    <2>1. Distributing(tx)
      BY <1>3, <1>13, Zenon DEF outflowAdded, payNext, CompoundingEnds, InLoop, At
    <2> QED BY <1>1, <1>13, <2>1, DistributeContinues DEF Running
  <1>14. CASE distributeReturns
    <2>1. Distributing(tx)
      BY <1>3, <1>14, Zenon DEF distributeReturns, LoopEnds, At
    <2> QED BY <1>1, <1>14, <2>1, DistributeReturns DEF OtherCalls, CapitalNext
  <1>15. CASE switchNext
    <2>1. Switching(tx)
      BY <1>3, <1>15, Zenon DEF switchNext
    <2> QED BY <1>1, <1>15, <2>1, SwitchContinues DEF Running
  <1>16. CASE switchReturns
    <2>1. Switching(tx)
      BY <1>3, <1>16, Zenon DEF switchReturns
    <2> QED BY <1>1, <1>16, <2>1, SwitchReturns DEF OtherCalls
  <1>17. CASE waiveNext
    <2>1. Marking(tx)
      BY <1>3, <1>17, Zenon DEF waiveNext, InLoop, At
    <2> QED BY <1>1, <1>17, <2>1, MarkContinues DEF Running
  <1>18. CASE waiverReturns
    <2>1. Marking(tx)
      BY <1>3, <1>18, Zenon DEF waiverReturns, LoopEnds, At
    <2> QED BY <1>1, <1>18, <2>1, MarkReturns DEF OtherCalls
  <1> QED
    BY <1>4, <1>5, <1>6, <1>7, <1>8, <1>9, <1>10, <1>11, <1>12, <1>13, <1>14, <1>15, <1>16,
       <1>17, <1>18 DEF Executes

-----------------------------------------------------------------------------
(* A call that completes keeps the invariant.                              *)

LEMMA LastPushed ==
    ASSUME InterestTypeOK, NEW pushed \in Seq(InterestEntry),
           interestEntries' = interestEntries \o pushed
    PROVE  /\ pushed = << >> => LastInterestEntry' = LastInterestEntry
           /\ pushed # << >> => LastInterestEntry' = pushed[Len(pushed)]
  <1> DEFINE s == interestEntries
             t == s \o pushed
  <1>1. s \in Seq(InterestEntry) /\ interestEntries' = t
    BY DEF InterestTypeOK
  <1>2. CASE pushed = << >>
    <2>1. t = s
      BY <1>1, <1>2
    <2> QED BY <1>1, <1>2, <2>1 DEF LastInterestEntry
  <1>3. CASE pushed # << >>
    <2>1. Len(t) = Len(s) + Len(pushed) /\ Len(pushed) > 0 /\ Len(s) \in Nat /\ Len(pushed) \in Nat
      BY <1>1, <1>3
    <2>2. t # << >> /\ t[Len(t)] = pushed[Len(pushed)]
      BY <1>1, <2>1
    <2> QED BY <1>1, <1>3, <2>2 DEF LastInterestEntry
  <1> QED BY <1>2, <1>3

\* The last entry pushed is a cash flow's, of a block or an administrator's date.
LEMMA InflowDated ==
    ASSUME TypeOK, NEW n \in Nat, capitalCall(n)
    PROVE  LastInterestEntry'.timestamp \in Times
  <1> DEFINE run == ComputeCompounding(terms["compoundingInterval"], terms["prefRate"], now)
             tcf == Accrued(run.entry, now) + n
             e == Entry(now, run.entry.capital + n, DailyInterest(tcf, terms["prefRate"]), tcf)
             p == Append(run.pushed, e)
  <1>1. /\ Computed(run, now)
        /\ interestEntries' = interestEntries \o p
    BY Zenon DEF capitalCall, Inflow, InflowAfter
  <1>2. TypeOK' /\ InterestTypeOK /\ EnvType
    BY CapitalCallType, TypeParts
  <1>3. run.pushed \in Seq(InterestEntry)
    BY <1>1 DEF Computed
  <1>4. p \in Seq(InterestEntry)
    <2>1. InflowAfter(run, n, terms["prefRate"], now).completes
          /\ InflowAfter(run, n, terms["prefRate"], now).pushed = p
      BY <1>1, Zenon DEF InflowAfter
    <2>2. terms["prefRate"] \in Nat /\ now \in Nat
      BY TypeParts, FundAssumption DEF TermsType, TermNames, EnvType
    <2> HIDE DEF run, p
    <2> QED BY <2>1, <2>2, InflowType
  <1>5. e.timestamp = now
    BY DEF Entry
  <1> HIDE DEF run, e
  <1>6. p # << >> /\ p[Len(p)] = e
    BY <1>3
  <1> HIDE DEF p
  <1>7. LastInterestEntry' = e
    BY <1>1, <1>2, <1>4, <1>6, LastPushed
  <1> QED BY <1>2, <1>5, <1>7 DEF EnvType

\* Without annual compounding, what is left of a distribution that finds
\* nothing outstanding is dated on the day of the last entry.
LEMMA QuarterlyPushes ==
    ASSUME TypeOK, NEW time \in Nat, ~ Annually,
           NEW run, run = ComputeCompounding(terms["compoundingInterval"], terms["prefRate"], time)
    PROVE  \/ run.pushed = << >>
           \/ /\ run.pushed # << >>
              /\ Days(run.pushed[Len(run.pushed)].timestamp) = Days(LastInterestEntry.timestamp)
  <1> DEFINE last == LastInterestEntry
             day == Days(last.timestamp) * DaySeconds
             days == Days(NextQuarter(last.timestamp)) - Days(last.timestamp)
             next == CompoundedTo(Started(last), days, terms["prefRate"], day, day)
  <1>1. run = Started(last) \/ run = next
    BY DEF ComputeCompounding, CompoundQuarterly, Annually
  <1>2. CASE run = Started(last)
    BY <1>2 DEF Started
  <1>3. CASE run = next
    <2>1. \E c, d, tcf : next.pushed = << Entry(day, c, d, tcf) >>
      BY DEF CompoundedTo, Started
    <2>2. \A c, d, tcf : Entry(day, c, d, tcf).timestamp = day
      BY DEF Entry
    <2>3. Days(day) = Days(last.timestamp)
      <3>1. last.timestamp \in Nat
        BY LastEntryIs DEF InterestEntry
      <3> HIDE DEF last
      <3> QED BY <3>1 DEF Days, DaySeconds
    <2>4. PICK c, d, tcf : next.pushed = << Entry(day, c, d, tcf) >>
      BY <2>1
    <2> DEFINE e == Entry(day, c, d, tcf)
    <2>5. run.pushed = << e >>
      BY <1>3, <2>4
    <2>6. Days(e.timestamp) = Days(LastInterestEntry.timestamp)
      BY <2>2, <2>3
    <2> HIDE DEF e, next, day
    <2>7. << e >> # << >> /\ Len(<< e >>) = 1 /\ << e >>[1] = e
      OBVIOUS
    <2> QED BY <2>5, <2>6, <2>7
  <1> QED BY <1>1, <1>2, <1>3

LEMMA OutflowDated ==
    ASSUME TypeOK, NEW n \in Nat, NEW time \in Times, distribute(n, time), ~ Annually
    PROVE  \/ LastInterestEntry'.timestamp \in Times
           \/ Days(LastInterestEntry'.timestamp) = Days(LastInterestEntry.timestamp)
  <1> DEFINE run == ComputeCompounding(terms["compoundingInterval"], terms["prefRate"], time)
             pay == OutflowAfter(run, n, terms["prefRate"], time)
             p == Payout(n, run.entry.capital, Accrued(run.entry, time))
             e == Entry(time, p.capital, DailyInterest(p.totalCashFlow, terms["prefRate"]),
                        p.totalCashFlow)
  <1>1. pay.completes /\ interestEntries' = interestEntries \o pay.pushed
    BY Zenon DEF distribute, Outflow
  <1>2. InterestTypeOK /\ terms["prefRate"] \in Nat /\ time \in Nat
    BY TypeParts, FundAssumption DEF TermsType, TermNames
  <1>3. pay.pushed \in Seq(InterestEntry)
    BY <1>1, <1>2, OutflowType
  <1>4. CASE run.entry.timestamp > 0 /\ run.entry.totalCashFlow > 0
    <2>1. pay = OutflowPaid(run, p, terms["prefRate"], time)
      BY <1>4 DEF OutflowAfter
    <2>2. pay.pushed = Append(run.pushed, e) /\ Computed(run, time)
      <3> HIDE DEF run, pay, p
      <3>1. OutflowPaid(run, p, terms["prefRate"], time).pushed = Append(run.pushed, e)
        BY DEF OutflowPaid
      <3>2. OutflowPaid(run, p, terms["prefRate"], time).completes => Computed(run, time)
        BY DEF OutflowPaid
      <3> QED BY <1>1, <2>1, <3>1, <3>2
    <2>3. run.pushed \in Seq(InterestEntry)
      BY <2>2 DEF Computed
    <2>4. e.timestamp = time
      BY DEF Entry
    <2> DEFINE q == pay.pushed
    <2>5. q \in Seq(InterestEntry) /\ interestEntries' = interestEntries \o q
          /\ q = Append(run.pushed, e)
      BY <1>1, <1>3, <2>2
    <2> HIDE DEF run, pay, p, e, q
    <2>6. q # << >> /\ q[Len(q)] = e
      BY <2>3, <2>5
    <2>7. LastInterestEntry' = e
      BY <1>2, <2>5, <2>6, LastPushed
    <2> QED BY <2>4, <2>7
  <1>5. CASE ~ (run.entry.timestamp > 0 /\ run.entry.totalCashFlow > 0)
    <2>1. pay.pushed = run.pushed
      BY <1>5 DEF OutflowAfter, OutflowUntouched
    <2> DEFINE q == run.pushed
    <2>2. q \in Seq(InterestEntry) /\ interestEntries' = interestEntries \o q
      BY <1>1, <1>3, <2>1
    <2>3. q = << >> \/ (q # << >> /\ Days(q[Len(q)].timestamp) = Days(LastInterestEntry.timestamp))
      BY <1>2, QuarterlyPushes
    <2> HIDE DEF run, pay, p, e, q
    <2> QED BY <1>2, <2>2, <2>3, LastPushed
  <1> QED BY <1>4, <1>5

\* Only an inflow or an outflow pushes entries, and no setter changes the way
\* the fund compounds.
LEMMA DatesSame ==
    ASSUME DatesInRange, UNCHANGED interestEntries,
           terms'["compoundingInterval"] = terms["compoundingInterval"]
    PROVE  DatesInRange'
  BY DEF DatesInRange, LastInterestEntry, Annually, Days

LEMMA DatesKept ==
    ASSUME TypeOK, DatesInRange, OtherCalls
    PROVE  DatesInRange'
  <1> USE FundAssumption, ExecutionAssumption
  <1>1. ASSUME NEW n \in CallAmounts, capitalCall(n) PROVE DatesInRange'
    <2>1. LastInterestEntry'.timestamp \in Times
      BY <1>1, InflowDated
    <2>2. Days(LastInterestEntry'.timestamp) <= LastDay
      BY <2>1
    <2> QED BY <2>2 DEF DatesInRange, Days
  <1>2. ASSUME NEW n \in DistAmounts, NEW t \in Times, distribute(n, t) PROVE DatesInRange'
    <2>1. UNCHANGED terms
      BY <1>2, Zenon DEF distribute
    <2>2. Annually' <=> Annually
      BY <2>1 DEF Annually
    <2>3. CASE Annually
      BY <2>2, <2>3 DEF DatesInRange
    <2>4. CASE ~ Annually
      <3>1. \/ LastInterestEntry'.timestamp \in Times
            \/ Days(LastInterestEntry'.timestamp) = Days(LastInterestEntry.timestamp)
        BY <1>2, <2>4, OutflowDated
      <3>2. Days(LastInterestEntry'.timestamp) <= LastDay
        BY <2>4, <3>1 DEF DatesInRange
      <3> QED BY <3>2 DEF DatesInRange, Days
    <2> QED BY <2>3, <2>4
  <1>3. ASSUME NEW name \in DOMAIN TermChanges, NEW v, setTerm(name, v) PROVE DatesInRange'
    <2>1. name # "compoundingInterval"
      BY DEF SettableTerms
    <2> QED BY <1>3, <2>1, DatesSame DEF setTerm
  <1>4. ASSUME UNCHANGED <<interestEntries, terms>> PROVE DatesInRange'
    BY <1>4, DatesSame
  <1>5. CASE \E n \in CallAmounts : capitalCall(n)
    BY <1>1, <1>5
  <1>6. CASE \E n \in DistAmounts, t \in Times : distribute(n, t)
    BY <1>2, <1>6
  <1>7. CASE \E n \in DOMAIN TermChanges : \E v \in TermChanges[n] : setTerm(n, v)
    BY <1>3, <1>7
  <1>8. CASE \E a \in Lps : cancelCommit(a)
    BY <1>4, <1>8 DEF cancelCommit
  <1>9. CASE \E list \in ApprovalLists : approveCommits(Range(list))
    BY <1>4, <1>9, Zenon DEF approveCommits
  <1>10. CASE \E c \in CallIds, a \in Accounts, p \in CallPrices : capitalCallDone(c, a, p)
    BY <1>4, <1>10, Zenon DEF capitalCallDone
  <1>11. CASE chargeManagementFee
    BY <1>4, <1>11, Zenon DEF chargeManagementFee
  <1>12. CASE RedemptionNext
    BY <1>4, <1>12, Zenon
       DEF RedemptionNext, addRedemption, cancelRedemption, approveRedemption, rejectRedemption
  <1>13. CASE pauseTokens \/ unpauseTokens
    BY <1>4, <1>13, Zenon DEF pauseTokens, unpauseTokens
  <1>14. CASE \E k \in TokenNames, a \in Holders : payFees(k, a)
    BY <1>4, <1>14, Zenon DEF payFees, TokenUnchanged
  <1>15. CASE \E k \in TokenNames, a \in Holders : claimAllDistributions(k, a)
    BY <1>4, <1>15, Zenon DEF claimAllDistributions, TokenUnchanged
  <1>16. CASE \E w \in WaiverLists : markFeesAsPaidUpToID(w.token, w.upToId, Range(w.accounts))
    BY <1>4, <1>16, Zenon DEF markFeesAsPaidUpToID, TokenUnchanged
  <1>17. CASE \E k \in TokenNames, a \in Holders, b \in Accounts, n \in TransferAmounts :
                 transfer(k, a, b, n)
    BY <1>4, <1>17, Zenon DEF transfer, TokenUnchanged
  <1>18. CASE EnvironmentNext
    BY <1>4, <1>18, Zenon DEF EnvironmentNext, TimePasses, ComplianceChanges, SystemUnchanged
  <1> QED
    BY <1>5, <1>6, <1>7, <1>8, <1>9, <1>10, <1>11, <1>12, <1>13, <1>14, <1>15, <1>16, <1>17,
       <1>18, Zenon DEF OtherCalls, CapitalNext

\* Nor do these calls list an account, or make a commitment where none was.
LEMMA ListedKept ==
    ASSUME CommitTypeOK, OtherCalls
    PROVE  /\ UNCHANGED <<lpAccounts, gpAccounts>>
           /\ \A a \in Accounts :
                 lpCommitments'[a].status = "NONE" <=> lpCommitments[a].status = "NONE"
  <1>1. ASSUME UNCHANGED commitVars
        PROVE  UNCHANGED <<lpAccounts, gpAccounts, lpCommitments>>
    BY <1>1 DEF commitVars
  <1>2. CASE \E a \in Lps : cancelCommit(a)
    <2>1. PICK a \in Lps : cancelCommit(a)
      BY <1>2
    <2>2. /\ lpCommitments[a].status = "PENDING"
          /\ lpCommitments' = [lpCommitments EXCEPT ![a].status = "CANCELLED"]
          /\ UNCHANGED <<lpAccounts, gpAccounts>>
      BY <2>1 DEF cancelCommit, CancelLpCommitment
    <2>3. \A b \in Accounts : /\ b # a => lpCommitments'[b] = lpCommitments[b]
                              /\ b = a => lpCommitments'[b].status = "CANCELLED"
      BY <2>2 DEF CommitTypeOK, Commit
    <2> QED BY <2>2, <2>3
  <1>3. CASE \E list \in ApprovalLists : approveCommits(Range(list))
    <2>1. PICK list \in ApprovalLists : approveCommits(Range(list))
      BY <1>3
    <2> DEFINE S == Range(list)
    <2>2. ApproveLpCommitments(S)
      BY <2>1, Zenon DEF approveCommits
    <2> HIDE DEF S
    <2>3. /\ \A a \in S : lpCommitments[a].status = "PENDING"
          /\ lpCommitments' = [a \in Accounts |->
                IF a \in S THEN [lpCommitments[a] EXCEPT !.status = "APPROVED"]
                ELSE lpCommitments[a]]
          /\ UNCHANGED <<lpAccounts, gpAccounts>>
      BY <2>2 DEF ApproveLpCommitments
    <2>4. \A b \in Accounts : /\ b \notin S => lpCommitments'[b] = lpCommitments[b]
                              /\ b \in S => lpCommitments'[b].status = "APPROVED"
      BY <2>3 DEF CommitTypeOK, Commit
    <2> QED BY <2>3, <2>4
  <1>4. CASE CapitalNext
    BY <1>1, <1>4, Zenon
       DEF CapitalNext, capitalCall, capitalCallDone, chargeManagementFee, distribute
  <1>5. CASE RedemptionNext
    BY <1>1, <1>5, Zenon
       DEF RedemptionNext, addRedemption, cancelRedemption, approveRedemption, rejectRedemption
  <1>6. CASE \E n \in DOMAIN TermChanges : \E v \in TermChanges[n] : setTerm(n, v)
    BY <1>1, <1>6, Zenon DEF setTerm
  <1>7. CASE pauseTokens \/ unpauseTokens
    BY <1>1, <1>7, Zenon DEF pauseTokens, unpauseTokens
  <1>8. CASE \E k \in TokenNames, a \in Holders : payFees(k, a)
    BY <1>1, <1>8, Zenon DEF payFees, TokenUnchanged
  <1>9. CASE \E k \in TokenNames, a \in Holders : claimAllDistributions(k, a)
    BY <1>1, <1>9, Zenon DEF claimAllDistributions, TokenUnchanged
  <1>10. CASE \E w \in WaiverLists : markFeesAsPaidUpToID(w.token, w.upToId, Range(w.accounts))
    BY <1>1, <1>10, Zenon DEF markFeesAsPaidUpToID, TokenUnchanged
  <1>11. CASE \E k \in TokenNames, a \in Holders, b \in Accounts, n \in TransferAmounts :
                 transfer(k, a, b, n)
    BY <1>1, <1>11, Zenon DEF transfer, TokenUnchanged
  <1>12. CASE EnvironmentNext
    BY <1>1, <1>12, Zenon DEF EnvironmentNext, TimePasses, ComplianceChanges, SystemUnchanged
  <1> QED
    BY <1>2, <1>3, <1>4, <1>5, <1>6, <1>7, <1>8, <1>9, <1>10, <1>11, <1>12, Zenon DEF OtherCalls

\* Types: what a call of Fund keeps, with lists for sets.
LEMMA CompletesType ==
    ASSUME TypeOK, OtherCalls
    PROVE  TypeOK'
  <1> USE FundAssumption, ExecutionAssumption
  <1>1. CASE \E a \in Lps : cancelCommit(a)
    BY <1>1, CancelCommitType
  <1>2. CASE \E list \in ApprovalLists : approveCommits(Range(list))
    <2>1. PICK list \in ApprovalLists : approveCommits(Range(list))
      BY <1>2
    <2>2. Range(list) \in SUBSET Accounts
      BY BeforeAll
    <2> QED BY <2>1, <2>2, ApproveCommitsType
  <1>3. CASE CapitalNext
    BY <1>3, CapitalNextType
  <1>4. CASE RedemptionNext
    BY <1>4, RedemptionNextType
  <1>5. CASE \E n \in DOMAIN TermChanges : \E v \in TermChanges[n] : setTerm(n, v)
    BY <1>5, SetTermType DEF SettableTerms
  <1>6. CASE pauseTokens \/ unpauseTokens
    BY <1>6, PausingType
  <1>7. CASE \E k \in TokenNames, a \in Holders : payFees(k, a)
    BY <1>7, PayFeesType
  <1>8. CASE \E k \in TokenNames, a \in Holders : claimAllDistributions(k, a)
    BY <1>8, ClaimType
  <1>9. CASE \E w \in WaiverLists : markFeesAsPaidUpToID(w.token, w.upToId, Range(w.accounts))
    <2>1. PICK w \in WaiverLists : markFeesAsPaidUpToID(w.token, w.upToId, Range(w.accounts))
      BY <1>9
    <2>2. w.token \in TokenNames /\ w.upToId \in Nat /\ Range(w.accounts) \in SUBSET Accounts
      BY WaiverFields, BeforeAll
    <2> QED BY <2>1, <2>2, MarkFeesType
  <1>10. CASE \E k \in TokenNames, a \in Holders, b \in Accounts, n \in TransferAmounts :
                 transfer(k, a, b, n)
    BY <1>10, TransferType
  <1>11. CASE EnvironmentNext
    BY <1>11, EnvironmentType
  <1> QED
    BY <1>1, <1>2, <1>3, <1>4, <1>5, <1>6, <1>7, <1>8, <1>9, <1>10, <1>11, Zenon DEF OtherCalls

-----------------------------------------------------------------------------
(* Each kind of step keeps the invariant.                                  *)

LEMMA AppendLists ==
    ASSUME NEW S, NEW list \in Seq(S), NEW a \in S
    PROVE  /\ Append(list, a) \in Seq(S)
           /\ Range(Append(list, a)) = Range(list) \cup {a}
           /\ IsInjective(list) /\ a \notin Range(list) => IsInjective(Append(list, a))
  <1> DEFINE l == Append(list, a)
  <1>1. l \in Seq(S) /\ Len(l) = Len(list) + 1 /\ Len(list) \in Nat
        /\ DOMAIN l = 1..Len(l) /\ DOMAIN list = 1..Len(list)
    OBVIOUS
  <1>2. l[Len(list) + 1] = a /\ \A i \in 1..Len(list) : l[i] = list[i]
    OBVIOUS
  <1> HIDE DEF l
  <1>3. Range(l) = Range(list) \cup {a}
    <2>1. ASSUME NEW x \in Range(l) PROVE x \in Range(list) \cup {a}
      BY <1>1, <1>2, <2>1 DEF Range
    <2>2. ASSUME NEW x \in Range(list) PROVE x \in Range(l)
      BY <1>1, <1>2, <2>2 DEF Range
    <2>3. a \in Range(l)
      BY <1>1, <1>2 DEF Range
    <2> QED BY <2>1, <2>2, <2>3
  <1>4. ASSUME IsInjective(list), a \notin Range(list) PROVE IsInjective(l)
    <2> SUFFICES ASSUME NEW i \in DOMAIN l, NEW j \in DOMAIN l, l[i] = l[j] PROVE i = j
      BY DEF IsInjective
    <2>1. \A k \in 1..Len(list) : list[k] # a
      BY <1>1, <1>4 DEF Range
    <2>2. CASE i \in 1..Len(list) /\ j \in 1..Len(list)
      BY <1>1, <1>2, <1>4, <2>2 DEF IsInjective
    <2>3. CASE i = Len(list) + 1 \/ j = Len(list) + 1
      BY <1>1, <1>2, <2>1, <2>3
    <2> QED BY <1>1, <2>2, <2>3
  <1> QED BY <1>1, <1>3, <1>4 DEF l

LEMMA LpCommitsRests ==
    ASSUME Resting, LpCommits
    PROVE  Resting'
  <1> USE FundAssumption DEF Resting
  <1>1. PICK a \in Lps, n \in CommitAmounts : AddLpCommitment(a, n) /\ PushesLp(a)
    BY Zenon DEF LpCommits, commit, addLpCommit
  <1>2. a \in Accounts /\ n \in Nat /\ CommitTypeOK
    BY TypeParts
  <1>3. TypeOK'
    BY <1>1, <1>2, AddLpCommitmentType
  <1>4. /\ lpCommitments' = [lpCommitments EXCEPT ![a] = [amount |-> n, status |-> "PENDING"]]
        /\ lpAccounts' = lpAccounts \cup {a}
        /\ UNCHANGED <<gpAccounts, interestEntries, terms>>
    BY <1>1 DEF AddLpCommitment, SetLpCommitment
  <1>5. /\ lpAccountList' = IF a \notin Range(lpAccountList) THEN Append(lpAccountList, a)
                            ELSE lpAccountList
        /\ UNCHANGED gpAccountList
    BY <1>1, <1>2 DEF PushesLp, NeverCommitted, ListedOnce, ListsAgree
  <1>6. ListsType' /\ ListsAgree'
    <2>1. CASE a \notin Range(lpAccountList)
      <3>1. lpAccountList' = Append(lpAccountList, a)
        BY <1>5, <2>1
      <3>2. lpAccountList' \in Seq(Accounts) /\ IsInjective(lpAccountList')
            /\ Range(lpAccountList') = Range(lpAccountList) \cup {a}
        BY <1>2, <2>1, <3>1, AppendLists DEF ListsType
      <3> QED BY <1>4, <1>5, <3>2 DEF ListsType, ListsAgree
    <2>2. CASE a \in Range(lpAccountList)
      <3>1. lpAccountList' = lpAccountList /\ lpAccounts' = lpAccounts
        BY <1>4, <1>5, <2>2 DEF ListsAgree
      <3> QED BY <1>4, <1>5, <3>1 DEF ListsType, ListsAgree
    <2> QED BY <2>1, <2>2
  <1>7. ListedOnce'
    <2>1. ASSUME NEW b \in Accounts
          PROVE  lpCommitments'[b].status = "NONE" <=> b \notin lpAccounts'
      <3>1. CASE b = a
        <4>1. lpCommitments'[b] = [amount |-> n, status |-> "PENDING"]
          BY <1>2, <1>4, <3>1 DEF CommitTypeOK
        <4> QED BY <1>4, <3>1, <4>1
      <3>2. CASE b # a
        <4>1. lpCommitments'[b] = lpCommitments[b]
          BY <1>2, <1>4, <3>2 DEF CommitTypeOK
        <4> QED BY <1>4, <3>2, <4>1 DEF ListedOnce
      <3> QED BY <3>1, <3>2
    <2> QED BY <1>4, <2>1 DEF ListedOnce
  <1>8. DatesInRange'
    BY <1>4, DatesSame
  <1> QED BY <1>3, <1>6, <1>7, <1>8

LEMMA GpCommitsRests ==
    ASSUME Resting, GpCommits
    PROVE  Resting'
  <1> USE FundAssumption DEF Resting
  <1>1. PICK a \in Gps, n \in GpCommitAmounts : issueGpCommit(a, n) /\ PushesGp(a)
    BY Zenon DEF GpCommits
  <1>2. a \in Accounts /\ n \in Nat
    OBVIOUS
  <1>3. TypeOK'
    BY <1>1, <1>2, IssueGpCommitType
  <1>4. gpAccounts' = gpAccounts \cup {a} /\ UNCHANGED <<lpCommitments, lpAccounts>>
    BY <1>1, Zenon DEF issueGpCommit, AddGpCommitment
  <1>5. UNCHANGED <<interestEntries, terms>>
    BY <1>1, Zenon DEF issueGpCommit
  <1>6. gpAccountList' = Append(gpAccountList, a) /\ UNCHANGED lpAccountList
    BY <1>1 DEF PushesGp
  <1>7. gpAccountList' \in Seq(Accounts) /\ Range(gpAccountList') = Range(gpAccountList) \cup {a}
    BY <1>2, <1>6, AppendLists DEF ListsType
  <1>8. ListsType' /\ ListsAgree' /\ ListedOnce'
    BY <1>4, <1>6, <1>7 DEF ListsType, ListsAgree, ListedOnce
  <1>9. DatesInRange'
    BY <1>5, DatesSame
  <1> QED BY <1>3, <1>8, <1>9

LEMMA CompletesRests ==
    ASSUME Resting, Completes
    PROVE  Resting'
  <1>1. TypeOK' /\ DatesInRange'
    BY CompletesType, DatesKept DEF Resting, Completes
  <1>2. UNCHANGED <<gpAccountList, lpAccountList>>
    BY DEF Completes, listVars
  <1>3. /\ UNCHANGED <<lpAccounts, gpAccounts>>
        /\ \A a \in Accounts :
              lpCommitments'[a].status = "NONE" <=> lpCommitments[a].status = "NONE"
    BY ListedKept, TypeParts DEF Resting, Completes
  <1>4. ListsType' /\ ListsAgree'
    BY <1>2, <1>3 DEF Resting, ListsType, ListsAgree
  <1>5. ListedOnce'
    BY <1>3 DEF Resting, ListedOnce
  <1> QED BY <1>1, <1>4, <1>5 DEF Resting

LEMMA UnchangedRests ==
    ASSUME Resting, Unchanged
    PROVE  Resting'
  <1>1. TypeOK'
    BY StutterType DEF Resting, Unchanged
  <1>2. DatesInRange'
    BY VariablesStay, DatesSame DEF Resting
  <1>3. ListsType' /\ ListsAgree' /\ ListedOnce'
    BY VariablesStay DEF Resting, ListsType, ListsAgree, ListedOnce
  <1> QED BY <1>1, <1>2, <1>3 DEF Resting

LEMMA StepIs ==
    ASSUME ExecInv, [ExecNext]_execVars
    PROVE  \/ Moves \/ LpCommits \/ GpCommits \/ Completes
           \/ Unchanged /\ tx' = tx
  <1>1. CASE UNCHANGED execVars
    BY <1>1 DEF execVars, Unchanged
  <1>2. CASE ExecNext
    BY <1>2, CommitmentStepIs, SingleStepIs, StartIs, ExecutesIs DEF ExecNext
  <1> QED BY <1>1, <1>2

LEMMA ExecInvNext == ExecInv /\ [ExecNext]_execVars => ExecInv'
  <1> SUFFICES ASSUME ExecInv, [ExecNext]_execVars PROVE ExecInv'
    OBVIOUS
  <1>1. Resting /\ scenario \in Scenarios
    BY DEF ExecInv
  <1>2. CASE Moves
    <2>1. Unchanged /\ UNCHANGED scenario
      BY <1>2 DEF Moves, Unchanged
    <2>2. Resting'
      BY <1>1, <2>1, UnchangedRests
    <2>3. tx' = Idle \/ Running(tx)'
      BY <1>2, <2>1, RunningStays DEF Moves
    <2> QED BY <1>1, <2>1, <2>2, <2>3 DEF ExecInv, Idle
  <1>3. CASE Unchanged /\ tx' = tx
    <2>1. UNCHANGED scenario /\ Resting'
      BY <1>1, <1>3, UnchangedRests DEF Unchanged
    <2>2. Running(tx)' <=> Running(tx')
      BY <1>3, RunningStays
    <2>3. Running(tx') <=> Running(tx)
      BY <1>3, Zenon
    <2> QED BY <1>1, <1>3, <2>1, <2>2, <2>3 DEF ExecInv, Idle
  <1>4. CASE LpCommits
    BY <1>1, <1>4, LpCommitsRests DEF ExecInv, LpCommits, Idle
  <1>5. CASE GpCommits
    BY <1>1, <1>5, GpCommitsRests DEF ExecInv, GpCommits, Idle
  <1>6. CASE Completes
    BY <1>1, <1>6, CompletesRests DEF ExecInv, Completes, Idle
  <1> QED BY <1>2, <1>3, <1>4, <1>5, <1>6, StepIs

LEMMA ExecInitInv == ExecInit => ExecInv
  <1> SUFFICES ASSUME ExecInit PROVE ExecInv
    OBVIOUS
  <1>1. TypeOK
    BY InitType DEF ExecInit
  <1>2. /\ lpCommitments = [a \in Accounts |-> [amount |-> 0, status |-> "NONE"]]
        /\ lpAccounts = {} /\ gpAccounts = {} /\ interestEntries = << >>
        /\ gpAccountList = << >> /\ lpAccountList = << >>
    BY DEF ExecInit, Init, CommitInit, InterestInit
  <1>3. Range(<< >>) = {} /\ IsInjective(<< >>)
    BY DEF Range, IsInjective
  <1>4. ListsType /\ ListsAgree /\ ListedOnce
    BY <1>2, <1>3 DEF ListsType, ListsAgree, ListedOnce
  <1>5. DatesInRange
    <2>1. LastInterestEntry.timestamp = 0
      BY <1>2 DEF LastInterestEntry, Entry
    <2> QED BY <2>1 DEF DatesInRange, Days, DaySeconds, LastDay
  <1> QED BY <1>1, <1>4, <1>5 DEF ExecInit, ExecInv, Resting

-----------------------------------------------------------------------------
(* Every step is a step of Fund, or none.                                  *)

LEMMA CommitsRefine ==
    ASSUME ListsAgree, ListsAgree', LpCommits \/ GpCommits
    PROVE  Atomic!Next
  <1>1. CASE LpCommits
    <2>1. PICK a \in Lps, n \in CommitAmounts : commit(a, n) \/ addLpCommit(a, n)
      BY <1>1, Zenon DEF LpCommits
    <2>2. Atomic!commit(a, n) \/ Atomic!addLpCommit(a, n)
      BY <2>1, SameAddLpCommitment
    <2> QED BY <2>2, Zenon DEF Atomic!Next, Atomic!CommitmentNext
  <1>2. CASE GpCommits
    <2>1. PICK a \in Gps, n \in GpCommitAmounts : issueGpCommit(a, n)
      BY <1>2, Zenon DEF GpCommits
    <2>2. Atomic!issueGpCommit(a, n)
      BY <2>1, SameIssueGpCommit
    <2> QED BY <2>2, Zenon DEF Atomic!Next, Atomic!CommitmentNext
  <1> QED BY <1>1, <1>2

\* The accounts whose pending commitments are approved are LPs.
LEMMA ApprovedAreLps ==
    ASSUME Resting, NEW list \in ApprovalLists, approveCommits(Range(list))
    PROVE  Range(list) \in SUBSET Lps
  <1> DEFINE S == Range(list)
  <1>1. S \subseteq Accounts
    BY BeforeAll, ExecutionAssumption
  <1>2. ApproveLpCommitments(S)
    BY Zenon DEF approveCommits
  <1> HIDE DEF S
  <1>3. \A a \in S : lpCommitments[a].status = "PENDING"
    BY <1>2 DEF ApproveLpCommitments
  <1>4. S \subseteq Lps
    BY <1>1, <1>3 DEF Resting, ListedOnce
  <1> QED BY <1>4 DEF S

LEMMA CompletesRefines ==
    ASSUME Resting, ListsAgree', OtherCalls
    PROVE  Atomic!Next
  <1> USE DEF Resting
  <1>1. CASE \E a \in Lps : cancelCommit(a)
    BY <1>1, SameCancelCommit, Zenon DEF Atomic!Next, Atomic!CommitmentNext
  <1>2. CASE \E list \in ApprovalLists : approveCommits(Range(list))
    <2>1. PICK list \in ApprovalLists : approveCommits(Range(list))
      BY <1>2
    <2>2. Range(list) \in SUBSET Lps
      BY <2>1, ApprovedAreLps
    <2>3. Atomic!approveCommits(Range(list))
      BY <2>1, SameApproveCommits
    <2> QED BY <2>2, <2>3, Zenon DEF Atomic!Next, Atomic!CommitmentNext
  <1>3. CASE CapitalNext
    <2>1. CASE \E n \in CallAmounts : capitalCall(n)
      BY <2>1, SameCapitalCall, Zenon DEF Atomic!Next, Atomic!CapitalNext
    <2>2. CASE \E c \in CallIds, a \in Accounts, p \in CallPrices : capitalCallDone(c, a, p)
      <3>1. Atomic!CallIds = CallIds
        BY DEF Atomic!CallIds, CallIds
      <3> QED BY <2>2, <3>1, SameCapitalCallDone, Zenon DEF Atomic!Next, Atomic!CapitalNext
    <2>3. CASE chargeManagementFee
      BY <2>3, SameChargeManagementFee, Zenon DEF Atomic!Next, Atomic!CapitalNext
    <2>4. CASE \E n \in DistAmounts, t \in Times : distribute(n, t)
      BY <2>4, SameDistribute, Zenon DEF Atomic!Next, Atomic!CapitalNext
    <2> QED BY <1>3, <2>1, <2>2, <2>3, <2>4, Zenon DEF CapitalNext
  <1>4. CASE RedemptionNext
    <2>1. CASE \E a \in Redeemers, n \in RedemptionAmounts : addRedemption(a, n)
      BY <2>1, SameRedemptions, Zenon DEF Atomic!Next, Atomic!RedemptionNext
    <2>2. CASE \E a \in Redeemers :
                 cancelRedemption(a) \/ approveRedemption(a) \/ rejectRedemption(a)
      <3>1. PICK a \in Redeemers :
               cancelRedemption(a) \/ approveRedemption(a) \/ rejectRedemption(a)
        BY <2>2
      <3>2. \/ Atomic!cancelRedemption(a) \/ Atomic!approveRedemption(a)
            \/ Atomic!rejectRedemption(a)
        <4>1. ASSUME NEW n
              PROVE  /\ cancelRedemption(a) => Atomic!cancelRedemption(a)
                     /\ rejectRedemption(a) => Atomic!rejectRedemption(a)
                     /\ approveRedemption(a) => Atomic!approveRedemption(a)
          BY SameRedemptions
        <4> QED BY <3>1, <4>1
      <3> QED BY <3>2, Zenon DEF Atomic!Next, Atomic!RedemptionNext
    <2> QED BY <1>4, <2>1, <2>2, Zenon DEF RedemptionNext
  <1>5. CASE \E n \in DOMAIN TermChanges : \E v \in TermChanges[n] : setTerm(n, v)
    BY <1>5, SameAdministration, Zenon DEF Atomic!Next, Atomic!AdminNext
  <1>6. CASE pauseTokens \/ unpauseTokens
    <2>1. \A name, value : /\ pauseTokens => Atomic!pauseTokens
                           /\ unpauseTokens => Atomic!unpauseTokens
      BY SameAdministration
    <2> QED BY <1>6, <2>1, Zenon DEF Atomic!Next, Atomic!AdminNext
  <1>7. CASE \E k \in TokenNames, a \in Holders : payFees(k, a)
    <2>1. Atomic!TokenNames = TokenNames
      BY DEF Atomic!TokenNames, TokenNames
    <2> QED BY <1>7, <2>1, SameTokenCalls, Zenon DEF Atomic!Next, Atomic!TokenNext
  <1>8. CASE \E k \in TokenNames, a \in Holders : claimAllDistributions(k, a)
    <2>1. Atomic!TokenNames = TokenNames
      BY DEF Atomic!TokenNames, TokenNames
    <2> QED BY <1>8, <2>1, SameTokenCalls, Zenon DEF Atomic!Next, Atomic!TokenNext
  <1>9. CASE \E w \in WaiverLists : markFeesAsPaidUpToID(w.token, w.upToId, Range(w.accounts))
    <2>1. PICK w \in WaiverLists : markFeesAsPaidUpToID(w.token, w.upToId, Range(w.accounts))
      BY <1>9
    <2> DEFINE v == [w EXCEPT !.accounts = Range(@)]
               waivers == {[u EXCEPT !.accounts = Range(@)] : u \in WaiverLists}
    <2>2. v \in waivers
      OBVIOUS
    <2>3. v.token = w.token /\ v.upToId = w.upToId /\ v.accounts = Range(w.accounts)
      BY ExecutionAssumption
    <2>4. Atomic!markFeesAsPaidUpToID(v.token, v.upToId, v.accounts)
      <3>1. Atomic!markFeesAsPaidUpToID(w.token, w.upToId, Range(w.accounts))
        <4>1. \A a : markFeesAsPaidUpToID(w.token, w.upToId, Range(w.accounts))
                        => Atomic!markFeesAsPaidUpToID(w.token, w.upToId, Range(w.accounts))
          BY SameTokenCalls, ZenonT(30)
        <4> QED BY <2>1, <4>1
      <3> QED BY <2>3, <3>1
    <2>5. Atomic!TokenNext
      BY <2>2, <2>4, Zenon DEF Atomic!TokenNext
    <2> QED BY <2>5, Zenon DEF Atomic!Next
  <1>10. CASE \E k \in TokenNames, a \in Holders, b \in Accounts, n \in TransferAmounts :
                 transfer(k, a, b, n)
    <2>1. Atomic!TokenNames = TokenNames
      BY DEF Atomic!TokenNames, TokenNames
    <2> QED BY <1>10, <2>1, SameTokenCalls, Zenon DEF Atomic!Next, Atomic!TokenNext
  <1>11. CASE EnvironmentNext
    BY <1>11, SameEnvironment, Zenon DEF Atomic!Next
  <1> QED
    BY <1>1, <1>2, <1>3, <1>4, <1>5, <1>6, <1>7, <1>8, <1>9, <1>10, <1>11, Zenon DEF OtherCalls

LEMMA StepRefines == ExecInv /\ [ExecNext]_execVars => [Atomic!Next]_(Atomic!vars)
  <1> SUFFICES ASSUME ExecInv, [ExecNext]_execVars PROVE [Atomic!Next]_(Atomic!vars)
    OBVIOUS
  <1>1. Resting /\ ListsAgree /\ ListsAgree'
    BY ExecInvNext DEF ExecInv, Resting
  <1>2. CASE Moves \/ (Unchanged /\ tx' = tx)
    <2>1. UNCHANGED vars
      BY <1>2 DEF Moves, Unchanged
    <2>2. UNCHANGED Atomic!vars
      BY <1>1, <2>1, SameVars
    <2> QED BY <2>2
  <1>3. CASE LpCommits \/ GpCommits
    BY <1>1, <1>3, CommitsRefine
  <1>4. CASE Completes
    BY <1>1, <1>4, CompletesRefines DEF Completes
  <1> QED BY <1>2, <1>3, <1>4, StepIs

LEMMA InitRefines == ExecInit => Atomic!Init
  <1> SUFFICES ASSUME ExecInit PROVE Atomic!Init
    OBVIOUS
  <1>1. Init /\ Range(gpAccountList) = {} /\ Range(lpAccountList) = {}
    BY DEF ExecInit, Range
  <1>2. Atomic!CommitInit
    BY <1>1 DEF Init, CommitInit, Atomic!CommitInit
  <1>3. Atomic!CallInit /\ Atomic!RedemptionInit /\ Atomic!InterestInit
    BY <1>1 DEF Init, CallInit, Atomic!CallInit, RedemptionInit, Atomic!RedemptionInit,
                InterestInit, Atomic!InterestInit, CallIds, Atomic!CallIds,
                AccountCall, Atomic!AccountCall
  <1>4. tokens = [k \in Atomic!TokenNames |-> Atomic!Deployed(k \in {"gpCommit", "lpCommit"})]
    BY <1>1 DEF Init, TokenNames, Atomic!TokenNames, Deployed, Atomic!Deployed,
                Indices, Atomic!Indices
  <1>5. cash = [k \in Atomic!TokenNames |-> 0]
    BY <1>1 DEF Init, TokenNames, Atomic!TokenNames
  <1> QED BY <1>1, <1>2, <1>3, <1>4, <1>5, Zenon DEF Init, Atomic!Init

-----------------------------------------------------------------------------
(* What a running call has written is well typed at every stage.           *)

LEMMA StorageType ==
    ASSUME TypeOK
    PROVE  /\ lpCommitments \in [Accounts -> Commit]
           /\ tokens \in [TokenNames -> Ledger]
           /\ accountCapitalCalls \in [Accounts -> [CallIds -> AccountCapitalCall]]
  BY TypeParts DEF CommitTypeOK, TokensType, CallTypeOK

LEMMA WritesKeep ==
    ASSUME NEW w, NEW names, WritesOnly(w, names)
    PROVE  /\ "lpCommitments" \notin names => w.lpCommitments = lpCommitments
           /\ "tokens" \notin names => w.tokens = tokens
           /\ "accountCapitalCalls" \notin names => w.accountCapitalCalls = accountCapitalCalls
  <1>1. {"lpCommitments", "tokens", "accountCapitalCalls"} \subseteq DOMAIN Storage
    BY DEF Storage
  <1>2. /\ Storage.lpCommitments = lpCommitments /\ Storage.tokens = tokens
        /\ Storage.accountCapitalCalls = accountCapitalCalls
    BY DEF Storage
  <1> QED BY <1>1, <1>2, Zenon DEF WritesOnly

WrittenType(w) ==
    /\ w.lpCommitments \in [Accounts -> Commit]
    /\ w.tokens \in [TokenNames -> Ledger]
    /\ w.accountCapitalCalls \in [Accounts -> [CallIds -> AccountCapitalCall]]

LEMMA ApprovingType ==
    ASSUME TypeOK, NEW x, Approving(x)
    PROVE  WrittenType(x.written)
  <1>1. PICK list \in ApprovalLists : \E n \in 0..Len(list) : ApprovingAt(x, list, n)
    BY Zenon DEF Approving
  <1>2. PICK n \in 0..Len(list) : ApprovingAt(x, list, n)
    BY <1>1
  <1> DEFINE S == Before(list, n)
             m == MintedToEach(tokens["lpCommit"], S, CommitTokens(S))
  <1>3. S \in SUBSET Accounts
    BY BeforeAll, ExecutionAssumption
  <1>4. /\ x.written.lpCommitments = ApprovedFor(S)
        /\ x.written.tokens = [tokens EXCEPT !["lpCommit"] = m]
        /\ WritesOnly(x.written, {"lpCommitments", "totalCommittedLp", "tokens"})
    BY <1>2, Zenon DEF ApprovingAt
  <1>5. ApprovedFor(S) \in [Accounts -> Commit]
    BY StorageType DEF ApprovedFor, Commit, CommitStates
  <1>6. m \in Ledger
    <2>1. tokens["lpCommit"] \in Ledger
      BY StorageType DEF TokenNames
    <2>2. \A a \in S : CommitTokens(S)[a] \in Nat
      BY <1>3, CommitTokensType
    <2> QED BY <1>3, <2>1, <2>2, MintedToEachFields
  <1> HIDE DEF m, S
  <1>7. x.written.tokens \in [TokenNames -> Ledger]
    BY <1>4, <1>6, StorageType
  <1>8. x.written.accountCapitalCalls = accountCapitalCalls
    BY <1>4, WritesKeep
  <1> QED BY <1>4, <1>5, <1>7, <1>8, StorageType DEF WrittenType

LEMMA SwitchingType ==
    ASSUME TypeOK, NEW x, Switching(x)
    PROVE  WrittenType(x.written)
  <1>1. PICK n \in 0..4 : \/ SwitchingAt(x, "pauseTokens", TRUE, n)
                          \/ SwitchingAt(x, "unpauseTokens", FALSE, n)
    BY Zenon DEF Switching
  <1>2. ASSUME NEW call, NEW p \in BOOLEAN, SwitchingAt(x, call, p, n)
        PROVE  WrittenType(x.written)
    <2> DEFINE S == Before(TokenOrder, n)
    <2>1. x.written.tokens = SwitchedTo(S, p) /\ WritesOnly(x.written, {"tokens"})
      BY <1>2, Zenon DEF SwitchingAt
    <2>2. \A k \in TokenNames : tokens[k] \in Ledger
      BY StorageType
    <2>3. \A k \in TokenNames : [tokens[k] EXCEPT !.paused = p] \in Ledger
      BY <2>2 DEF Ledger
    <2> HIDE DEF S
    <2>4. SwitchedTo(S, p) \in [TokenNames -> Ledger]
      BY <2>2, <2>3 DEF SwitchedTo
    <2>5. x.written.lpCommitments = lpCommitments
          /\ x.written.accountCapitalCalls = accountCapitalCalls
      BY <2>1, WritesKeep
    <2> QED BY <2>1, <2>4, <2>5, StorageType DEF WrittenType
  <1> QED BY <1>1, <1>2

LEMMA MarkingType ==
    ASSUME TypeOK, NEW x, Marking(x)
    PROVE  WrittenType(x.written)
  <1>1. PICK w \in WaiverLists : \E n \in 0..Len(w.accounts) : MarkingAt(x, w, n)
    BY Zenon DEF Marking
  <1>2. PICK n \in 0..Len(w.accounts) : MarkingAt(x, w, n)
    BY <1>1
  <1> DEFINE S == Before(w.accounts, n)
             t == FeesMarked(tokens[w.token], w.upToId, S)
  <1>3. /\ x.written.tokens = [tokens EXCEPT ![w.token] = t]
        /\ WritesOnly(x.written, {"tokens"})
    BY <1>2, Zenon DEF MarkingAt, MarkedTo
  <1>4. t \in Ledger
    BY WaiverFields, StorageType, FeesMarkedType
  <1> HIDE DEF t, S
  <1>5. x.written.tokens \in [TokenNames -> Ledger]
    BY <1>3, <1>4, StorageType
  <1>6. x.written.lpCommitments = lpCommitments
        /\ x.written.accountCapitalCalls = accountCapitalCalls
    BY <1>3, WritesKeep
  <1> QED BY <1>5, <1>6, StorageType DEF WrittenType

LEMMA RedeemingType ==
    ASSUME TypeOK, NEW x, Redeeming(x)
    PROVE  WrittenType(x.written)
  <1>1. PICK a \in Redeemers : RequestedAt(x, a) \/ RedeemedAt(x, a)
    BY Zenon DEF Redeeming
  <1>2. \/ x.written = Storage
        \/ WritesOnly(x.written, {"redemptions", "totalRedemptions"})
    BY <1>1 DEF RequestedAt, RedeemedAt
  <1>3. /\ x.written.lpCommitments = lpCommitments
        /\ x.written.tokens = tokens
        /\ x.written.accountCapitalCalls = accountCapitalCalls
    <2>1. CASE x.written = Storage
      BY <2>1 DEF Storage
    <2>2. CASE WritesOnly(x.written, {"redemptions", "totalRedemptions"})
      BY <2>2, WritesKeep
    <2> QED BY <1>2, <2>1, <2>2
  <1> QED BY <1>3, StorageType DEF WrittenType

LEMMA SettlingType ==
    ASSUME TypeOK, NEW x, Settling(x)
    PROVE  WrittenType(x.written)
  <1>1. PICK c \in CallIds, a \in Accounts, p \in CallPrices :
           ToSettleAt(x, c, a, p) \/ SettlingAt(x, c, a, p)
    BY Zenon DEF Settling
  <1>2. CASE ToSettleAt(x, c, a, p)
    BY <1>2, StorageType DEF ToSettleAt, WrittenType, Storage
  <1>3. CASE SettlingAt(x, c, a, p)
    <2> DEFINE k == CommitToken(CalledType(c, a))
               n == CalledTokens(c, a, p)
               t == Burned(tokens[k], a, n)
    <2>1. x.written = BurnedOf(Storage, k, a, n) /\ MayBurn(tokens[k], compliant, a, n)
      BY <1>3, Zenon DEF SettlingAt
    <2>2. k \in TokenNames
      BY DEF CommitToken, TokenNames
    <2>3. n \in Nat
      <3>1. accountCapitalCalls[a][c].amount \in Nat /\ p \in Nat \ {0}
        BY StorageType, FundAssumption DEF AccountCapitalCall
      <3> QED BY <3>1, QuotientIsNat DEF CalledTokens
    <2>4. t \in Ledger
      BY <2>1, <2>2, <2>3, StorageType, BurnedType DEF MayBurn
    <2> HIDE DEF k, n
    <2>5. /\ x.written.tokens = [tokens EXCEPT ![k] = t]
          /\ x.written.lpCommitments = lpCommitments
          /\ x.written.accountCapitalCalls = accountCapitalCalls
      BY <2>1, <2>2, StorageType DEF BurnedOf, Storage
    <2> HIDE DEF t
    <2> QED BY <2>2, <2>4, <2>5, StorageType DEF WrittenType
  <1> QED BY <1>1, <1>2, <1>3

LEMMA CallRecordsType ==
    ASSUME TypeOK, NEW n \in Nat, NEW G, NEW L, totalCommitted > 0
    PROVE  CallRecords(n, G, L) \in [Accounts -> [CallIds -> AccountCapitalCall]]
  <1>1. CommitTypeOK
    BY TypeParts
  <1>2. ASSUME NEW a \in Accounts
        PROVE  AccountCall(LpShare(n, a), "LP") \in AccountCapitalCall
    <2>1. LpShare(n, a) \in Nat
      BY <1>1, CallShareType DEF LpShare, CommitTypeOK, Commit
    <2> QED BY <2>1 DEF AccountCall, AccountCapitalCall, AccountTypes
  <1>3. ASSUME NEW a \in Accounts
        PROVE  AccountCall(GpShare(n, a), "GP") \in AccountCapitalCall
    <2>1. GpShare(n, a) \in Nat
      BY <1>1, CallShareType DEF GpShare, CommitTypeOK, Commit
    <2> QED BY <2>1 DEF AccountCall, AccountCapitalCall, AccountTypes
  <1> DEFINE entry(a) == IF a \in L THEN AccountCall(LpShare(n, a), "LP")
                         ELSE IF a \in G THEN AccountCall(GpShare(n, a), "GP")
                         ELSE accountCapitalCalls[a][NextCallId]
             row == [a \in Accounts |->
                       [accountCapitalCalls[a] EXCEPT ![NextCallId] = entry(a)]]
  <1>4. CallRecords(n, G, L) = row
    BY DEF CallRecords, AccountCalls
  <1>5. ASSUME NEW a \in Accounts
        PROVE  row[a] \in [CallIds -> AccountCapitalCall]
    <2>1. entry(a) \in AccountCapitalCall
      BY <1>2, <1>3, StorageType, NextCallIdType
    <2> DEFINE e == entry(a)
    <2>2. row[a] = [accountCapitalCalls[a] EXCEPT ![NextCallId] = e]
      OBVIOUS
    <2> HIDE DEF row, e
    <2>3. accountCapitalCalls[a] \in [CallIds -> AccountCapitalCall]
      BY StorageType
    <2> QED BY <2>1, <2>2, <2>3 DEF e
  <1>6. row = [a \in Accounts |-> row[a]]
    OBVIOUS
  <1> HIDE DEF row
  <1> QED BY <1>4, <1>5, <1>6

LEMMA CallingType ==
    ASSUME TypeOK, NEW x, Calling(x)
    PROVE  WrittenType(x.written)
  <1>1. PICK n \in CallAmounts : CallingFor(x, n)
    BY Zenon DEF Calling
  <1>2. n \in Nat
    BY FundAssumption
  <1>3. ASSUME NEW w, NEW G, NEW L, Recorded(w, n, G, L) PROVE WrittenType(w)
    <2>1. /\ WritesOnly(w, CallWrites)
          /\ w.accountCapitalCalls = CallRecords(n, G, L)
          /\ totalCommitted > 0
      BY <1>3, Zenon DEF Recorded, MayCall
    <2>2. w.lpCommitments = lpCommitments /\ w.tokens = tokens
      BY <2>1, WritesKeep DEF CallWrites
    <2> QED BY <1>2, <2>1, <2>2, CallRecordsType, StorageType DEF WrittenType
  <1>4. CASE ToCallAt(x, n)
    BY <1>4, StorageType DEF ToCallAt, WrittenType, Storage
  <1>5. CASE \E i \in 0..Len(gpAccountList) : GpsAt(x, n, i)
    BY <1>3, <1>5, Zenon DEF GpsAt
  <1>6. CASE \E i \in 0..Len(lpAccountList) : LpsAt(x, n, i)
    BY <1>3, <1>6, Zenon DEF LpsAt
  <1>7. CASE CalledAt(x, n)
    BY <1>3, <1>7, Zenon DEF CalledAt
  <1> QED BY <1>1, <1>4, <1>5, <1>6, <1>7, Zenon DEF CallingFor

LEMMA DistributingType ==
    ASSUME TypeOK, NEW x, Distributing(x)
    PROVE  WrittenType(x.written)
  <1>1. PICK n \in DistAmounts : \E t \in Times : DistributingFor(x, n, t)
    BY Zenon DEF Distributing
  <1>2. PICK t \in Times : DistributingFor(x, n, t)
    BY <1>1
  <1>3. CASE ToDistributeAt(x, n, t)
    BY <1>3, StorageType DEF ToDistributeAt, WrittenType, Storage
  <1>4. CASE \E i \in 0..Len(Payments(PayOf(n, t))) : PayingAt(x, n, t, i)
    <2> DEFINE pay == PayOf(n, t)
    <2>1. PICK i \in 0..Len(Payments(pay)) : PayingAt(x, n, t, i)
      BY <1>4
    <2> DEFINE S == TypesPaid(pay, i)
               lp == Shares(pay).lp
               gp == Shares(pay).gp
    <2>2. /\ WritesOnly(x.written, DistWrites) /\ x.written.tokens = TokensPaid(S, pay)
          /\ \A type \in S : MayDistribute(tokens[FundTokenOf(type)], ShareOf(pay, type), scale)
          /\ pay.completes
      BY <2>1, Zenon DEF PayingAt, OutflowRecorded, PaidTo
    <2>3. lp \in Nat /\ gp \in Nat
      BY <2>2, DistSharesType
    <2>4. "LP" \in S => MayDistribute(tokens["lpFund"], lp, scale)
      BY <2>2 DEF FundTokenOf, ShareOf
    <2>5. "GP" \in S => MayDistribute(tokens["gpFund"], gp, scale)
      BY <2>2 DEF FundTokenOf, ShareOf
    <2>6. \A k \in TokenNames : tokens[k] \in Ledger
      BY StorageType
    <2>7. tokens["lpFund"] \in Ledger /\ tokens["gpFund"] \in Ledger /\ scale \in Nat \ {0}
      BY <2>6, InterestAssumption DEF TokenNames
    <2> HIDE DEF S, lp, gp, pay
    <2>8. "LP" \in S => Distributed(tokens["lpFund"], lp, scale) \in Ledger
      BY <2>3, <2>4, <2>7, DistributedType DEF MayDistribute
    <2>9. "GP" \in S => Distributed(tokens["gpFund"], gp, scale) \in Ledger
      BY <2>3, <2>5, <2>7, DistributedType DEF MayDistribute
    <2>10. TokensPaid(S, pay) \in [TokenNames -> Ledger]
      BY <2>6, <2>8, <2>9, Zenon DEF TokensPaid, lp, gp
    <2>11. x.written.lpCommitments = lpCommitments
           /\ x.written.accountCapitalCalls = accountCapitalCalls
      BY <2>2, WritesKeep DEF DistWrites
    <2> QED BY <2>2, <2>10, <2>11, StorageType DEF WrittenType
  <1> QED BY <1>2, <1>3, <1>4, Zenon DEF DistributingFor

LEMMA InvariantTypes == ExecInv => ExecTypeOK
  <1> SUFFICES ASSUME ExecInv PROVE ExecTypeOK
    OBVIOUS
  <1>1. TypeOK /\ ListsType
    BY DEF ExecInv, Resting
  <1>2. ASSUME tx # Idle PROVE WrittenType(tx.written)
    <2>1. Running(tx)
      BY <1>2 DEF ExecInv
    <2> QED
      BY <1>1, <2>1, ApprovingType, SwitchingType, MarkingType, RedeemingType, SettlingType,
         CallingType, DistributingType DEF Running
  <1> QED BY <1>1, <1>2 DEF ExecTypeOK, ListsType, WrittenType

-----------------------------------------------------------------------------
(* The theorems.                                                           *)

\* Between the steps of a running call nothing of the storage has changed,
\* and what the call has written so far is well typed: no iteration of a loop
\* over accounts, lists or payments leaves a number below zero for the next,
\* and an LP is listed once, however often it commits.
THEOREM ExecutionTypeCorrect == ExecSpec => []ExecTypeOK
  <1>1. ExecSpec => []ExecInv
    BY ExecInitInv, ExecInvNext, PTL DEF ExecSpec
  <1> QED BY <1>1, InvariantTypes, PTL

\* Calls that run step by step, over arrays and lists with their order and
\* their repetitions, do to the storage what their one step in Fund does over
\* sets, or nothing.  Whatever holds of every behaviour of Fund holds of the
\* calls as the contracts execute them.
THEOREM ExecutionImplementsFund == ExecSpec => ImplementsFund
  <1>1. ExecSpec => []ExecInv
    BY ExecInitInv, ExecInvNext, PTL DEF ExecSpec
  <1>2. ExecSpec => Atomic!Init /\ [][Atomic!Next]_(Atomic!vars)
    BY <1>1, InitRefines, StepRefines, PTL DEF ExecSpec
  <1> QED BY <1>2 DEF ImplementsFund, Atomic!Spec

=============================================================================
