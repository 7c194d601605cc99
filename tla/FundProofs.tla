----------------------------- MODULE FundProofs -----------------------------
(***************************************************************************)
(* What holds of the fund for every set of accounts, all terms and all     *)
(* amounts.                                                                *)
(***************************************************************************)
EXTENDS Fund, LedgerLemmas, InterestLemmas

-----------------------------------------------------------------------------
(* Type correctness.  Every action leaves most groups of variables alone:  *)
(* each group has a lemma for that case.                                   *)

TokensType == tokens \in [TokenNames -> Ledger]
CashType == cash \in [TokenNames -> Nat]
TermsType == terms \in [TermNames -> Nat]
DistType ==
    /\ distributionCount \in Nat /\ totalDistributed \in Nat
    /\ lpReturn \in Nat /\ gpReturn \in Nat /\ gpCatchup \in Nat
EnvType == compliant \in SUBSET Accounts /\ now \in Times

LEMMA TypeParts ==
    TypeOK <=> /\ CommitTypeOK /\ CallTypeOK /\ RedemptionTypeOK /\ InterestTypeOK
               /\ TokensType /\ CashType /\ TermsType /\ DistType /\ EnvType
  BY DEF TypeOK, TokensType, CashType, TermsType, DistType, EnvType

LEMMA TypePartsNext ==
    TypeOK' <=> /\ CommitTypeOK' /\ CallTypeOK' /\ RedemptionTypeOK' /\ InterestTypeOK'
                /\ TokensType' /\ CashType' /\ TermsType' /\ DistType' /\ EnvType'
  BY DEF TypeOK, TokensType, CashType, TermsType, DistType, EnvType

LEMMA CommitSame == CommitTypeOK /\ UNCHANGED commitVars => CommitTypeOK'
  BY DEF CommitTypeOK, commitVars

LEMMA CallSame == CallTypeOK /\ UNCHANGED callVars => CallTypeOK'
  BY DEF CallTypeOK, callVars

LEMMA RedemptionSame == RedemptionTypeOK /\ UNCHANGED redemptionVars => RedemptionTypeOK'
  BY DEF RedemptionTypeOK, redemptionVars

LEMMA InterestSame == InterestTypeOK /\ UNCHANGED interestEntries => InterestTypeOK'
  BY DEF InterestTypeOK

LEMMA TokensSame == TokensType /\ UNCHANGED tokens => TokensType'
  BY DEF TokensType

LEMMA CashSame == CashType /\ UNCHANGED cash => CashType'
  BY DEF CashType

LEMMA TermsSame == TermsType /\ UNCHANGED terms => TermsType'
  BY DEF TermsType

LEMMA DistSame == DistType /\ UNCHANGED distVars => DistType'
  BY DEF DistType, distVars

LEMMA EnvSame == EnvType /\ UNCHANGED envVars => EnvType'
  BY DEF EnvType, envVars

\* The fund as deployed is well typed.
LEMMA InitType == Init => TypeOK
  <1> SUFFICES ASSUME Init PROVE TypeOK
    OBVIOUS
  <1> USE FundAssumption
  <1>1. CommitTypeOK
    BY DEF Init, CommitInit, CommitTypeOK, Commit, CommitStates
  <1>2. CallTypeOK
    BY DEF Init, CallInit, CallTypeOK, AccountCall, AccountCapitalCall, AccountTypes
  <1>3. RedemptionTypeOK
    BY DEF Init, RedemptionInit, RedemptionTypeOK, RedemptionData, RedemptionStatuses
  <1>4. InterestTypeOK
    BY DEF Init, InterestInit, InterestTypeOK
  <1>5. TokensType
    <2>1. \A k \in TokenNames : Deployed(k \in {"gpCommit", "lpCommit"}) \in Ledger
      <3> SUFFICES ASSUME NEW k \in TokenNames
                   PROVE  Deployed(k \in {"gpCommit", "lpCommit"}) \in Ledger
        OBVIOUS
      <3>1. (k \in {"gpCommit", "lpCommit"}) \in BOOLEAN
        OBVIOUS
      <3> QED BY <3>1, DeployedType, Zenon
    <2> QED BY <2>1 DEF Init, TokensType
  <1>6. CashType /\ TermsType /\ DistType /\ EnvType
    BY DEF Init, CashType, TermsType, DistType, EnvType
  <1> QED BY <1>1, <1>2, <1>3, <1>4, <1>5, <1>6, TypeParts

-----------------------------------------------------------------------------
(* Commitments.                                                            *)

LEMMA AddLpCommitmentType ==
    ASSUME TypeOK, NEW a \in Accounts, NEW n \in Nat, AddLpCommitment(a, n)
    PROVE  TypeOK'
  <1>1. CommitTypeOK
    BY TypeParts
  <1>2. lpCommitments[a].amount \in Nat
    BY <1>1 DEF CommitTypeOK, Commit
  <1>3. Replaced(a) \in Nat
    BY <1>2 DEF Replaced
  <1>4. CommitTypeOK'
    <2>1. totalInPendingLpCommits' \in Nat
      BY <1>1, <1>3 DEF AddLpCommitment, SetLpCommitment, CommitTypeOK, IsUint
    <2>2. [amount |-> n, status |-> "PENDING"] \in Commit
      BY DEF Commit, CommitStates
    <2> QED BY <1>1, <2>1, <2>2 DEF AddLpCommitment, SetLpCommitment, CommitTypeOK
  <1> QED
    BY <1>4, TypeParts, TypePartsNext, CallSame, RedemptionSame, InterestSame, TokensSame,
       CashSame, TermsSame, DistSame, EnvSame DEF AddLpCommitment

LEMMA CancelCommitType ==
    ASSUME TypeOK, NEW a \in Accounts, cancelCommit(a)
    PROVE  TypeOK'
  <1>1. CommitTypeOK
    BY TypeParts
  <1>2. lpCommitments' = [lpCommitments EXCEPT ![a].status = "CANCELLED"]
    BY DEF cancelCommit, CancelLpCommitment
  <1>3. [lpCommitments[a] EXCEPT !.status = "CANCELLED"] \in Commit
    BY <1>1 DEF CommitTypeOK, Commit, CommitStates
  <1>4. lpCommitments' \in [Accounts -> Commit]
    BY <1>1, <1>2, <1>3 DEF CommitTypeOK
  <1>5. CommitTypeOK'
    BY <1>1, <1>4 DEF cancelCommit, CancelLpCommitment, CommitTypeOK, IsUint
  <1> QED
    BY <1>5, TypeParts, TypePartsNext, CallSame, RedemptionSame, InterestSame, TokensSame,
       CashSame, TermsSame, DistSame, EnvSame DEF cancelCommit

LEMMA CommitTokensType ==
    ASSUME TypeOK, NEW S \in SUBSET Accounts
    PROVE  CommitTokens(S) \in [S -> Nat]
  <1>1. ASSUME NEW a \in S
        PROVE  (lpCommitments[a].amount \div price) \in Nat
    <2>1. lpCommitments[a].amount \in Nat /\ price \in Nat \ {0}
      BY TypeParts, FundAssumption DEF CommitTypeOK, Commit
    <2> QED BY <2>1, QuotientIsNat
  <1> QED BY <1>1 DEF CommitTokens

LEMMA ApproveCommitsType ==
    ASSUME TypeOK, NEW S \in SUBSET Accounts, approveCommits(S)
    PROVE  TypeOK'
  <1>1. CommitTypeOK /\ TokensType
    BY TypeParts
  <1>2. lpCommitments' \in [Accounts -> Commit]
    <2>1. \A a \in Accounts : [lpCommitments[a] EXCEPT !.status = "APPROVED"] \in Commit
      BY <1>1 DEF CommitTypeOK, Commit, CommitStates
    <2> QED BY <1>1, <2>1 DEF approveCommits, ApproveLpCommitments, CommitTypeOK
  <1>3. totalCommittedLp' \in Nat
    <2>1. Approved(S) \in Nat /\ totalCommittedLp' = totalCommittedLp + Approved(S)
      BY Zenon DEF approveCommits, ApproveLpCommitments, IsUint
    <2> QED BY <1>1, <2>1 DEF CommitTypeOK
  <1>4. CommitTypeOK'
    BY <1>1, <1>2, <1>3 DEF approveCommits, ApproveLpCommitments, CommitTypeOK
  <1>5. TokensType'
    <2> DEFINE m == MintedToEach(tokens["lpCommit"], S, CommitTokens(S))
    <2>1. tokens' = [tokens EXCEPT !["lpCommit"] = m]
      BY DEF approveCommits
    <2>2. "lpCommit" \in TokenNames
      BY DEF TokenNames
    <2>3. tokens'["lpCommit"] = m
      <3> HIDE DEF m
      <3> QED BY <1>1, <2>1, <2>2 DEF TokensType
    <2>4. IsUint(m.totalSupply)
      BY <2>3 DEF approveCommits
    <2>5. m \in Ledger
      BY <1>1, <2>2, <2>4, CommitTokensType, MintedToEachType DEF TokensType
    <2> HIDE DEF m
    <2> QED BY <1>1, <2>1, <2>5 DEF TokensType
  <1> QED
    BY <1>4, <1>5, TypeParts, TypePartsNext, CallSame, RedemptionSame, InterestSame,
       CashSame, TermsSame, DistSame, EnvSame DEF approveCommits

LEMMA IssueGpCommitType ==
    ASSUME TypeOK, NEW a \in Accounts, NEW n \in Nat, issueGpCommit(a, n)
    PROVE  TypeOK'
  <1>1. CommitTypeOK /\ TokensType
    BY TypeParts
  <1>2. [amount |-> n, status |-> "APPROVED"] \in Commit
    BY DEF Commit, CommitStates
  <1>3. CommitTypeOK'
    BY <1>1, <1>2 DEF issueGpCommit, AddGpCommitment, CommitTypeOK
  <1>4. TokensType'
    <2>1. tokens["gpCommit"] \in Ledger
      BY <1>1 DEF TokensType, TokenNames
    <2>2. Minted(tokens["gpCommit"], a, n) \in Ledger
      BY <2>1, MintedType
    <2> QED BY <1>1, <2>2 DEF issueGpCommit, TokensType
  <1> QED
    BY <1>3, <1>4, TypeParts, TypePartsNext, CallSame, RedemptionSame, InterestSame,
       CashSame, TermsSame, DistSame, EnvSame DEF issueGpCommit

-----------------------------------------------------------------------------
(* Capital calls.                                                          *)

\* An account's share of a call is a number, whatever its commitment became.
LEMMA CallShareType ==
    ASSUME TypeOK, NEW n \in Nat, NEW committed \in Nat, totalCommitted > 0
    PROVE  CallShare(n, committed) \in Nat
  <1>1. scale \in Nat \ {0} /\ totalCommitted \in Nat \ {0}
    BY TypeParts, InterestAssumption DEF CommitTypeOK, totalCommitted
  <1> DEFINE m == n * scale
             q == m \div totalCommitted
             r == q * committed
  <1>2. m \in Nat
    BY <1>1, ProductIsNat
  <1> HIDE DEF m
  <1>3. q \in Nat
    BY <1>1, <1>2, QuotientIsNat
  <1> HIDE DEF q
  <1>4. r \in Nat
    BY <1>3, ProductIsNat
  <1> HIDE DEF r
  <1>5. r \div scale \in Nat
    BY <1>1, <1>4, QuotientIsNat
  <1> QED BY <1>5 DEF CallShare, m, q, r

LEMMA NextCallIdType ==
    ASSUME TypeOK
    PROVE  NextCallId \in CallIds
  <1>1. Len(capitalCalls) \in Nat /\ CallIdRange \in Nat \ {0}
    BY TypeParts, CallIdAssumption DEF CallTypeOK
  <1> QED BY <1>1 DEF NextCallId, CallIds

LEMMA CapitalCallType ==
    ASSUME TypeOK, NEW n \in Nat, capitalCall(n)
    PROVE  TypeOK'
  <1> DEFINE flow == InflowAfter(ComputeCompounding(terms["compoundingInterval"], terms["prefRate"], now), n,
                                 terms["prefRate"], now)
  <1>1. CommitTypeOK /\ CallTypeOK /\ InterestTypeOK /\ TermsType /\ EnvType
    BY TypeParts
  <1>2. /\ totalCommitted > 0
        /\ flow.completes
        /\ capitalCalls' = Append(capitalCalls, n)
        /\ totalCalled' = totalCalled + n
        /\ interestEntries' = interestEntries \o flow.pushed
        /\ accountCapitalCalls' =
             AccountCalls(gpAccounts, lpAccounts,
                          LAMBDA a : GpShare(n, a), LAMBDA a : LpShare(n, a))
    BY Zenon DEF capitalCall, Inflow
  <1>3. InterestTypeOK'
    <2>1. terms["prefRate"] \in Nat /\ now \in Nat
      BY <1>1, FundAssumption DEF TermsType, TermNames, EnvType
    <2>2. flow.pushed \in Seq(InterestEntry)
      BY <1>2, <2>1, InflowType
    <2> HIDE DEF flow
    <2>3. interestEntries \o flow.pushed \in Seq(InterestEntry)
      BY <1>1, <2>2 DEF InterestTypeOK
    <2>4. interestEntries' = interestEntries \o flow.pushed
      BY <1>2
    <2> QED BY <2>3, <2>4 DEF InterestTypeOK
  <1>4. accountCapitalCalls' \in [Accounts -> [CallIds -> AccountCapitalCall]]
    <2>1. ASSUME NEW a \in Accounts
          PROVE  AccountCall(LpShare(n, a), "LP") \in AccountCapitalCall
      <3>1. LpShare(n, a) \in Nat
        BY <1>1, <1>2, CallShareType DEF LpShare, CommitTypeOK, Commit
      <3> QED BY <3>1 DEF AccountCall, AccountCapitalCall, AccountTypes
    <2>2. ASSUME NEW a \in Accounts
          PROVE  AccountCall(GpShare(n, a), "GP") \in AccountCapitalCall
      <3>1. GpShare(n, a) \in Nat
        BY <1>1, <1>2, CallShareType DEF GpShare, CommitTypeOK, Commit
      <3> QED BY <3>1 DEF AccountCall, AccountCapitalCall, AccountTypes
    <2> DEFINE entry(a) == IF a \in lpAccounts THEN AccountCall(LpShare(n, a), "LP")
                           ELSE IF a \in gpAccounts THEN AccountCall(GpShare(n, a), "GP")
                           ELSE accountCapitalCalls[a][NextCallId]
               row == [a \in Accounts |->
                         [accountCapitalCalls[a] EXCEPT ![NextCallId] = entry(a)]]
    <2>3. accountCapitalCalls' = row
      BY <1>2 DEF AccountCalls
    <2>4. accountCapitalCalls \in [Accounts -> [CallIds -> AccountCapitalCall]]
      BY <1>1 DEF CallTypeOK
    <2>5. ASSUME NEW a \in Accounts
          PROVE  row[a] \in [CallIds -> AccountCapitalCall]
      <3>1. entry(a) \in AccountCapitalCall
        BY <2>1, <2>2, <2>4, NextCallIdType
      <3> DEFINE e == entry(a)
      <3>2. row[a] = [accountCapitalCalls[a] EXCEPT ![NextCallId] = e]
        OBVIOUS
      <3> HIDE DEF row, e
      <3>3. accountCapitalCalls[a] \in [CallIds -> AccountCapitalCall]
        BY <2>4
      <3> QED BY <3>1, <3>2, <3>3 DEF e
    <2>6. row = [a \in Accounts |-> row[a]]
      OBVIOUS
    <2> HIDE DEF row
    <2> QED BY <2>3, <2>5, <2>6
  <1>5. CallTypeOK'
    <2>1. capitalCalls' \in Seq(Nat)
      <3>1. capitalCalls' = Append(capitalCalls, n)
        BY <1>2
      <3> QED BY <1>1, <3>1 DEF CallTypeOK
    <2>2. totalCalled' \in Nat
      <3>1. totalCalled' = totalCalled + n
        BY <1>2
      <3> QED BY <1>1, <3>1 DEF CallTypeOK
    <2> QED BY <1>4, <2>1, <2>2 DEF CallTypeOK
  <1>6. UNCHANGED <<commitVars, redemptionVars, tokens, cash, terms, distVars, envVars>>
    BY Zenon DEF capitalCall
  <1> QED
    BY <1>3, <1>5, <1>6, TypeParts, TypePartsNext, CommitSame, RedemptionSame, TokensSame,
       CashSame, TermsSame, DistSame, EnvSame

\* Two ledgers replaced by well-typed ones.
LEMMA TwoTokensType ==
    ASSUME TokensType, NEW k \in TokenNames, NEW l \in TokenNames, k # l,
           NEW t \in Ledger, NEW u \in Ledger,
           tokens' = [tokens EXCEPT ![k] = t, ![l] = u]
    PROVE  TokensType'
  <1>1. [tokens EXCEPT ![k] = t] \in [TokenNames -> Ledger]
    BY DEF TokensType
  <1> QED BY <1>1 DEF TokensType

LEMMA CapitalCallDoneType ==
    ASSUME TypeOK, NEW c \in CallIds, NEW a \in Accounts, NEW p \in Nat \ {0},
           capitalCallDone(c, a, p)
    PROVE  TypeOK'
  <1> DEFINE acc == accountCapitalCalls[a][c]
             n   == acc.amount \div p
             ct  == CommitToken(acc.accountType)
             ft  == FundTokenOf(acc.accountType)
  <1>1. CallTypeOK /\ TokensType
    BY TypeParts
  <1>2. acc \in AccountCapitalCall
    BY <1>1 DEF CallTypeOK
  <1>3. n \in Nat
    BY <1>2, QuotientIsNat DEF AccountCapitalCall
  <1>4. ct \in TokenNames /\ ft \in TokenNames /\ ct # ft
    BY DEF CommitToken, FundTokenOf, TokenNames
  <1>5. tokens[ct] \in Ledger /\ tokens[ft] \in Ledger
    BY <1>1, <1>4 DEF TokensType
  <1>6. TokensType'
    <2>1. MayBurn(tokens[ct], compliant, a, n)
      BY DEF capitalCallDone
    <2>2. Burned(tokens[ct], a, n) \in Ledger
      BY <1>3, <1>5, <2>1, BurnedType DEF MayBurn
    <2>3. Minted(tokens[ft], a, n) \in Ledger
      BY <1>3, <1>5, MintedType
    <2>4. tokens' = [tokens EXCEPT ![ct] = Burned(tokens[ct], a, n),
                                   ![ft] = Minted(tokens[ft], a, n)]
      <3>1. tokens' = [tokens EXCEPT ![ct] = Burned(@, a, n), ![ft] = Minted(@, a, n)]
        BY DEF capitalCallDone, Converted
      <3> HIDE DEF n, acc, ct, ft
      <3> QED BY <1>1, <1>4, <3>1 DEF TokensType
    <2> HIDE DEF n, acc, ct, ft
    <2> QED BY <1>1, <1>4, <2>2, <2>3, <2>4, TwoTokensType
  <1>7. CallTypeOK'
    <2>1. accountCapitalCalls' = [accountCapitalCalls EXCEPT ![a][c].isDone = TRUE]
      BY DEF capitalCallDone
    <2>2. [acc EXCEPT !.isDone = TRUE] \in AccountCapitalCall
      BY <1>2 DEF AccountCapitalCall
    <2>3. accountCapitalCalls' \in [Accounts -> [CallIds -> AccountCapitalCall]]
      BY <1>1, <2>1, <2>2 DEF CallTypeOK
    <2> QED BY <1>1, <2>3 DEF capitalCallDone, CallTypeOK
  <1> QED
    BY <1>6, <1>7, TypeParts, TypePartsNext, CommitSame, RedemptionSame, InterestSame,
       CashSame, TermsSame, DistSame, EnvSame DEF capitalCallDone

LEMMA ChargeManagementFeeType ==
    ASSUME TypeOK, chargeManagementFee
    PROVE  TypeOK'
  <1>1. TokensType /\ "lpCommit" \in TokenNames
    BY TypeParts DEF TokenNames
  <1>2. managementFee \in Nat /\ price \in Nat
    BY FundAssumption
  <1>3. FeeCharged(tokens["lpCommit"], managementFee, price) \in Ledger
    BY <1>1, <1>2, FeeChargedType DEF TokensType
  <1>4. TokensType'
    BY <1>1, <1>3 DEF chargeManagementFee, TokensType
  <1> QED
    BY <1>4, TypeParts, TypePartsNext, CommitSame, CallSame, RedemptionSame, InterestSame,
       CashSame, TermsSame, DistSame, EnvSame DEF chargeManagementFee

-----------------------------------------------------------------------------
(* The waterfall.                                                          *)

\* Dividing a product by 1000 rounds down.
LEMMA PerMille ==
    ASSUME NEW n \in Nat, NEW c \in Nat
    PROVE  /\ (n * c) \div 1000 \in Nat
           /\ 1000 * ((n * c) \div 1000) <= n * c
  <1> DEFINE m == n * c
  <1>1. m \in Nat
    OBVIOUS
  <1> HIDE DEF m
  <1>2. m \div 1000 \in Nat /\ 1000 * (m \div 1000) <= m
    BY <1>1
  <1> QED BY <1>2 DEF m

\* The carry on an amount is part of it.
LEMMA CarryType ==
    ASSUME NEW n \in Nat
    PROVE  Carry(n) \in Nat /\ Carry(n) <= n
  <1>1. carriedInterest \in 0..255
    BY FundAssumption
  <1>2. Carry(n) \in Nat /\ 1000 * Carry(n) <= n * carriedInterest
    BY <1>1, PerMille DEF Carry
  <1>3. n * carriedInterest <= n * 255
    BY <1>1
  <1> QED BY <1>1, <1>2, <1>3

LEMMA CatchupOwedType ==
    ASSUME TypeOK, NEW n \in Nat
    PROVE  CatchupOwed(n) \in Nat
  <1>1. gpCatchup \in Nat
    BY TypeParts DEF DistType
  <1>2. carriedInterest \in Nat
    BY FundAssumption
  <1>3. (n * carriedInterest) \div 1000 \in Nat
    BY <1>2, PerMille
  <1> QED BY <1>1, <1>3 DEF CatchupOwed

\* The two shares are numbers and add up to what there was to split.
LEMMA SplitAddsUp ==
    ASSUME NEW pref \in Nat, NEW remaining \in Nat, NEW owed \in Nat
    PROVE  /\ Split(pref, remaining, owed) \in [lp : Nat, gp : Nat, catchup : Nat]
           /\ Split(pref, remaining, owed).lp + Split(pref, remaining, owed).gp
                = pref + remaining
  <1>1. CASE remaining <= owed
    BY <1>1 DEF Split
  <1>2. CASE ~ (remaining <= owed)
    <2>1. remaining - owed \in Nat
      BY <1>2
    <2>2. Carry(remaining - owed) \in Nat /\ Carry(remaining - owed) <= remaining - owed
      BY <2>1, CarryType
    <2> QED BY <1>2, <2>1, <2>2 DEF Split
  <1> QED BY <1>1, <1>2

\* What distribute does, for whatever compounding yields: the shares are
\* numbers that add up to the amount.
LEMMA SharesAddUp ==
    ASSUME TypeOK, NEW n \in Nat, NEW time \in Nat, NEW run,
           NEW pay, pay = OutflowAfter(run, n, terms["prefRate"], time), pay.completes
    PROVE  /\ Shares(pay).lp \in Nat /\ Shares(pay).gp \in Nat
           /\ Shares(pay).catchup \in Nat
           /\ Shares(pay).lp + Shares(pay).gp = n
           /\ pay.pushed \in Seq(InterestEntry)
  <1>1. terms["prefRate"] \in Nat
    BY TypeParts DEF TermsType, TermNames
  <1>2. /\ pay.remaining \in Nat /\ pay.capitalPaid \in Nat /\ pay.interestPaid \in Nat
        /\ pay.capitalPaid + pay.interestPaid + pay.remaining = n
        /\ pay.pushed \in Seq(InterestEntry)
    BY <1>1, OutflowType
  <1>3. CatchupOwed(pay.interestPaid) \in Nat
    BY <1>2, CatchupOwedType
  <1>4. pay.capitalPaid + pay.interestPaid \in Nat
    BY <1>2
  <1> DEFINE pref == pay.capitalPaid + pay.interestPaid
             owed == CatchupOwed(pay.interestPaid)
             rest == pay.remaining
             share == Shares(pay)
  <1>5. share = Split(pref, rest, owed)
    BY DEF Shares
  <1>6. pref \in Nat /\ owed \in Nat /\ rest \in Nat
    BY <1>2, <1>3, <1>4
  <1>7. pref + rest = n
    BY <1>2
  <1> HIDE DEF pref, owed, rest, share
  <1>8. share \in [lp : Nat, gp : Nat, catchup : Nat] /\ share.lp + share.gp = pref + rest
    <2>1. /\ Split(pref, rest, owed) \in [lp : Nat, gp : Nat, catchup : Nat]
          /\ Split(pref, rest, owed).lp + Split(pref, rest, owed).gp = pref + rest
      BY <1>6, SplitAddsUp
    <2> QED BY <1>5, <2>1
  <1> QED BY <1>2, <1>7, <1>8 DEF share

\* _processDistribution leaves a well-typed ledger.
LEMMA ProcessedType ==
    ASSUME NEW t \in Ledger, NEW n \in Nat, n > 0 => MayDistribute(t, n, scale)
    PROVE  Processed(t, n) \in Ledger
  <1>1. scale \in Nat \ {0}
    BY InterestAssumption
  <1>2. CASE n > 0
    BY <1>1, <1>2, DistributedType DEF Processed, MayDistribute
  <1>3. CASE ~ (n > 0)
    BY <1>3 DEF Processed
  <1> QED BY <1>2, <1>3

\* distribute leaves the fund well typed.
LEMMA DistributeType ==
    ASSUME TypeOK, NEW n \in Nat, NEW time \in Nat, distribute(n, time)
    PROVE  TypeOK'
  <1> DEFINE run == ComputeCompounding(terms["compoundingInterval"], terms["prefRate"], time)
             pay == OutflowAfter(run, n, terms["prefRate"], time)
             lp  == Shares(pay).lp
             gp  == Shares(pay).gp
  <1>1. InterestTypeOK /\ TokensType /\ CashType /\ DistType
    BY TypeParts
  <1>2. /\ pay.completes
        /\ DistributeShares(Shares(pay))
        /\ distributionCount' = distributionCount + 1
        /\ totalDistributed' = totalDistributed + n
        /\ interestEntries' = interestEntries \o pay.pushed
        /\ UNCHANGED <<commitVars, callVars, redemptionVars, terms, envVars>>
    BY Zenon DEF distribute, Outflow
  <1>3. /\ lp \in Nat /\ gp \in Nat /\ Shares(pay).catchup \in Nat
        /\ pay.pushed \in Seq(InterestEntry)
    BY <1>2, SharesAddUp
  <1>4. /\ MayProcess("lpFund", lp) /\ MayProcess("gpFund", gp)
        /\ lpReturn' = lpReturn + lp /\ gpReturn' = gpReturn + gp
        /\ gpCatchup' = Shares(pay).catchup
        /\ tokens' = [tokens EXCEPT !["lpFund"] = Processed(@, lp),
                                    !["gpFund"] = Processed(@, gp)]
        /\ cash' = [cash EXCEPT !["lpFund"] = @ + lp, !["gpFund"] = @ + gp]
    BY <1>2 DEF DistributeShares
  <1> HIDE DEF lp, gp
  <1>5. TokensType'
    <2>1. "lpFund" \in TokenNames /\ "gpFund" \in TokenNames
      BY DEF TokenNames
    <2>2. tokens["lpFund"] \in Ledger /\ tokens["gpFund"] \in Ledger
      BY <1>1, <2>1 DEF TokensType
    <2>3. Processed(tokens["lpFund"], lp) \in Ledger
      BY <1>3, <1>4, <2>2, ProcessedType DEF MayProcess
    <2>4. Processed(tokens["gpFund"], gp) \in Ledger
      BY <1>3, <1>4, <2>2, ProcessedType DEF MayProcess
    <2>5. tokens' = [tokens EXCEPT !["lpFund"] = Processed(tokens["lpFund"], lp),
                                   !["gpFund"] = Processed(tokens["gpFund"], gp)]
      BY <1>1, <1>4, <2>1 DEF TokensType
    <2> QED BY <1>1, <2>1, <2>3, <2>4, <2>5, TwoTokensType
  <1>6. CashType'
    <2>1. cash["lpFund"] + lp \in Nat /\ cash["gpFund"] + gp \in Nat
      BY <1>1, <1>3 DEF CashType, TokenNames
    <2>2. cash' = [cash EXCEPT !["lpFund"] = @ + lp, !["gpFund"] = @ + gp]
      BY <1>4
    <2>3. ASSUME NEW k \in TokenNames
          PROVE  cash'[k] \in Nat
      BY <1>1, <2>1, <2>2 DEF CashType
    <2>4. DOMAIN cash' = TokenNames /\ cash' = [k \in TokenNames |-> cash'[k]]
      BY <1>1, <2>2 DEF CashType
    <2> QED BY <2>3, <2>4 DEF CashType
  <1>7. InterestTypeOK'
    <2> DEFINE pushed == pay.pushed
    <2>1. pushed \in Seq(InterestEntry) /\ interestEntries' = interestEntries \o pushed
      BY <1>2, <1>3
    <2> HIDE DEF pushed
    <2> QED BY <1>1, <2>1 DEF InterestTypeOK
  <1>8. DistType'
    <2> DEFINE owed == Shares(pay).catchup
    <2>1. owed \in Nat /\ gpCatchup' = owed
      BY <1>3, <1>4
    <2>2. distributionCount' = distributionCount + 1 /\ totalDistributed' = totalDistributed + n
      BY <1>2
    <2>3. lpReturn' = lpReturn + lp /\ gpReturn' = gpReturn + gp
      BY <1>4
    <2> HIDE DEF owed, pay
    <2> QED BY <1>1, <1>3, <2>1, <2>2, <2>3 DEF DistType
  <1> QED
    BY <1>2, <1>5, <1>6, <1>7, <1>8, TypeParts, TypePartsNext, CommitSame, CallSame,
       RedemptionSame, TermsSame, EnvSame

-----------------------------------------------------------------------------
(* Redemptions.                                                            *)

\* A request is a number, an account and a status, whatever happened to it.
LEMMA UpdateRedemptionType ==
    ASSUME RedemptionTypeOK, NEW a \in Accounts, NEW s \in RedemptionStatuses,
           UpdateRedemption(a, s)
    PROVE  redemptions' \in [Accounts -> RedemptionData]
  <1>1. [redemptions[a] EXCEPT !.status = s] \in RedemptionData
    BY DEF RedemptionTypeOK, RedemptionData
  <1> QED BY <1>1 DEF UpdateRedemption, RedemptionTypeOK

LEMMA AddRedemptionType ==
    ASSUME TypeOK, NEW a \in Accounts, NEW n \in Nat, addRedemption(a, n)
    PROVE  TypeOK'
  <1>1. [amount |-> n, account |-> a, status |-> "PENDING"] \in RedemptionData
    BY DEF RedemptionData, RedemptionStatuses
  <1>2. RedemptionTypeOK'
    BY <1>1, TypeParts DEF addRedemption, RequestRedemption, RedemptionTypeOK
  <1> QED
    BY <1>2, TypeParts, TypePartsNext, CommitSame, CallSame, InterestSame, TokensSame,
       CashSame, TermsSame, DistSame, EnvSame DEF addRedemption

LEMMA CancelRedemptionType ==
    ASSUME TypeOK, NEW a \in Accounts, cancelRedemption(a)
    PROVE  TypeOK'
  <1>1. redemptions' \in [Accounts -> RedemptionData]
    BY TypeParts, UpdateRedemptionType DEF cancelRedemption, CancelRequest, RedemptionStatuses
  <1>2. RedemptionTypeOK'
    BY <1>1, TypeParts DEF cancelRedemption, CancelRequest, RedemptionTypeOK
  <1> QED
    BY <1>2, TypeParts, TypePartsNext, CommitSame, CallSame, InterestSame, TokensSame,
       CashSame, TermsSame, DistSame, EnvSame DEF cancelRedemption

LEMMA RejectRedemptionType ==
    ASSUME TypeOK, NEW a \in Accounts, rejectRedemption(a)
    PROVE  TypeOK'
  <1>1. redemptions' \in [Accounts -> RedemptionData]
    BY TypeParts, UpdateRedemptionType DEF rejectRedemption, RejectRequest, RedemptionStatuses
  <1>2. RedemptionTypeOK'
    BY <1>1, TypeParts DEF rejectRedemption, RejectRequest, RedemptionTypeOK
  <1> QED
    BY <1>2, TypeParts, TypePartsNext, CommitSame, CallSame, InterestSame, TokensSame,
       CashSame, TermsSame, DistSame, EnvSame DEF rejectRedemption

LEMMA ApproveRedemptionType ==
    ASSUME TypeOK, NEW a \in Accounts, approveRedemption(a)
    PROVE  TypeOK'
  <1> DEFINE n == redemptions[a].amount
  <1>1. RedemptionTypeOK /\ TokensType
    BY TypeParts
  <1>2. n \in Nat
    BY <1>1 DEF RedemptionTypeOK, RedemptionData
  <1>3. redemptions' \in [Accounts -> RedemptionData]
    BY <1>1, UpdateRedemptionType DEF approveRedemption, ApproveRequest, RedemptionStatuses
  <1>4. RedemptionTypeOK'
    BY <1>1, <1>2, <1>3 DEF approveRedemption, ApproveRequest, RedemptionTypeOK
  <1>5. TokensType'
    <2>1. tokens["lpFund"] \in Ledger
      BY <1>1 DEF TokensType, TokenNames
    <2>2. Burned(tokens["lpFund"], a, n) \in Ledger
      BY <1>2, <2>1, BurnedType DEF approveRedemption, MayBurn
    <2> QED BY <1>1, <2>2 DEF approveRedemption, TokensType
  <1> QED
    BY <1>4, <1>5, TypeParts, TypePartsNext, CommitSame, CallSame, InterestSame,
       CashSame, TermsSame, DistSame, EnvSame DEF approveRedemption

-----------------------------------------------------------------------------
(* Administration and the environment.                                     *)

LEMMA SetTermType ==
    ASSUME TypeOK, NEW name \in TermNames, NEW value \in Nat, setTerm(name, value)
    PROVE  TypeOK'
  <1>1. TermsType'
    BY TypeParts DEF setTerm, TermsType
  <1> QED
    BY <1>1, TypeParts, TypePartsNext, CommitSame, CallSame, RedemptionSame, InterestSame,
       TokensSame, CashSame, DistSame, EnvSame DEF setTerm

LEMMA PausingType ==
    ASSUME TypeOK, pauseTokens \/ unpauseTokens
    PROVE  TypeOK'
  <1>1. TokensType
    BY TypeParts
  <1>2. ASSUME NEW k \in TokenNames, NEW b \in BOOLEAN
        PROVE  [tokens[k] EXCEPT !.paused = b] \in Ledger
    BY <1>1 DEF TokensType, Ledger
  <1>3. TokensType'
    BY <1>2 DEF pauseTokens, unpauseTokens, TokensType
  <1>4. UNCHANGED <<commitVars, callVars, redemptionVars, interestEntries, cash,
                    terms, distVars, envVars>>
    BY Zenon DEF pauseTokens, unpauseTokens
  <1> QED
    BY <1>3, <1>4, TypeParts, TypePartsNext, CommitSame, CallSame, RedemptionSame,
       InterestSame, CashSame, TermsSame, DistSame, EnvSame

LEMMA EnvironmentType ==
    ASSUME TypeOK, EnvironmentNext
    PROVE  TypeOK'
  <1>1. EnvType' /\ SystemUnchanged
    <2>1. CASE \E t \in Times : TimePasses(t)
      BY <2>1, TypeParts DEF TimePasses, EnvType
    <2>2. CASE \E a \in Reviewed : ComplianceChanges(a)
      BY <2>2, TypeParts, FundAssumption DEF ComplianceChanges, EnvType
    <2> QED BY <2>1, <2>2 DEF EnvironmentNext
  <1> QED
    BY <1>1, TypeParts, TypePartsNext, CommitSame, CallSame, RedemptionSame, InterestSame,
       TokensSame, CashSame, TermsSame, DistSame DEF SystemUnchanged

-----------------------------------------------------------------------------
(* Calls to the tokens.                                                    *)

\* A call to one token is well typed when its ledger and cash are.
LEMMA TokenCallType ==
    ASSUME TypeOK, NEW k \in TokenNames, NEW t \in Ledger, NEW c \in Nat,
           tokens' = [tokens EXCEPT ![k] = t],
           cash' = [cash EXCEPT ![k] = c], TokenUnchanged
    PROVE  TypeOK'
  <1>1. TokensType' /\ CashType'
    BY TypeParts DEF TokensType, CashType
  <1> QED
    BY <1>1, TypeParts, TypePartsNext, CommitSame, CallSame, RedemptionSame, InterestSame,
       TermsSame, DistSame, EnvSame DEF TokenUnchanged

LEMMA PayFeesType ==
    ASSUME TypeOK, NEW k \in TokenNames, NEW a \in Accounts, payFees(k, a)
    PROVE  TypeOK'
  <1> DEFINE fees == PendingFees(tokens[k], a)
  <1>1. tokens[k] \in Ledger /\ cash[k] \in Nat
    BY TypeParts DEF TokensType, CashType
  <1>2. fees \in Nat
    BY DEF payFees, IsUint
  <1>3. FeesSettled(tokens[k], a) \in Ledger
    BY <1>1, FeesSettledType DEF payFees
  <1>4. /\ tokens' = [tokens EXCEPT ![k] = FeesSettled(tokens[k], a)]
        /\ cash' = [cash EXCEPT ![k] = cash[k] + fees]
        /\ TokenUnchanged
    BY DEF payFees
  <1> HIDE DEF fees
  <1>5. cash[k] + fees \in Nat
    BY <1>1, <1>2
  <1> QED BY <1>3, <1>4, <1>5, TokenCallType

LEMMA ClaimType ==
    ASSUME TypeOK, NEW k \in TokenNames, NEW a \in Accounts, claimAllDistributions(k, a)
    PROVE  TypeOK'
  <1> DEFINE left == cash[k] - TotalClaimable(tokens[k], a)
  <1>1. tokens[k] \in Ledger
    BY TypeParts DEF TokensType
  <1>2. left \in Nat
    BY DEF claimAllDistributions, IsUint
  <1>3. ClaimsTaken(tokens[k], a) \in Ledger
    BY <1>1, ClaimsTakenType DEF claimAllDistributions
  <1>4. /\ tokens' = [tokens EXCEPT ![k] = ClaimsTaken(tokens[k], a)]
        /\ cash' = [cash EXCEPT ![k] = left]
        /\ TokenUnchanged
    BY DEF claimAllDistributions
  <1> HIDE DEF left
  <1> QED BY <1>2, <1>3, <1>4, TokenCallType

LEMMA MarkFeesType ==
    ASSUME TypeOK, NEW k \in TokenNames, NEW n \in Nat, NEW S \in SUBSET Accounts,
           markFeesAsPaidUpToID(k, n, S)
    PROVE  TypeOK'
  <1>1. tokens[k] \in Ledger /\ cash[k] \in Nat
    BY TypeParts DEF TokensType, CashType
  <1>2. FeesMarked(tokens[k], n, S) \in Ledger
    BY <1>1, FeesMarkedType
  <1>3. /\ tokens' = [tokens EXCEPT ![k] = FeesMarked(tokens[k], n, S)]
        /\ UNCHANGED cash /\ TokenUnchanged
    BY DEF markFeesAsPaidUpToID
  <1>4. cash' = [cash EXCEPT ![k] = cash[k]]
    BY <1>3, TypeParts DEF CashType
  <1> QED BY <1>1, <1>2, <1>3, <1>4, TokenCallType

LEMMA TransferType ==
    ASSUME TypeOK, NEW k \in TokenNames, NEW a \in Accounts, NEW b \in Accounts,
           NEW n \in Nat, transfer(k, a, b, n)
    PROVE  TypeOK'
  <1>1. tokens[k] \in Ledger /\ cash[k] \in Nat
    BY TypeParts DEF TokensType, CashType
  <1>2. Transferred(tokens[k], a, b, n) \in Ledger
    BY <1>1, TransferredType DEF transfer
  <1>3. /\ tokens' = [tokens EXCEPT ![k] = Transferred(tokens[k], a, b, n)]
        /\ UNCHANGED cash /\ TokenUnchanged
    BY DEF transfer
  <1>4. cash' = [cash EXCEPT ![k] = cash[k]]
    BY <1>3, TypeParts DEF CashType
  <1> QED BY <1>1, <1>2, <1>3, <1>4, TokenCallType

-----------------------------------------------------------------------------
(* The theorem.                                                            *)

LEMMA CommitmentNextType == TypeOK /\ CommitmentNext => TypeOK'
  <1> SUFFICES ASSUME TypeOK, CommitmentNext PROVE TypeOK'
    OBVIOUS
  <1> USE FundAssumption
  <1>1. CASE \E a \in Lps, n \in CommitAmounts : commit(a, n) \/ addLpCommit(a, n)
    BY <1>1, AddLpCommitmentType DEF commit, addLpCommit
  <1>2. CASE \E a \in Lps : cancelCommit(a)
    BY <1>2, CancelCommitType
  <1>3. CASE \E S \in SUBSET Lps : approveCommits(S)
    BY <1>3, ApproveCommitsType
  <1>4. CASE \E a \in Gps, n \in GpCommitAmounts : issueGpCommit(a, n)
    BY <1>4, IssueGpCommitType
  <1> QED BY <1>1, <1>2, <1>3, <1>4 DEF CommitmentNext

LEMMA CapitalNextType == TypeOK /\ CapitalNext => TypeOK'
  <1> SUFFICES ASSUME TypeOK, CapitalNext PROVE TypeOK'
    OBVIOUS
  <1> USE FundAssumption
  <1>1. CASE \E n \in CallAmounts : capitalCall(n)
    BY <1>1, CapitalCallType
  <1>2. CASE \E c \in CallIds, a \in Accounts, p \in CallPrices : capitalCallDone(c, a, p)
    BY <1>2, CapitalCallDoneType
  <1>3. CASE chargeManagementFee
    BY <1>3, ChargeManagementFeeType
  <1>4. CASE \E n \in DistAmounts, t \in Times : distribute(n, t)
    BY <1>4, DistributeType
  <1> QED BY <1>1, <1>2, <1>3, <1>4 DEF CapitalNext

LEMMA RedemptionNextType == TypeOK /\ RedemptionNext => TypeOK'
  BY FundAssumption, AddRedemptionType, CancelRedemptionType, ApproveRedemptionType,
     RejectRedemptionType DEF RedemptionNext

LEMMA AdminNextType == TypeOK /\ AdminNext => TypeOK'
  BY FundAssumption, SetTermType, PausingType DEF AdminNext, SettableTerms

LEMMA TokenNextType == TypeOK /\ TokenNext => TypeOK'
  <1> SUFFICES ASSUME TypeOK, TokenNext PROVE TypeOK'
    OBVIOUS
  <1> USE FundAssumption
  <1>1. CASE \E k \in TokenNames, a \in Holders : payFees(k, a)
    BY <1>1, PayFeesType
  <1>2. CASE \E k \in TokenNames, a \in Holders : claimAllDistributions(k, a)
    BY <1>2, ClaimType
  <1>3. CASE \E w \in Waivers : markFeesAsPaidUpToID(w.token, w.upToId, w.accounts)
    BY <1>3, MarkFeesType
  <1>4. CASE \E k \in TokenNames, a \in Holders, b \in Accounts, n \in TransferAmounts :
                transfer(k, a, b, n)
    BY <1>4, TransferType
  <1> QED BY <1>1, <1>2, <1>3, <1>4 DEF TokenNext

LEMMA StutterType == TypeOK /\ UNCHANGED vars => TypeOK'
  BY TypeParts, TypePartsNext, CommitSame, CallSame, RedemptionSame, InterestSame,
     TokensSame, CashSame, TermsSame, DistSame, EnvSame DEF vars

LEMMA NextType == TypeOK /\ [Next]_vars => TypeOK'
  BY CommitmentNextType, CapitalNextType, RedemptionNextType, AdminNextType,
     TokenNextType, EnvironmentType, StutterType DEF Next

\* Every variable of the fund keeps its type.  Most of the type is that no
\* number ever goes below zero, whoever calls what and in which order: the
\* burns of capitalCallDone and approveRedemption, the shares of the
\* waterfall, the entries of the interest ledger and the USDC of the tokens.
THEOREM FundTypeCorrect == Spec => []TypeOK
  <1>1. Init => TypeOK
    BY InitType
  <1>2. TypeOK /\ [Next]_vars => TypeOK'
    BY NextType
  <1> QED BY <1>1, <1>2, PTL DEF Spec

=============================================================================
