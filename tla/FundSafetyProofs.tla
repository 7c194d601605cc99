-------------------------- MODULE FundSafetyProofs --------------------------
(***************************************************************************)
(* The fund's books add up for every set of accounts, all terms and all    *)
(* amounts.  Its waterfall pays in order, for every rate and price and     *)
(* over any mix of capital calls and distributions: the interest ledger    *)
(* never runs backwards, capital counted as outstanding was called, and    *)
(* the GP is paid only once LPs have been made whole, only out of profit.  *)
(***************************************************************************)
EXTENDS FundProofs

\* What an action that only concerns one of the books leaves alone.
NoDistribution == UNCHANGED <<totalDistributed, lpReturn, gpReturn>>
NoCall == UNCHANGED <<totalCalled, totalCommittedGp, totalCommittedLp>>

\* The sum of two naturals is one.
LEMMA SumIsNat == \A m, n \in Nat : m + n \in Nat
  OBVIOUS

-----------------------------------------------------------------------------
(* The waterfall hands out what it is given.                               *)

\* distribute splits its amount between the two returns to the last unit.
LEMMA DistributeSplits ==
    ASSUME TypeOK, NEW n \in Nat, NEW time \in Nat, distribute(n, time)
    PROVE  /\ totalDistributed' = totalDistributed + n
           /\ lpReturn' + gpReturn' = (lpReturn + gpReturn) + n
  <1> DEFINE run == ComputeCompounding(terms["compoundingInterval"], terms["prefRate"], time)
             pay == OutflowAfter(run, n, terms["prefRate"], time)
             lp  == Shares(pay).lp
             gp  == Shares(pay).gp
  <1>1. /\ pay.completes
        /\ DistributeShares(Shares(pay))
        /\ totalDistributed' = totalDistributed + n
    BY Zenon DEF distribute, Outflow
  <1>2. lp \in Nat /\ gp \in Nat /\ lp + gp = n
    BY <1>1, SharesAddUp
  <1>3. lpReturn' = lpReturn + lp /\ gpReturn' = gpReturn + gp
    BY <1>1 DEF DistributeShares
  <1>4. lpReturn \in Nat /\ gpReturn \in Nat
    BY TypeParts DEF DistType
  <1> HIDE DEF lp, gp
  <1> QED BY <1>1, <1>2, <1>3, <1>4

\* No other action touches what was distributed.
LEMMA OthersDistributeNothing ==
    ASSUME [Next]_vars,
           ~ \E n \in DistAmounts, t \in Times : distribute(n, t)
    PROVE  NoDistribution
  <1>1. CASE CommitmentNext
    BY <1>1 DEF CommitmentNext, commit, addLpCommit, AddLpCommitment, cancelCommit,
                approveCommits, issueGpCommit, distVars, NoDistribution
  <1>2. CASE CapitalNext
    <2>1. CASE \E n \in CallAmounts : capitalCall(n)
      BY <2>1, Zenon DEF capitalCall, distVars, NoDistribution
    <2>2. CASE \E c \in CallIds, a \in Accounts, p \in CallPrices : capitalCallDone(c, a, p)
      BY <2>2 DEF capitalCallDone, distVars, NoDistribution
    <2>3. CASE chargeManagementFee
      BY <2>3 DEF chargeManagementFee, distVars, NoDistribution
    <2> QED BY <1>2, <2>1, <2>2, <2>3 DEF CapitalNext
  <1>3. CASE RedemptionNext
    BY <1>3 DEF RedemptionNext, addRedemption, cancelRedemption, approveRedemption,
                rejectRedemption, distVars, NoDistribution
  <1>4. CASE AdminNext
    BY <1>4 DEF AdminNext, setTerm, pauseTokens, unpauseTokens, distVars, NoDistribution
  <1>5. CASE TokenNext
    BY <1>5 DEF TokenNext, payFees, claimAllDistributions, markFeesAsPaidUpToID, transfer,
                TokenUnchanged, distVars, NoDistribution
  <1>6. CASE EnvironmentNext
    BY <1>6 DEF EnvironmentNext, TimePasses, ComplianceChanges, SystemUnchanged, distVars,
                NoDistribution
  <1>7. CASE UNCHANGED vars
    BY <1>7 DEF vars, distVars, NoDistribution
  <1> QED BY <1>1, <1>2, <1>3, <1>4, <1>5, <1>6, <1>7 DEF Next

\* Nothing distributed is lost or paid twice by the waterfall of distribute:
\* all amounts ever distributed are in the two returns, to the last unit,
\* whatever the rates, the carry and the rounding of the divisions.
THEOREM DistributedInFull == Spec => []ReturnsMatchDistributed
  <1> DEFINE IInv == TypeOK /\ ReturnsMatchDistributed
  <1>1. Init => IInv
    BY InitType DEF Init, ReturnsMatchDistributed
  <1>2. IInv /\ [Next]_vars => IInv'
    <2> SUFFICES ASSUME IInv, [Next]_vars PROVE IInv'
      OBVIOUS
    <2>1. TypeOK' /\ DistType /\ DistType'
      BY NextType, TypeParts, TypePartsNext
    <2>2. CASE \E n \in DistAmounts, t \in Times : distribute(n, t)
      <3>1. PICK n \in DistAmounts, t \in Times : distribute(n, t)
        BY <2>2
      <3>2. n \in Nat /\ t \in Nat
        BY FundAssumption
      <3>3. /\ totalDistributed' = totalDistributed + n
            /\ lpReturn' + gpReturn' = (lpReturn + gpReturn) + n
        BY <3>1, <3>2, DistributeSplits
      <3> QED BY <2>1, <3>3 DEF ReturnsMatchDistributed
    <2>3. CASE ~ \E n \in DistAmounts, t \in Times : distribute(n, t)
      BY <2>1, <2>3, OthersDistributeNothing DEF NoDistribution, ReturnsMatchDistributed
    <2> QED BY <2>2, <2>3
  <1> QED BY <1>1, <1>2, PTL DEF Spec

-----------------------------------------------------------------------------
(* Calls stay within commitments.                                          *)

\* No action lowers a committed total, and none but capitalCall calls.
LEMMA OthersCallNothing ==
    ASSUME TypeOK, [Next]_vars, ~ \E n \in CallAmounts : capitalCall(n)
    PROVE  totalCalled' = totalCalled /\ totalCommitted' >= totalCommitted
  <1>1. totalCommittedGp \in Nat /\ totalCommittedLp \in Nat
    BY TypeParts DEF CommitTypeOK
  <1>2. CASE CommitmentNext
    <2>1. CASE \E a \in Lps, n \in CommitAmounts : commit(a, n) \/ addLpCommit(a, n)
      BY <1>1, <2>1 DEF commit, addLpCommit, AddLpCommitment, SetLpCommitment, callVars,
                        totalCommitted
    <2>2. CASE \E a \in Lps : cancelCommit(a)
      BY <1>1, <2>2 DEF cancelCommit, CancelLpCommitment, callVars, totalCommitted
    <2>3. CASE \E S \in SUBSET Lps : approveCommits(S)
      <3>1. PICK S \in SUBSET Lps : approveCommits(S)
        BY <2>3
      <3>2. /\ Approved(S) \in Nat
            /\ totalCommittedLp' = totalCommittedLp + Approved(S)
            /\ totalCommittedGp' = totalCommittedGp
            /\ UNCHANGED callVars
        BY <3>1, Zenon DEF approveCommits, ApproveLpCommitments, IsUint
      <3> QED BY <1>1, <3>2 DEF callVars, totalCommitted
    <2>4. CASE \E a \in Gps, n \in GpCommitAmounts : issueGpCommit(a, n)
      BY <1>1, <2>4, FundAssumption DEF issueGpCommit, AddGpCommitment, callVars,
                                        totalCommitted
    <2> QED BY <1>2, <2>1, <2>2, <2>3, <2>4 DEF CommitmentNext
  <1>3. CASE NoCall
    BY <1>1, <1>3 DEF NoCall, totalCommitted
  <1>4. CASE CapitalNext
    <2>1. CASE \E c \in CallIds, a \in Accounts, p \in CallPrices : capitalCallDone(c, a, p)
      BY <2>1, <1>3 DEF capitalCallDone, commitVars, NoCall
    <2>2. CASE chargeManagementFee
      BY <2>2, <1>3 DEF chargeManagementFee, commitVars, callVars, NoCall
    <2>3. CASE \E n \in DistAmounts, t \in Times : distribute(n, t)
      BY <2>3, <1>3, Zenon DEF distribute, commitVars, callVars, NoCall
    <2> QED BY <1>4, <2>1, <2>2, <2>3 DEF CapitalNext
  <1>5. CASE RedemptionNext
    BY <1>5, <1>3 DEF RedemptionNext, addRedemption, cancelRedemption, approveRedemption,
                      rejectRedemption, commitVars, callVars, NoCall
  <1>6. CASE AdminNext
    BY <1>6, <1>3 DEF AdminNext, setTerm, pauseTokens, unpauseTokens, commitVars, callVars,
                      NoCall
  <1>7. CASE TokenNext
    BY <1>7, <1>3 DEF TokenNext, payFees, claimAllDistributions, markFeesAsPaidUpToID,
                      transfer, TokenUnchanged, commitVars, callVars, NoCall
  <1>8. CASE EnvironmentNext
    BY <1>8, <1>3 DEF EnvironmentNext, TimePasses, ComplianceChanges, SystemUnchanged,
                      commitVars, callVars, NoCall
  <1>9. CASE UNCHANGED vars
    BY <1>9, <1>3 DEF vars, commitVars, callVars, NoCall
  <1> QED BY <1>2, <1>4, <1>5, <1>6, <1>7, <1>8, <1>9 DEF Next

\* capitalCall never draws more than has been committed, although commitments
\* are replaced, cancelled and approved between calls: the committed total
\* only grows, so the subtraction in capitalCall's own check cannot revert.
THEOREM CallsCovered == Spec => []CalledWithinCommitted
  <1> DEFINE IInv == TypeOK /\ CalledWithinCommitted
  <1>1. Init => IInv
    BY InitType DEF Init, CallInit, CommitInit, totalCommitted, CalledWithinCommitted
  <1>2. IInv /\ [Next]_vars => IInv'
    <2> SUFFICES ASSUME IInv, [Next]_vars PROVE IInv'
      OBVIOUS
    <2>1. TypeOK' /\ CallTypeOK /\ CommitTypeOK /\ CommitTypeOK'
      BY NextType, TypeParts, TypePartsNext
    <2>2. totalCalled \in Nat /\ totalCommitted \in Nat /\ totalCommitted' \in Nat
      <3>1. totalCalled \in Nat
        BY <2>1 DEF CallTypeOK
      <3>2. totalCommitted \in Nat
        BY <2>1 DEF CommitTypeOK, totalCommitted
      <3>3. totalCommitted' \in Nat
        <4>1. totalCommittedGp' \in Nat /\ totalCommittedLp' \in Nat
          BY <2>1, Zenon DEF CommitTypeOK
        <4>2. totalCommitted' = totalCommittedGp' + totalCommittedLp'
          BY DEF totalCommitted
        <4> QED BY <4>1, <4>2, SumIsNat, Zenon
      <3> QED BY <3>1, <3>2, <3>3
    <2>3. CASE \E n \in CallAmounts : capitalCall(n)
      <3>1. PICK n \in CallAmounts : capitalCall(n)
        BY <2>3
      <3>2. /\ WithinCommitments(n)
            /\ totalCalled' = totalCalled + n
            /\ UNCHANGED commitVars
        BY <3>1, Zenon DEF capitalCall
      <3>3. totalCommitted' = totalCommitted
        BY <3>2 DEF commitVars, totalCommitted
      <3>4. n \in Nat
        BY FundAssumption
      <3> QED BY <2>1, <2>2, <3>2, <3>3, <3>4 DEF WithinCommitments, CalledWithinCommitted
    <2>4. CASE ~ \E n \in CallAmounts : capitalCall(n)
      BY <2>1, <2>2, <2>4, OthersCallNothing DEF CalledWithinCommitted
    <2> QED BY <2>3, <2>4
  <1> QED BY <1>1, <1>2, PTL DEF Spec

-----------------------------------------------------------------------------
(* What a transaction may do to the four tokens: nothing that moves any of *)
(* them, pause or unpause them all, or one of the five moves.              *)

CalmStep ==
    /\ \A k \in TokenNames : Calm(tokens[k], tokens'[k])
    /\ UNCHANGED <<totalCommittedLp, totalCommittedGp, totalRedemptions>>

PauseStep ==
    /\ \E v \in BOOLEAN : \A k \in TokenNames :
          tokens'[k] = [tokens[k] EXCEPT !.paused = v]
    /\ UNCHANGED <<totalCommittedLp, totalCommittedGp, totalRedemptions, cash, distVars>>

MoveStep ==
    \/ \E S \in SUBSET Lps : approveCommits(S)
    \/ \E a \in Gps, n \in GpCommitAmounts : issueGpCommit(a, n)
    \/ \E c \in CallIds, a \in Accounts, p \in CallPrices : capitalCallDone(c, a, p)
    \/ \E a \in Redeemers : approveRedemption(a)
    \/ \E k \in TokenNames, a \in Holders, b \in Accounts, n \in TransferAmounts :
          transfer(k, a, b, n)

\* One ledger of the four is replaced.
LEMMA OneToken ==
    ASSUME TokensType, NEW k \in TokenNames, NEW t, tokens' = [tokens EXCEPT ![k] = t]
    PROVE  tokens'[k] = t /\ \A l \in TokenNames \ {k} : tokens'[l] = tokens[l]
  BY DEF TokensType

LEMMA OneCalm ==
    ASSUME TokensType, NEW k \in TokenNames, NEW t, tokens' = [tokens EXCEPT ![k] = t],
           Calm(tokens[k], t)
    PROVE  \A l \in TokenNames : Calm(tokens[l], tokens'[l])
  <1>1. \A l \in TokenNames : tokens[l] \in Ledger
    BY DEF TokensType
  <1> QED BY <1>1, OneToken, CalmCalls

LEMMA DistributeCalm ==
    ASSUME TypeOK, NEW n \in Nat, NEW time \in Nat, distribute(n, time)
    PROVE  CalmStep
  <1> DEFINE lp == Shares(Outflow(n, terms["prefRate"], time, terms["compoundingInterval"])).lp
             gp == Shares(Outflow(n, terms["prefRate"], time, terms["compoundingInterval"])).gp
  <1>1. TokensType
    BY TypeParts
  <1>2. UNCHANGED <<totalCommittedLp, totalCommittedGp, totalRedemptions>>
    BY Zenon DEF distribute, commitVars, redemptionVars
  <1>3. tokens' = [tokens EXCEPT !["lpFund"] = Processed(@, lp),
                                 !["gpFund"] = Processed(@, gp)]
    BY Zenon DEF distribute, DistributeShares
  <1> HIDE DEF lp, gp
  <1>4. ASSUME NEW t \in Ledger, NEW m PROVE Calm(t, Processed(t, m))
    BY CalmCalls DEF Processed
  <1>5. \A k \in TokenNames : tokens[k] \in Ledger
    BY <1>1 DEF TokensType
  <1>6. /\ tokens'["lpFund"] = Processed(tokens["lpFund"], lp)
        /\ tokens'["gpFund"] = Processed(tokens["gpFund"], gp)
        /\ tokens'["gpCommit"] = tokens["gpCommit"]
        /\ tokens'["lpCommit"] = tokens["lpCommit"]
    BY <1>1, <1>3 DEF TokensType, TokenNames
  <1>7. ASSUME NEW k \in TokenNames PROVE Calm(tokens[k], tokens'[k])
    BY <1>4, <1>5, <1>6, CalmCalls DEF TokenNames
  <1> QED BY <1>2, <1>7 DEF CalmStep

LEMMA StepKinds == TypeOK /\ [Next]_vars => CalmStep \/ PauseStep \/ MoveStep
  <1> SUFFICES ASSUME TypeOK, [Next]_vars PROVE CalmStep \/ PauseStep \/ MoveStep
    OBVIOUS
  <1> USE FundAssumption
  <1>t. TokensType /\ \A k \in TokenNames : tokens[k] \in Ledger
    BY TypeParts DEF TokensType
  <1>s. ASSUME UNCHANGED <<tokens, totalCommittedLp, totalCommittedGp, totalRedemptions>>
        PROVE  CalmStep
    BY <1>s, <1>t, CalmCalls DEF CalmStep
  <1>c. ASSUME NEW k \in TokenNames, NEW t, tokens' = [tokens EXCEPT ![k] = t],
               Calm(tokens[k], t),
               UNCHANGED <<totalCommittedLp, totalCommittedGp, totalRedemptions>>
        PROVE  CalmStep
    BY <1>c, <1>t, OneCalm DEF CalmStep
  <1>1. CASE CommitmentNext
    <2>1. CASE \E a \in Lps, n \in CommitAmounts : commit(a, n) \/ addLpCommit(a, n)
      BY <1>s, <2>1 DEF commit, addLpCommit, AddLpCommitment, SetLpCommitment,
                        redemptionVars
    <2>2. CASE \E a \in Lps : cancelCommit(a)
      BY <1>s, <2>2 DEF cancelCommit, CancelLpCommitment, redemptionVars
    <2> QED BY <1>1, <2>1, <2>2 DEF CommitmentNext, MoveStep
  <1>2. CASE CapitalNext
    <2>1. CASE \E n \in CallAmounts : capitalCall(n)
      <3>1. UNCHANGED <<tokens, totalCommittedLp, totalCommittedGp, totalRedemptions>>
        BY <2>1, Zenon DEF capitalCall, commitVars, redemptionVars
      <3> QED BY <1>s, <3>1
    <2>2. CASE chargeManagementFee
      <3>1. UNCHANGED <<totalCommittedLp, totalCommittedGp, totalRedemptions>>
        BY <2>2 DEF chargeManagementFee, commitVars, redemptionVars
      <3>2. tokens' = [tokens EXCEPT !["lpCommit"] =
                          FeeCharged(tokens["lpCommit"], managementFee, price)]
        BY <2>2 DEF chargeManagementFee
      <3>3. "lpCommit" \in TokenNames
        BY DEF TokenNames
      <3> QED BY <1>c, <1>t, <3>1, <3>2, <3>3, CalmCalls
    <2>3. CASE \E n \in DistAmounts, t \in Times : distribute(n, t)
      BY <2>3, DistributeCalm
    <2> QED BY <1>2, <2>1, <2>2, <2>3 DEF CapitalNext, MoveStep
  <1>3. CASE RedemptionNext
    <2>1. CASE ~ \E a \in Redeemers : approveRedemption(a)
      BY <1>3, <1>s, <2>1 DEF RedemptionNext, addRedemption, cancelRedemption,
            rejectRedemption, RequestRedemption, CancelRequest, RejectRequest, commitVars
    <2> QED BY <2>1 DEF MoveStep
  <1>4. CASE AdminNext
    <2>1. CASE \E n \in DOMAIN TermChanges : \E v \in TermChanges[n] : setTerm(n, v)
      BY <1>s, <2>1 DEF setTerm, commitVars, redemptionVars
    <2>2. CASE pauseTokens \/ unpauseTokens
      BY <2>2 DEF pauseTokens, unpauseTokens, PauseStep, commitVars, redemptionVars
    <2> QED BY <1>4, <2>1, <2>2 DEF AdminNext
  <1>5. CASE TokenNext
    <2>1. ASSUME TokenUnchanged
          PROVE  UNCHANGED <<totalCommittedLp, totalCommittedGp, totalRedemptions>>
      BY <2>1 DEF TokenUnchanged, commitVars, redemptionVars
    <2>2. ASSUME NEW k \in TokenNames, NEW a \in Holders, payFees(k, a)
          PROVE  CalmStep
      <3>1. tokens' = [tokens EXCEPT ![k] = FeesSettled(tokens[k], a)] /\ TokenUnchanged
        BY <2>2 DEF payFees
      <3> QED BY <1>c, <1>t, <2>1, <3>1, CalmCalls
    <2>3. ASSUME NEW k \in TokenNames, NEW a \in Holders, claimAllDistributions(k, a)
          PROVE  CalmStep
      <3>1. tokens' = [tokens EXCEPT ![k] = ClaimsTaken(tokens[k], a)] /\ TokenUnchanged
        BY <2>3 DEF claimAllDistributions
      <3> QED BY <1>c, <1>t, <2>1, <3>1, CalmCalls
    <2>4. ASSUME NEW w \in Waivers, markFeesAsPaidUpToID(w.token, w.upToId, w.accounts)
          PROVE  CalmStep
      <3>1. /\ tokens' = [tokens EXCEPT ![w.token] =
                             FeesMarked(tokens[w.token], w.upToId, w.accounts)]
            /\ TokenUnchanged
        BY <2>4 DEF markFeesAsPaidUpToID
      <3>2. w.token \in TokenNames
        OBVIOUS
      <3> QED BY <1>c, <1>t, <2>1, <3>1, <3>2, CalmCalls
    <2> QED BY <1>5, <2>2, <2>3, <2>4 DEF TokenNext, MoveStep
  <1>6. CASE EnvironmentNext
    BY <1>6, <1>s DEF EnvironmentNext, TimePasses, ComplianceChanges, SystemUnchanged,
                      commitVars, redemptionVars
  <1>7. CASE UNCHANGED vars
    BY <1>7, <1>s DEF vars, commitVars, redemptionVars
  <1> QED BY <1>1, <1>2, <1>3, <1>4, <1>5, <1>6, <1>7 DEF Next

\* What each move changes, and under which checks of the tokens it moves.
LEMMA ApproveCommitsMoves ==
    ASSUME TypeOK, NEW S \in SUBSET Accounts, approveCommits(S)
    PROVE  /\ \A a \in S : MayMint("lpCommit", a)
           /\ tokens'["lpCommit"]
                = MintedToEach(tokens["lpCommit"], S, CommitTokens(S))
           /\ \A l \in TokenNames \ {"lpCommit"} : tokens'[l] = tokens[l]
           /\ Approved(S) \in Nat
           /\ totalCommittedLp' = totalCommittedLp + Approved(S)
           /\ UNCHANGED <<totalCommittedGp, totalRedemptions, cash, distVars>>
  <1>1. /\ \A a \in S : MayMint("lpCommit", a)
        /\ tokens' = [tokens EXCEPT !["lpCommit"] =
                         MintedToEach(tokens["lpCommit"], S, CommitTokens(S))]
    BY Zenon DEF approveCommits
  <1>2. /\ Approved(S) \in Nat
        /\ totalCommittedLp' = totalCommittedLp + Approved(S)
        /\ UNCHANGED <<totalCommittedGp, totalRedemptions, cash, distVars>>
    BY Zenon DEF approveCommits, ApproveLpCommitments, IsUint, redemptionVars
  <1>3. TokensType /\ "lpCommit" \in TokenNames
    BY TypeParts DEF TokenNames
  <1> DEFINE t == MintedToEach(tokens["lpCommit"], S, CommitTokens(S))
  <1>4. tokens' = [tokens EXCEPT !["lpCommit"] = t]
    BY <1>1
  <1> HIDE DEF t
  <1>5. tokens'["lpCommit"] = t /\ \A l \in TokenNames \ {"lpCommit"} : tokens'[l] = tokens[l]
    BY <1>3, <1>4, OneToken
  <1> QED BY <1>1, <1>2, <1>5 DEF t

LEMMA IssueGpCommitMoves ==
    ASSUME TypeOK, NEW a \in Accounts, NEW n \in Nat, issueGpCommit(a, n)
    PROVE  /\ MayMint("gpCommit", a)
           /\ tokens'["gpCommit"] = Minted(tokens["gpCommit"], a, n)
           /\ \A l \in TokenNames \ {"gpCommit"} : tokens'[l] = tokens[l]
           /\ totalCommittedGp' = totalCommittedGp + n
           /\ UNCHANGED <<totalCommittedLp, totalRedemptions, cash, distVars>>
  <1>1. /\ MayMint("gpCommit", a)
        /\ tokens' = [tokens EXCEPT !["gpCommit"] = Minted(tokens["gpCommit"], a, n)]
        /\ totalCommittedGp' = totalCommittedGp + n
        /\ UNCHANGED <<totalCommittedLp, totalRedemptions, cash, distVars>>
    BY DEF issueGpCommit, AddGpCommitment, redemptionVars
  <1>2. TokensType /\ "gpCommit" \in TokenNames
    BY TypeParts DEF TokenNames
  <1> QED BY <1>1, <1>2, OneToken

LEMMA CapitalCallDoneMoves ==
    ASSUME TypeOK, NEW c \in CallIds, NEW a \in Accounts, NEW p \in Nat \ {0},
           capitalCallDone(c, a, p)
    PROVE  /\ \E type \in AccountTypes, n \in Nat :
                /\ MayBurn(tokens[CommitToken(type)], compliant, a, n)
                /\ MayMint(FundTokenOf(type), a)
                /\ tokens'[CommitToken(type)] = Burned(tokens[CommitToken(type)], a, n)
                /\ tokens'[FundTokenOf(type)] = Minted(tokens[FundTokenOf(type)], a, n)
                /\ \A l \in TokenNames \ {CommitToken(type), FundTokenOf(type)} :
                      tokens'[l] = tokens[l]
           /\ UNCHANGED <<totalCommittedLp, totalCommittedGp, totalRedemptions, cash, distVars>>
  <1> DEFINE acc  == accountCapitalCalls[a][c]
             type == acc.accountType
             n    == acc.amount \div p
             ct   == CommitToken(type)
             ft   == FundTokenOf(type)
  <1>1. TokensType /\ acc \in AccountCapitalCall
    BY TypeParts DEF CallTypeOK
  <1>2. n \in Nat /\ type \in AccountTypes
    BY <1>1, QuotientIsNat DEF AccountCapitalCall
  <1>3. /\ MayBurn(tokens[ct], compliant, a, n)
        /\ MayMint(ft, a)
        /\ tokens' = Converted(tokens, type, a, n)
        /\ UNCHANGED <<totalCommittedLp, totalCommittedGp, totalRedemptions, cash, distVars>>
    BY DEF capitalCallDone, commitVars, redemptionVars
  <1> HIDE DEF type, n
  <1>4. ct \in TokenNames /\ ft \in TokenNames /\ ct # ft
    BY DEF CommitToken, FundTokenOf, TokenNames
  <1>5. tokens' = [tokens EXCEPT ![ct] = Burned(tokens[ct], a, n),
                                 ![ft] = Minted(tokens[ft], a, n)]
    BY <1>1, <1>3, <1>4 DEF Converted, TokensType
  <1> DEFINE t == Burned(tokens[ct], a, n)
             u == Minted(tokens[ft], a, n)
  <1>6. /\ tokens'[ct] = t
        /\ tokens'[ft] = u
        /\ \A l \in TokenNames \ {ct, ft} : tokens'[l] = tokens[l]
    <2> HIDE DEF t, u, ct, ft
    <2> QED BY <1>1, <1>4, <1>5 DEF TokensType, t, u
  <1> QED BY <1>2, <1>3, <1>6

LEMMA ApproveRedemptionMoves ==
    ASSUME TypeOK, NEW a \in Accounts, approveRedemption(a)
    PROVE  \E n \in Nat :
              /\ MayBurn(tokens["lpFund"], compliant, a, n)
              /\ tokens'["lpFund"] = Burned(tokens["lpFund"], a, n)
              /\ \A l \in TokenNames \ {"lpFund"} : tokens'[l] = tokens[l]
              /\ totalRedemptions' = totalRedemptions + n
              /\ UNCHANGED <<totalCommittedLp, totalCommittedGp, cash, distVars>>
  <1> DEFINE n == redemptions[a].amount
  <1>1. n \in Nat /\ TokensType /\ "lpFund" \in TokenNames
    BY TypeParts DEF RedemptionTypeOK, RedemptionData, TokenNames
  <1>2. /\ MayBurn(tokens["lpFund"], compliant, a, n)
        /\ tokens' = [tokens EXCEPT !["lpFund"] = Burned(tokens["lpFund"], a, n)]
        /\ totalRedemptions' = totalRedemptions + n
        /\ UNCHANGED <<totalCommittedLp, totalCommittedGp, cash, distVars>>
    BY DEF approveRedemption, ApproveRequest, commitVars
  <1> HIDE DEF n
  <1> QED BY <1>1, <1>2, OneToken

LEMMA TransferMoves ==
    ASSUME TypeOK, NEW k \in TokenNames, NEW a \in Accounts, NEW b \in Accounts,
           NEW n \in Nat, transfer(k, a, b, n)
    PROVE  /\ MayMove(tokens[k], compliant, FALSE, {a}, {b})
           /\ tokens'[k] = Transferred(tokens[k], a, b, n)
           /\ \A l \in TokenNames \ {k} : tokens'[l] = tokens[l]
           /\ UNCHANGED <<totalCommittedLp, totalCommittedGp, totalRedemptions, cash, distVars>>
  <1>1. /\ MayMove(tokens[k], compliant, FALSE, {a}, {b})
        /\ tokens' = [tokens EXCEPT ![k] = Transferred(tokens[k], a, b, n)]
        /\ UNCHANGED <<totalCommittedLp, totalCommittedGp, totalRedemptions, cash, distVars>>
    BY DEF transfer, TokenUnchanged, commitVars, redemptionVars
  <1> QED BY <1>1, TypeParts, OneToken

-----------------------------------------------------------------------------
(* GP commitments and GP tokens.                                           *)

GpSupply == tokens["gpCommit"].totalSupply + tokens["gpFund"].totalSupply

\* Whatever moves GP tokens keeps their supply in step with the commitments.
LEMMA GpSupplyStep ==
    ASSUME TypeOK, [Next]_vars
    PROVE  GpSupply' - totalCommittedGp' = GpSupply - totalCommittedGp
  <1> USE FundAssumption
  <1>t. \A k \in TokenNames : tokens[k] \in Ledger /\ tokens[k].totalSupply \in Nat
    BY TypeParts DEF TokensType, Ledger
  <1>n. /\ tokens["gpCommit"].totalSupply \in Nat /\ tokens["gpFund"].totalSupply \in Nat
        /\ totalCommittedGp \in Nat
    BY <1>t, TypeParts DEF TokenNames, CommitTypeOK
  <1>s. ASSUME tokens'["gpCommit"].totalSupply = tokens["gpCommit"].totalSupply,
               tokens'["gpFund"].totalSupply = tokens["gpFund"].totalSupply,
               totalCommittedGp' = totalCommittedGp
        PROVE  GpSupply' - totalCommittedGp' = GpSupply - totalCommittedGp
    BY <1>s DEF GpSupply
  <1>1. CASE CalmStep
    BY <1>1, <1>s DEF CalmStep, Calm, TokenNames
  <1>2. CASE PauseStep
    <2>1. \A k \in TokenNames : tokens'[k].totalSupply = tokens[k].totalSupply
      BY <1>2, <1>t DEF PauseStep, Ledger
    <2> QED BY <1>2, <1>s, <2>1 DEF PauseStep, TokenNames
  <1>3. ASSUME NEW S \in SUBSET Lps, approveCommits(S)
        PROVE  GpSupply' - totalCommittedGp' = GpSupply - totalCommittedGp
    BY <1>3, <1>s, ApproveCommitsMoves DEF TokenNames
  <1>4. ASSUME NEW a \in Gps, NEW n \in GpCommitAmounts, issueGpCommit(a, n)
        PROVE  GpSupply' - totalCommittedGp' = GpSupply - totalCommittedGp
    <2>1. /\ tokens'["gpCommit"] = Minted(tokens["gpCommit"], a, n)
          /\ tokens'["gpFund"] = tokens["gpFund"]
          /\ totalCommittedGp' = totalCommittedGp + n
          /\ n \in Nat /\ a \in Accounts
      BY <1>4, IssueGpCommitMoves DEF TokenNames
    <2>2. Minted(tokens["gpCommit"], a, n).totalSupply = tokens["gpCommit"].totalSupply + n
      BY <1>t, <2>1, MintedMoved DEF TokenNames
    <2> QED BY <1>n, <2>1, <2>2 DEF GpSupply
  <1>5. ASSUME NEW c \in CallIds, NEW a \in Accounts, NEW p \in CallPrices,
               capitalCallDone(c, a, p)
        PROVE  GpSupply' - totalCommittedGp' = GpSupply - totalCommittedGp
    <2>1. UNCHANGED totalCommittedGp
      BY <1>5, CapitalCallDoneMoves
    <2>2. PICK type \in AccountTypes, n \in Nat :
            /\ tokens'[CommitToken(type)] = Burned(tokens[CommitToken(type)], a, n)
            /\ tokens'[FundTokenOf(type)] = Minted(tokens[FundTokenOf(type)], a, n)
            /\ \A l \in TokenNames \ {CommitToken(type), FundTokenOf(type)} :
                  tokens'[l] = tokens[l]
      BY <1>5, CapitalCallDoneMoves
    <2>3. CASE type = "GP"
      <3>1. /\ tokens'["gpCommit"] = Burned(tokens["gpCommit"], a, n)
            /\ tokens'["gpFund"] = Minted(tokens["gpFund"], a, n)
        BY <2>2, <2>3 DEF CommitToken, FundTokenOf
      <3>2. Burned(tokens["gpCommit"], a, n).totalSupply = tokens["gpCommit"].totalSupply - n
        BY <1>t, BurnedMoved DEF TokenNames
      <3>3. Minted(tokens["gpFund"], a, n).totalSupply = tokens["gpFund"].totalSupply + n
        BY <1>t, MintedMoved DEF TokenNames
      <3> QED BY <1>n, <2>1, <3>1, <3>2, <3>3 DEF GpSupply
    <2>4. CASE type = "LP"
      BY <1>s, <2>1, <2>2, <2>4 DEF CommitToken, FundTokenOf, TokenNames
    <2> QED BY <2>3, <2>4 DEF AccountTypes
  <1>6. ASSUME NEW a \in Redeemers, approveRedemption(a)
        PROVE  GpSupply' - totalCommittedGp' = GpSupply - totalCommittedGp
    BY <1>6, <1>s, ApproveRedemptionMoves DEF TokenNames
  <1>7. ASSUME NEW k \in TokenNames, NEW a \in Holders, NEW b \in Accounts,
               NEW n \in TransferAmounts, transfer(k, a, b, n)
        PROVE  GpSupply' - totalCommittedGp' = GpSupply - totalCommittedGp
    <2>1. /\ tokens'[k] = Transferred(tokens[k], a, b, n)
          /\ \A l \in TokenNames \ {k} : tokens'[l] = tokens[l]
          /\ UNCHANGED totalCommittedGp
      BY <1>7, TransferMoves
    <2>2. Transferred(tokens[k], a, b, n).totalSupply = tokens[k].totalSupply
      BY <1>t, TransferredMoved
    <2>3. \A l \in TokenNames : tokens'[l].totalSupply = tokens[l].totalSupply
      BY <2>1, <2>2
    <2> QED BY <1>s, <2>1, <2>3 DEF TokenNames
  <1> QED BY <1>1, <1>2, <1>3, <1>4, <1>5, <1>6, <1>7, StepKinds DEF MoveStep

\* Every GP commitment is held as commit tokens or, once called, as fund
\* tokens: capitalCallDone exchanges them one for one, even when a call is
\* settled twice, under any price, or after the account committed again.
THEOREM GpTokensAccounted == Spec => []GpTokensMatchCommitments
  <1> DEFINE IInv == TypeOK /\ GpTokensMatchCommitments
  <1>1. Init => IInv
    BY InitType DEF Init, CommitInit, TokenNames, Deployed, GpTokensMatchCommitments
  <1>2. IInv /\ [Next]_vars => IInv'
    <2> SUFFICES ASSUME IInv, [Next]_vars PROVE GpTokensMatchCommitments'
      BY NextType
    <2>1. /\ GpSupply \in Nat /\ totalCommittedGp \in Nat
          /\ GpSupply' \in Nat /\ totalCommittedGp' \in Nat
      <3>1. \A k \in TokenNames : tokens[k].totalSupply \in Nat
        BY TypeParts DEF TokensType, Ledger
      <3>2. \A k \in TokenNames : tokens'[k].totalSupply \in Nat
        BY NextType, TypePartsNext DEF TokensType, Ledger
      <3>3. totalCommittedGp \in Nat /\ totalCommittedGp' \in Nat
        BY NextType, TypeParts, TypePartsNext DEF CommitTypeOK
      <3> QED BY <3>1, <3>2, <3>3 DEF GpSupply, TokenNames
    <2>2. GpSupply' - totalCommittedGp' = GpSupply - totalCommittedGp
      BY GpSupplyStep
    <2> QED BY <2>1, <2>2 DEF GpTokensMatchCommitments, GpSupply
  <1> QED BY <1>1, <1>2, PTL DEF Spec

-----------------------------------------------------------------------------
(* Who may gain tokens, and who may lose commit tokens.                    *)

\* The flags of a token stay as they are.
Steady(t, u) ==
    /\ u.isCommitToken = t.isCommitToken
    /\ u.paused = t.paused

\* Balances stay, or grow for compliant accounts only and not under a pause.
Guarded(t, u) ==
    \/ u.balances = t.balances
    \/ /\ ~ t.paused
       /\ \A a \in Accounts : u.balances[a] > t.balances[a] => a \in compliant

\* What each kind of call of the fund or of a holder does to one ledger.
LEMMA MintGuarded ==
    ASSUME NEW t \in Ledger, NEW a \in Accounts, NEW n \in Nat,
           MayMove(t, compliant, TRUE, {}, {a})
    PROVE  Steady(t, Minted(t, a, n)) /\ Guarded(t, Minted(t, a, n))
  <1>1. t.balances \in [Accounts -> Nat]
    BY DEF Ledger
  <1>2. \A c \in Accounts : Minted(t, a, n).balances[c] > t.balances[c] => c = a
    BY <1>1, MintedBalances
  <1>3. a \in compliant /\ ~ t.paused
    BY DEF MayMove
  <1>4. Guarded(t, Minted(t, a, n))
    BY <1>2, <1>3 DEF Guarded
  <1>5. Steady(t, Minted(t, a, n))
    BY MintedMoved DEF Moved, Steady
  <1> QED BY <1>4, <1>5

LEMMA BurnGuarded ==
    ASSUME NEW t \in Ledger, NEW a \in Accounts, NEW n \in Nat,
           MayBurn(t, compliant, a, n)
    PROVE  Steady(t, Burned(t, a, n)) /\ Guarded(t, Burned(t, a, n))
  <1>1. t.balances \in [Accounts -> Nat]
    BY DEF Ledger
  <1>2. \A c \in Accounts : ~ (Burned(t, a, n).balances[c] > t.balances[c])
    BY <1>1, BurnedBalances
  <1>3. ~ t.paused
    BY DEF MayBurn, MayMove
  <1>4. Guarded(t, Burned(t, a, n))
    BY <1>2, <1>3 DEF Guarded
  <1>5. Steady(t, Burned(t, a, n))
    BY BurnedMoved DEF Moved, Steady
  <1> QED BY <1>4, <1>5

LEMMA TransferGuarded ==
    ASSUME NEW t \in Ledger, NEW a \in Accounts, NEW b \in Accounts, NEW n \in Nat,
           NEW byTokenAdmin, MayMove(t, compliant, byTokenAdmin, {a}, {b})
    PROVE  Steady(t, Transferred(t, a, b, n)) /\ Guarded(t, Transferred(t, a, b, n))
  <1>1. \A c \in Accounts : Transferred(t, a, b, n).balances[c] > t.balances[c] => c = b
    BY TransferredBalances
  <1>2. b \in compliant /\ ~ t.paused
    BY DEF MayMove
  <1>3. Guarded(t, Transferred(t, a, b, n))
    BY <1>1, <1>2 DEF Guarded
  <1>4. Steady(t, Transferred(t, a, b, n))
    BY TransferredMoved DEF Moved, Steady
  <1> QED BY <1>3, <1>4

LEMMA MintedToEachGuarded ==
    ASSUME NEW t \in Ledger, NEW S \in SUBSET Accounts, NEW amounts,
           \A a \in S : MayMove(t, compliant, TRUE, {}, {a})
    PROVE  Guarded(t, MintedToEach(t, S, amounts)) \/ S = {}
  <1>1. t.balances \in [Accounts -> Nat]
    BY DEF Ledger
  <1>2. \A a \in Accounts \ S : MintedToEach(t, S, amounts).balances[a] = t.balances[a]
    BY MintedToEachMoved
  <1>3. \A a \in S : a \in compliant /\ ~ t.paused
    BY DEF MayMove
  <1> QED BY <1>1, <1>2, <1>3 DEF Guarded

\* Every transaction but pauseTokens and unpauseTokens leaves the flags of all
\* tokens alone, and whoever gains by it is compliant.
LEMMA StepGuarded ==
    ASSUME TypeOK, [Next]_vars
    PROVE  /\ PauseStep \/ \A k \in TokenNames : Steady(tokens[k], tokens'[k])
           /\ \A k \in TokenNames : Guarded(tokens[k], tokens'[k])
  <1> DEFINE G(k) == Steady(tokens[k], tokens'[k]) /\ Guarded(tokens[k], tokens'[k])
             P == /\ PauseStep \/ \A k \in TokenNames : Steady(tokens[k], tokens'[k])
                  /\ \A k \in TokenNames : Guarded(tokens[k], tokens'[k])
  <1> USE FundAssumption
  <1>t. \A k \in TokenNames : tokens[k] \in Ledger
    BY TypeParts DEF TokensType
  <1>c. \A t, u : Calm(t, u) => Steady(t, u) /\ Guarded(t, u)
    BY DEF Calm, Steady, Guarded
  <1>m. \A t, u : Moved(t, u) => Steady(t, u)
    BY DEF Moved, Steady
  <1>s. ASSUME NEW k \in TokenNames, tokens'[k] = tokens[k] PROVE G(k)
    BY <1>s DEF Steady, Guarded
  <1>g. ASSUME \A k \in TokenNames : G(k) PROVE P
    BY <1>g
  <1>1. CASE CalmStep
    BY <1>1, <1>c, <1>g DEF CalmStep
  <1>2. CASE PauseStep
    <2>1. \A k \in TokenNames : tokens'[k].balances = tokens[k].balances
      BY <1>2, <1>t DEF PauseStep, Ledger
    <2> QED BY <1>2, <2>1 DEF Guarded
  <1>3. ASSUME NEW S \in SUBSET Lps, approveCommits(S) PROVE P
    <2> DEFINE t == tokens["lpCommit"]
               n == CommitTokens(S)
    <2>1. /\ \A a \in S : MayMint("lpCommit", a)
          /\ tokens'["lpCommit"] = MintedToEach(t, S, n)
          /\ \A l \in TokenNames \ {"lpCommit"} : tokens'[l] = tokens[l]
          /\ t \in Ledger /\ S \subseteq Accounts
      BY <1>3, <1>t, ApproveCommitsMoves DEF TokenNames
    <2> HIDE DEF n
    <2>2. Steady(t, MintedToEach(t, S, n))
      BY <1>m, <2>1, MintedToEachMoved
    <2>3. Guarded(t, MintedToEach(t, S, n))
      <3>1. CASE S # {}
        BY <2>1, <3>1, MintedToEachGuarded DEF MayMint
      <3>2. CASE S = {}
        <4>1. \A a \in Accounts : MintedToEach(t, S, n).balances[a] = t.balances[a]
          BY <2>1, <3>2, MintedToEachMoved
        <4>2. t.balances \in [Accounts -> Nat]
          BY <2>1 DEF Ledger
        <4>3. /\ DOMAIN MintedToEach(t, S, n).balances = Accounts
              /\ MintedToEach(t, S, n).balances
                   = [a \in Accounts |-> MintedToEach(t, S, n).balances[a]]
          <5>1. MintedToEach(t, S, n) \in Ledger
            BY <1>3, <2>1, NextType, TypePartsNext DEF TokensType, TokenNames
          <5> QED BY <5>1 DEF Ledger
        <4>4. MintedToEach(t, S, n).balances = t.balances
          BY <4>1, <4>2, <4>3
        <4> QED BY <4>4 DEF Guarded
      <3> QED BY <3>1, <3>2
    <2>4. \A k \in TokenNames : G(k)
      BY <1>s, <2>1, <2>2, <2>3
    <2> QED BY <1>g, <2>4
  <1>4. ASSUME NEW a \in Gps, NEW n \in GpCommitAmounts, issueGpCommit(a, n) PROVE P
    <2> DEFINE t == tokens["gpCommit"]
    <2>1. /\ MayMove(t, compliant, TRUE, {}, {a})
          /\ tokens'["gpCommit"] = Minted(t, a, n)
          /\ \A l \in TokenNames \ {"gpCommit"} : tokens'[l] = tokens[l]
          /\ t \in Ledger /\ a \in Accounts /\ n \in Nat
      BY <1>4, <1>t, IssueGpCommitMoves DEF TokenNames, MayMint
    <2>2. Steady(t, Minted(t, a, n)) /\ Guarded(t, Minted(t, a, n))
      BY <2>1, MintGuarded
    <2>3. \A k \in TokenNames : G(k)
      BY <1>s, <2>1, <2>2
    <2> QED BY <1>g, <2>3
  <1>5. ASSUME NEW c \in CallIds, NEW a \in Accounts, NEW p \in CallPrices,
               capitalCallDone(c, a, p)
        PROVE  P
    <2>1. PICK type \in AccountTypes, n \in Nat :
            /\ MayBurn(tokens[CommitToken(type)], compliant, a, n)
            /\ MayMint(FundTokenOf(type), a)
            /\ tokens'[CommitToken(type)] = Burned(tokens[CommitToken(type)], a, n)
            /\ tokens'[FundTokenOf(type)] = Minted(tokens[FundTokenOf(type)], a, n)
            /\ \A l \in TokenNames \ {CommitToken(type), FundTokenOf(type)} :
                  tokens'[l] = tokens[l]
      BY <1>5, CapitalCallDoneMoves
    <2> DEFINE ct == CommitToken(type)
               ft == FundTokenOf(type)
    <2>2. ct \in TokenNames /\ ft \in TokenNames
      BY DEF CommitToken, FundTokenOf, TokenNames, AccountTypes
    <2> DEFINE t == tokens[ct]
               u == tokens[ft]
    <2>6. t \in Ledger /\ u \in Ledger
      BY <1>t, <2>2
    <2>7. MayBurn(t, compliant, a, n) /\ MayMove(u, compliant, TRUE, {}, {a})
      BY <2>1 DEF MayMint
    <2> HIDE DEF t, u
    <2>8. Steady(t, Burned(t, a, n)) /\ Guarded(t, Burned(t, a, n))
      BY <2>6, <2>7, BurnGuarded
    <2>9. Steady(u, Minted(u, a, n)) /\ Guarded(u, Minted(u, a, n))
      BY <2>6, <2>7, MintGuarded
    <2> USE DEF t, u
    <2>3. G(ct)
      BY <2>1, <2>8, Zenon
    <2>4. G(ft)
      BY <2>1, <2>9, Zenon
    <2>5. \A k \in TokenNames : G(k)
      BY <1>s, <2>1, <2>3, <2>4
    <2> QED BY <1>g, <2>5
  <1>6. ASSUME NEW a \in Redeemers, approveRedemption(a) PROVE P
    <2> DEFINE t == tokens["lpFund"]
    <2>1. PICK n \in Nat :
            /\ MayBurn(t, compliant, a, n)
            /\ tokens'["lpFund"] = Burned(t, a, n)
            /\ \A l \in TokenNames \ {"lpFund"} : tokens'[l] = tokens[l]
      BY <1>6, ApproveRedemptionMoves
    <2>2. t \in Ledger /\ a \in Accounts
      BY <1>t DEF TokenNames
    <2>3. Steady(t, Burned(t, a, n)) /\ Guarded(t, Burned(t, a, n))
      BY <2>1, <2>2, BurnGuarded
    <2>4. \A k \in TokenNames : G(k)
      BY <1>s, <2>1, <2>3
    <2> QED BY <1>g, <2>4
  <1>7. ASSUME NEW k \in TokenNames, NEW a \in Holders, NEW b \in Accounts,
               NEW n \in TransferAmounts, transfer(k, a, b, n)
        PROVE  P
    <2> DEFINE t == tokens[k]
    <2>1. /\ MayMove(t, compliant, FALSE, {a}, {b})
          /\ tokens'[k] = Transferred(t, a, b, n)
          /\ \A l \in TokenNames \ {k} : tokens'[l] = tokens[l]
          /\ t \in Ledger /\ a \in Accounts /\ n \in Nat
      BY <1>7, <1>t, TransferMoves
    <2>2. Steady(t, Transferred(t, a, b, n)) /\ Guarded(t, Transferred(t, a, b, n))
      BY <2>1, TransferGuarded
    <2>3. \A l \in TokenNames : G(l)
      BY <1>s, <2>1, <2>2
    <2> QED BY <1>g, <2>3
  <1> HIDE DEF P
  <1>8. ASSUME MoveStep PROVE P
    BY <1>3, <1>4, <1>5, <1>6, <1>7, <1>8, Zenon DEF MoveStep
  <1> USE DEF P
  <1> QED BY <1>1, <1>2, <1>8, StepKinds

\* Whichever transaction moves tokens, only an account that is compliant at
\* that moment gains any.
THEOREM GainsAreCompliant == Spec => OnlyCompliantGain
  <1>1. TypeOK /\ [Next]_vars
          => [\A k \in TokenNames, a \in Accounts :
                 tokens'[k].balances[a] > tokens[k].balances[a] => a \in compliant]_vars
    <2> SUFFICES ASSUME TypeOK, [Next]_vars, NEW k \in TokenNames, NEW a \in Accounts,
                        tokens'[k].balances[a] > tokens[k].balances[a]
                 PROVE  a \in compliant
      OBVIOUS
    <2>1. Guarded(tokens[k], tokens'[k])
      BY StepGuarded
    <2>2. tokens[k].balances[a] \in Nat
      BY TypeParts DEF TokensType, Ledger
    <2> QED BY <2>1, <2>2 DEF Guarded
  <1> QED BY <1>1, InitType, NextType, PTL DEF Spec, OnlyCompliantGain

\* The tokens are paused and unpaused together, and the commit tokens are the
\* ones initialize deployed as such.
FlagInv ==
    /\ TypeOK
    /\ \A k, l \in TokenNames : tokens[k].paused = tokens[l].paused
    /\ \A k \in TokenNames :
          tokens[k].isCommitToken = (k \in {"gpCommit", "lpCommit"})

LEMMA FlagInvInit == Init => FlagInv
  <1> SUFFICES ASSUME Init PROVE FlagInv
    OBVIOUS
  <1>1. tokens = [k \in TokenNames |-> Deployed(k \in {"gpCommit", "lpCommit"})]
    BY DEF Init
  <1>2. ASSUME NEW k \in TokenNames
        PROVE  /\ tokens[k].paused = FALSE
               /\ tokens[k].isCommitToken = (k \in {"gpCommit", "lpCommit"})
    BY <1>1 DEF Deployed
  <1> QED BY <1>2, InitType DEF FlagInv

LEMMA FlagInvNext == FlagInv /\ [Next]_vars => FlagInv'
  <1> SUFFICES ASSUME FlagInv, [Next]_vars PROVE FlagInv'
    OBVIOUS
  <1>1. TypeOK /\ TypeOK'
    BY NextType DEF FlagInv
  <1>2. CASE \A k \in TokenNames : Steady(tokens[k], tokens'[k])
    BY <1>1, <1>2 DEF FlagInv, Steady
  <1>3. CASE PauseStep
    <2>1. PICK v \in BOOLEAN : \A k \in TokenNames :
             tokens'[k] = [tokens[k] EXCEPT !.paused = v]
      BY <1>3 DEF PauseStep
    <2>2. \A k \in TokenNames : tokens[k] \in Ledger
      BY <1>1, TypeParts DEF TokensType
    <2>3. \A k \in TokenNames :
             /\ tokens'[k].paused = v
             /\ tokens'[k].isCommitToken = tokens[k].isCommitToken
      BY <2>1, <2>2 DEF Ledger
    <2> QED BY <1>1, <2>3 DEF FlagInv
  <1> QED BY <1>1, <1>2, <1>3, StepGuarded

\* Once pauseTokens has run no call of anyone changes any balance of any of
\* the four tokens until unpauseTokens has.
THEOREM PauseFreezes == Spec => PausedMeansFrozen
  <1>1. FlagInv /\ [Next]_vars
          => [\A k, l \in TokenNames :
                 tokens[k].paused => tokens'[l].balances = tokens[l].balances]_vars
    <2> SUFFICES ASSUME FlagInv, [Next]_vars, NEW k \in TokenNames, NEW l \in TokenNames,
                        tokens[k].paused
                 PROVE  tokens'[l].balances = tokens[l].balances
      OBVIOUS
    <2>1. Guarded(tokens[l], tokens'[l]) /\ tokens[l].paused
      BY StepGuarded DEF FlagInv
    <2> QED BY <2>1 DEF Guarded
  <1> QED BY <1>1, FlagInvInit, FlagInvNext, PTL DEF Spec, PausedMeansFrozen

\* A transaction by which an account loses commit tokens is capitalCallDone for
\* that account: every other call of the fund mints them or leaves them alone,
\* and their holders cannot move them.
LEMMA ConversionStep ==
    ASSUME FlagInv, [Next]_vars, NEW b \in Accounts, NEW kind \in AccountTypes,
           tokens'[CommitToken(kind)].balances[b] < tokens[CommitToken(kind)].balances[b]
    PROVE  tokens'[FundTokenOf(kind)].balances[b] - tokens[FundTokenOf(kind)].balances[b]
             = tokens[CommitToken(kind)].balances[b] - tokens'[CommitToken(kind)].balances[b]
  <1> DEFINE k == CommitToken(kind)
             l == FundTokenOf(kind)
  <1> USE FundAssumption
  <1>k. k \in {"gpCommit", "lpCommit"} /\ k \in TokenNames /\ l \in TokenNames /\ k # l
    BY DEF CommitToken, FundTokenOf, TokenNames
  <1>t. TypeOK /\ \A j \in TokenNames : tokens[j] \in Ledger
    BY TypeParts DEF FlagInv, TokensType
  <1>b. \A j \in TokenNames : tokens[j].balances[b] \in Nat
    BY <1>t DEF Ledger
  <1>l. tokens'[k].balances[b] < tokens[k].balances[b]
    OBVIOUS
  <1>s. ASSUME tokens'[k].balances = tokens[k].balances PROVE FALSE
    BY <1>b, <1>k, <1>l, <1>s
  <1>1. CASE CalmStep
    BY <1>1, <1>k, <1>s DEF CalmStep, Calm
  <1>2. CASE PauseStep
    <2>1. tokens'[k].balances = tokens[k].balances
      BY <1>2, <1>k, <1>t DEF PauseStep, Ledger
    <2> QED BY <1>s, <2>1
  <1>3. ASSUME NEW S \in SUBSET Lps, approveCommits(S) PROVE FALSE
    <2> DEFINE t == tokens["lpCommit"]
               n == CommitTokens(S)
    <2>1. /\ tokens'["lpCommit"] = MintedToEach(t, S, n)
          /\ \A j \in TokenNames \ {"lpCommit"} : tokens'[j] = tokens[j]
          /\ t \in Ledger /\ S \subseteq Accounts
      BY <1>3, <1>t, ApproveCommitsMoves DEF TokenNames
    <2>2. \A a \in S : n[a] \in Nat
      BY <1>t, <2>1, TypeParts, QuotientIsNat DEF CommitTypeOK, Commit, CommitTokens
    <2> HIDE DEF n
    <2>3. CASE k = "lpCommit"
      <3>1. MintedToEach(t, S, n).balances[b] = t.balances[b] + n[b]
              \/ MintedToEach(t, S, n).balances[b] = t.balances[b]
        BY <2>1, MintedToEachMoved
      <3>2. b \in Accounts \ S => MintedToEach(t, S, n).balances[b] = t.balances[b]
        BY <2>1, MintedToEachMoved
      <3>3. t.balances[b] \in Nat
        BY <1>b, <1>k, <2>3
      <3>4. MintedToEach(t, S, n).balances[b] < t.balances[b]
        BY <1>l, <2>1, <2>3
      <3> QED BY <2>2, <3>1, <3>2, <3>3, <3>4
    <2>4. CASE k # "lpCommit"
      BY <1>k, <1>s, <2>1, <2>4
    <2> QED BY <2>3, <2>4
  <1>4. ASSUME NEW a \in Gps, NEW n \in GpCommitAmounts, issueGpCommit(a, n) PROVE FALSE
    <2> DEFINE t == tokens["gpCommit"]
    <2>1. /\ tokens'["gpCommit"] = Minted(t, a, n)
          /\ \A j \in TokenNames \ {"gpCommit"} : tokens'[j] = tokens[j]
          /\ t \in Ledger /\ a \in Accounts /\ n \in Nat
      BY <1>4, <1>t, IssueGpCommitMoves DEF TokenNames
    <2>2. CASE k = "gpCommit"
      <3>1. Minted(t, a, n).balances[b] = IF b = a THEN t.balances[b] + n ELSE t.balances[b]
        BY <2>1, MintedBalances
      <3>2. t.balances[b] \in Nat
        BY <1>b, <1>k, <2>2
      <3>3. Minted(t, a, n).balances[b] < t.balances[b]
        BY <1>l, <2>1, <2>2
      <3> QED BY <2>1, <3>1, <3>2, <3>3
    <2>3. CASE k # "gpCommit"
      BY <1>k, <1>s, <2>1, <2>3
    <2> QED BY <2>2, <2>3
  <1>5. ASSUME NEW c \in CallIds, NEW a \in Accounts, NEW p \in CallPrices,
               capitalCallDone(c, a, p)
        PROVE  tokens'[l].balances[b] - tokens[l].balances[b]
                 = tokens[k].balances[b] - tokens'[k].balances[b]
    <2>1. PICK type \in AccountTypes, n \in Nat :
            /\ tokens'[CommitToken(type)] = Burned(tokens[CommitToken(type)], a, n)
            /\ tokens'[FundTokenOf(type)] = Minted(tokens[FundTokenOf(type)], a, n)
            /\ \A j \in TokenNames \ {CommitToken(type), FundTokenOf(type)} :
                  tokens'[j] = tokens[j]
      BY <1>5, <1>t, CapitalCallDoneMoves
    <2>2. CASE type = kind
      <3> DEFINE t == tokens[k]
                 u == tokens[l]
      <3>1. /\ tokens'[k] = Burned(t, a, n) /\ tokens'[l] = Minted(u, a, n)
            /\ t \in Ledger /\ u \in Ledger
            /\ t.balances[b] \in Nat /\ u.balances[b] \in Nat
        BY <1>b, <1>k, <1>t, <2>1, <2>2
      <3> HIDE DEF t, u
      <3>2. Burned(t, a, n).balances[b] = IF b = a THEN t.balances[b] - n ELSE t.balances[b]
        BY <3>1, BurnedBalances
      <3>3. Minted(u, a, n).balances[b] = IF b = a THEN u.balances[b] + n ELSE u.balances[b]
        BY <3>1, MintedBalances
      <3>4. Minted(u, a, n).balances[b] - u.balances[b]
              = t.balances[b] - Burned(t, a, n).balances[b]
        BY <3>1, <3>2, <3>3
      <3> QED BY <3>1, <3>4 DEF t, u
    <2>3. CASE type # kind
      <3>1. k \notin {CommitToken(type), FundTokenOf(type)}
        BY <2>3 DEF AccountTypes, CommitToken, FundTokenOf
      <3> QED BY <1>k, <1>s, <2>1, <3>1
    <2> QED BY <2>2, <2>3
  <1>6. ASSUME NEW a \in Redeemers, approveRedemption(a) PROVE FALSE
    <2>1. \A j \in TokenNames \ {"lpFund"} : tokens'[j] = tokens[j]
      BY <1>6, <1>t, ApproveRedemptionMoves
    <2> QED BY <1>k, <1>s, <2>1
  <1>7. ASSUME NEW j \in TokenNames, NEW a \in Holders, NEW d \in Accounts,
               NEW n \in TransferAmounts, transfer(j, a, d, n)
        PROVE  FALSE
    <2>1. /\ MayMove(tokens[j], compliant, FALSE, {a}, {d})
          /\ \A i \in TokenNames \ {j} : tokens'[i] = tokens[i]
      BY <1>7, <1>t, TransferMoves
    <2>2. ~ tokens[j].isCommitToken
      BY <2>1 DEF MayMove
    <2>3. j # k
      BY <1>k, <2>2 DEF FlagInv
    <2> QED BY <1>k, <1>s, <2>1, <2>3
  <1>8. CASE MoveStep
    <2>1. ASSUME NEW c \in CallIds, NEW a \in Accounts, NEW p \in CallPrices,
                 capitalCallDone(c, a, p)
          PROVE  tokens'[l].balances[b] - tokens[l].balances[b]
                   = tokens[k].balances[b] - tokens'[k].balances[b]
      BY <1>5, <2>1
    <2> QED BY <1>3, <1>4, <1>6, <1>7, <1>8, <2>1, Zenon DEF MoveStep
  <1> QED BY <1>1, <1>2, <1>8, <1>t, StepKinds

\* Commit tokens change hands with nobody: an account loses them only to fund
\* tokens of its own, in the same transaction and the same number.
THEOREM CommitTokensConvert == Spec => CommitTokensOnlyConvert
  <1>1. FlagInv /\ [Next]_vars
          => [\A a \in Accounts, type \in AccountTypes :
                LET lost   == tokens[CommitToken(type)].balances[a]
                                - tokens'[CommitToken(type)].balances[a]
                    gained == tokens'[FundTokenOf(type)].balances[a]
                                - tokens[FundTokenOf(type)].balances[a]
                IN  lost > 0 => gained = lost]_vars
    <2> SUFFICES ASSUME FlagInv, [Next]_vars, NEW a \in Accounts, NEW type \in AccountTypes,
                        tokens[CommitToken(type)].balances[a]
                          - tokens'[CommitToken(type)].balances[a] > 0
                 PROVE  tokens'[FundTokenOf(type)].balances[a]
                          - tokens[FundTokenOf(type)].balances[a]
                          = tokens[CommitToken(type)].balances[a]
                              - tokens'[CommitToken(type)].balances[a]
      BY Zenon
    <2> DEFINE m == tokens[CommitToken(type)].balances[a]
               n == tokens'[CommitToken(type)].balances[a]
    <2>1. CommitToken(type) \in TokenNames
      BY DEF CommitToken, TokenNames
    <2>2. m \in Nat
      BY <2>1, TypeParts DEF FlagInv, TokensType, Ledger
    <2>3. n \in Nat
      BY <2>1, NextType, TypePartsNext DEF FlagInv, TokensType, Ledger
    <2>4. n < m
      <3> HIDE DEF m, n
      <3>1. m - n > 0
        BY DEF m, n
      <3> QED BY <2>2, <2>3, <3>1
    <2> QED BY <2>4, ConversionStep
  <1> QED BY <1>1, FlagInvInit, FlagInvNext, PTL DEF Spec, CommitTokensOnlyConvert

-----------------------------------------------------------------------------
(* LP commitments and LP tokens.                                           *)

LpSupply ==
    tokens["lpCommit"].totalSupply + tokens["lpFund"].totalSupply + totalRedemptions

\* The tokens minted for commitments, at the price, are not worth more.
LEMMA MintedWithinApproved ==
    ASSUME TypeOK, NEW S \in SUBSET Accounts
    PROVE  /\ SumFunctionOnSet(CommitTokens(S), S) \in Nat
           /\ price * SumFunctionOnSet(CommitTokens(S), S) <= Approved(S)
  <1> DEFINE g == [a \in S |-> lpCommitments[a].amount]
             f == CommitTokens(S)
  <1>1. price \in Nat \ {0} /\ IsFiniteSet(S)
    BY FundAssumption, AccountsAssumption, FS_Subset
  <1>2. \A a \in S : g[a] \in Nat
    BY TypeParts DEF CommitTypeOK, Commit
  <1>3. \A m \in Nat : m \div price \in Nat /\ price * (m \div price) <= m
    BY <1>1
  <1>4. \A a \in S : f[a] = g[a] \div price
    BY DEF CommitTokens
  <1>5. Approved(S) = SumFunctionOnSet(g, S)
    BY DEF Approved, SumFunction
  <1> HIDE DEF f, g
  <1>6. \A a \in S : f[a] \in Nat /\ g[a] \in Nat /\ price * f[a] <= 1 * g[a]
    BY <1>2, <1>3, <1>4
  <1>7. price * SumFunctionOnSet(f, S) <= 1 * SumFunctionOnSet(g, S)
    BY <1>1, <1>6, SumScaled
  <1>8. SumFunctionOnSet(f, S) \in Nat /\ SumFunctionOnSet(g, S) \in Nat
    BY <1>1, <1>6, SumType
  <1> QED BY <1>5, <1>7, <1>8 DEF f

\* A transaction changes what LP tokens stand for only by approving commitments.
LEMMA LpSupplyStep ==
    ASSUME TypeOK, [Next]_vars
    PROVE  \/ LpSupply' = LpSupply /\ totalCommittedLp' = totalCommittedLp
           \/ \E m, n \in Nat : /\ LpSupply' = LpSupply + m
                                /\ totalCommittedLp' = totalCommittedLp + n
                                /\ price * m <= n
  <1> DEFINE Same == LpSupply' = LpSupply /\ totalCommittedLp' = totalCommittedLp
  <1> USE FundAssumption
  <1>t. \A k \in TokenNames : tokens[k] \in Ledger /\ tokens[k].totalSupply \in Nat
    BY TypeParts DEF TokensType, Ledger
  <1>n. /\ tokens["lpCommit"].totalSupply \in Nat /\ tokens["lpFund"].totalSupply \in Nat
        /\ totalRedemptions \in Nat
    BY <1>t, TypeParts DEF TokenNames, RedemptionTypeOK
  <1>s. ASSUME tokens'["lpCommit"].totalSupply = tokens["lpCommit"].totalSupply,
               tokens'["lpFund"].totalSupply = tokens["lpFund"].totalSupply,
               totalCommittedLp' = totalCommittedLp, totalRedemptions' = totalRedemptions
        PROVE  Same
    BY <1>s DEF LpSupply
  <1>1. CASE CalmStep
    BY <1>1, <1>s DEF CalmStep, Calm, TokenNames
  <1>2. CASE PauseStep
    <2>1. \A k \in TokenNames : tokens'[k].totalSupply = tokens[k].totalSupply
      BY <1>2, <1>t DEF PauseStep, Ledger
    <2> QED BY <1>2, <1>s, <2>1 DEF PauseStep, TokenNames
  <1>3. ASSUME NEW S \in SUBSET Lps, approveCommits(S)
        PROVE  \E m, n \in Nat : /\ LpSupply' = LpSupply + m
                                 /\ totalCommittedLp' = totalCommittedLp + n
                                 /\ price * m <= n
    <2> DEFINE t == tokens["lpCommit"]
               f == CommitTokens(S)
               m == SumFunctionOnSet(f, S)
               n == Approved(S)
    <2>1. /\ tokens'["lpCommit"] = MintedToEach(t, S, f)
          /\ tokens'["lpFund"] = tokens["lpFund"]
          /\ totalRedemptions' = totalRedemptions
          /\ totalCommittedLp' = totalCommittedLp + n
          /\ n \in Nat /\ t \in Ledger
      BY <1>3, <1>t, ApproveCommitsMoves DEF TokenNames
    <2>2. m \in Nat /\ price * m <= n
      BY MintedWithinApproved
    <2> HIDE DEF f, n
    <2>3. MintedToEach(t, S, f).totalSupply = t.totalSupply + m
      BY <2>1, MintedToEachMoved
    <2> HIDE DEF m
    <2>4. LpSupply' = LpSupply + m
      BY <1>n, <2>1, <2>2, <2>3 DEF LpSupply
    <2> QED BY <2>1, <2>2, <2>4
  <1>4. ASSUME NEW a \in Gps, NEW n \in GpCommitAmounts, issueGpCommit(a, n) PROVE Same
    BY <1>4, <1>s, IssueGpCommitMoves DEF TokenNames
  <1>5. ASSUME NEW c \in CallIds, NEW a \in Accounts, NEW p \in CallPrices,
               capitalCallDone(c, a, p)
        PROVE  Same
    <2>1. UNCHANGED <<totalCommittedLp, totalRedemptions>>
      BY <1>5, CapitalCallDoneMoves
    <2>2. PICK type \in AccountTypes, n \in Nat :
            /\ tokens'[CommitToken(type)] = Burned(tokens[CommitToken(type)], a, n)
            /\ tokens'[FundTokenOf(type)] = Minted(tokens[FundTokenOf(type)], a, n)
            /\ \A l \in TokenNames \ {CommitToken(type), FundTokenOf(type)} :
                  tokens'[l] = tokens[l]
      BY <1>5, CapitalCallDoneMoves
    <2>3. CASE type = "LP"
      <3>1. /\ tokens'["lpCommit"] = Burned(tokens["lpCommit"], a, n)
            /\ tokens'["lpFund"] = Minted(tokens["lpFund"], a, n)
        BY <2>2, <2>3 DEF CommitToken, FundTokenOf
      <3>2. Burned(tokens["lpCommit"], a, n).totalSupply = tokens["lpCommit"].totalSupply - n
        BY <1>t, BurnedMoved DEF TokenNames
      <3>3. Minted(tokens["lpFund"], a, n).totalSupply = tokens["lpFund"].totalSupply + n
        BY <1>t, MintedMoved DEF TokenNames
      <3> QED BY <1>n, <2>1, <3>1, <3>2, <3>3 DEF LpSupply
    <2>4. CASE type = "GP"
      BY <1>s, <2>1, <2>2, <2>4 DEF CommitToken, FundTokenOf, TokenNames
    <2> QED BY <2>3, <2>4 DEF AccountTypes
  <1>6. ASSUME NEW a \in Redeemers, approveRedemption(a) PROVE Same
    <2>1. PICK n \in Nat :
            /\ tokens'["lpFund"] = Burned(tokens["lpFund"], a, n)
            /\ \A l \in TokenNames \ {"lpFund"} : tokens'[l] = tokens[l]
            /\ totalRedemptions' = totalRedemptions + n
            /\ UNCHANGED totalCommittedLp
      BY <1>6, ApproveRedemptionMoves
    <2>2. Burned(tokens["lpFund"], a, n).totalSupply = tokens["lpFund"].totalSupply - n
      BY <1>t, BurnedMoved DEF TokenNames
    <2>3. tokens'["lpCommit"] = tokens["lpCommit"]
      BY <2>1 DEF TokenNames
    <2> QED BY <1>n, <2>1, <2>2, <2>3 DEF LpSupply
  <1>7. ASSUME NEW k \in TokenNames, NEW a \in Holders, NEW b \in Accounts,
               NEW n \in TransferAmounts, transfer(k, a, b, n)
        PROVE  Same
    <2>1. /\ tokens'[k] = Transferred(tokens[k], a, b, n)
          /\ \A l \in TokenNames \ {k} : tokens'[l] = tokens[l]
          /\ UNCHANGED <<totalCommittedLp, totalRedemptions>>
      BY <1>7, TransferMoves
    <2>2. Transferred(tokens[k], a, b, n).totalSupply = tokens[k].totalSupply
      BY <1>t, TransferredMoved
    <2>3. \A l \in TokenNames : tokens'[l].totalSupply = tokens[l].totalSupply
      BY <2>1, <2>2
    <2> QED BY <1>s, <2>1, <2>3 DEF TokenNames
  <1>8. CASE MoveStep
    <2>1. CASE \E S \in SUBSET Lps : approveCommits(S)
      BY <1>3, <2>1
    <2>2. CASE ~ \E S \in SUBSET Lps : approveCommits(S)
      <3>1. Same
        <4> HIDE DEF Same
        <4> QED BY <1>4, <1>5, <1>6, <1>7, <1>8, <2>2, Zenon DEF MoveStep
      <3> QED BY <3>1
    <2> QED BY <2>1, <2>2
  <1> QED BY <1>1, <1>2, <1>8, StepKinds

\* LP tokens, with those redeemed, never stand for more than the approved
\* commitments they were minted for at the fund's price, however commitments
\* of one account are replaced, cancelled and approved again, and however often
\* a call is settled.
THEOREM LpTokensAccounted == Spec => []LpTokensWithinCommitments
  <1> DEFINE IInv == TypeOK /\ LpTokensWithinCommitments
  <1>1. Init => IInv
    <2> SUFFICES ASSUME Init PROVE LpTokensWithinCommitments
      BY InitType
    <2>1. /\ tokens["lpCommit"].totalSupply = 0 /\ tokens["lpFund"].totalSupply = 0
          /\ totalRedemptions = 0 /\ totalCommittedLp = 0
      BY DEF Init, CommitInit, RedemptionInit, TokenNames, Deployed
    <2> QED BY <2>1, FundAssumption DEF LpTokensWithinCommitments
  <1>2. IInv /\ [Next]_vars => IInv'
    <2> SUFFICES ASSUME IInv, [Next]_vars PROVE LpTokensWithinCommitments'
      BY NextType
    <2>1. price \in Nat /\ LpSupply \in Nat /\ totalCommittedLp \in Nat
      <3>1. \A k \in TokenNames : tokens[k].totalSupply \in Nat
        BY TypeParts DEF TokensType, Ledger
      <3>2. totalCommittedLp \in Nat /\ totalRedemptions \in Nat
        BY TypeParts DEF CommitTypeOK, RedemptionTypeOK
      <3> QED BY <3>1, <3>2, FundAssumption DEF LpSupply, TokenNames
    <2>2. price * LpSupply <= totalCommittedLp
      BY DEF LpTokensWithinCommitments, LpSupply
    <2>3. price * LpSupply' <= totalCommittedLp'
      <3>1. CASE LpSupply' = LpSupply /\ totalCommittedLp' = totalCommittedLp
        BY <2>2, <3>1
      <3>2. ASSUME NEW m \in Nat, NEW n \in Nat, LpSupply' = LpSupply + m,
                   totalCommittedLp' = totalCommittedLp + n, price * m <= n
            PROVE  price * LpSupply' <= totalCommittedLp'
        <4>1. price * (LpSupply + m) = price * LpSupply + price * m
          BY <2>1, Distributes
        <4>2. price * LpSupply \in Nat /\ price * m \in Nat
          BY <2>1, ProductType
        <4> QED BY <2>1, <2>2, <3>2, <4>1, <4>2
      <3> QED BY <3>1, <3>2, LpSupplyStep
    <2> QED BY <2>3 DEF LpTokensWithinCommitments, LpSupply
  <1> QED BY <1>1, <1>2, PTL DEF Spec

-----------------------------------------------------------------------------
(* The shares of a capital call.                                           *)

ApprovedAmounts ==
    [a \in Accounts |-> IF lpCommitments[a].status = "APPROVED"
                        THEN lpCommitments[a].amount ELSE 0]

GpAmounts == [a \in Accounts |-> gpCommitments[a].amount]

\* The totals cover what is on record as committed, although commit and
\* issueGpCommit replace the record of an account that committed before, and
\* an account that never committed has no record of a call.
CommitmentsCounted ==
    /\ SumFunctionOnSet(ApprovedAmounts, Accounts) <= totalCommittedLp
    /\ SumFunctionOnSet(GpAmounts, Accounts) <= totalCommittedGp
    /\ \A a \in Accounts \ (lpAccounts \cup gpAccounts), c \in CallIds :
          accountCapitalCalls[a][c].amount = 0

ShareInv == TypeOK /\ CommitmentsCounted

LEMMA AmountsType ==
    ASSUME CommitTypeOK
    PROVE  /\ \A a \in Accounts : /\ ApprovedAmounts[a] \in Nat
                                  /\ GpAmounts[a] \in Nat
           /\ SumFunctionOnSet(ApprovedAmounts, Accounts) \in Nat
           /\ SumFunctionOnSet(GpAmounts, Accounts) \in Nat
  <1>1. \A a \in Accounts : ApprovedAmounts[a] \in Nat /\ GpAmounts[a] \in Nat
    BY DEF CommitTypeOK, Commit, ApprovedAmounts, GpAmounts
  <1>2. IsFiniteSet(Accounts)
    BY AccountsAssumption
  <1> QED BY <1>1, <1>2, SumType

\* The transactions that touch none of this.
NoShares == UNCHANGED <<commitVars, accountCapitalCalls, capitalCalls>>

ShareStep ==
    \/ \E a \in Lps, n \in CommitAmounts : SetLpCommitment(a, n) /\ UNCHANGED callVars
    \/ \E a \in Lps : CancelLpCommitment(a) /\ UNCHANGED callVars
    \/ \E S \in SUBSET Lps : ApproveLpCommitments(S) /\ UNCHANGED callVars
    \/ \E a \in Gps, n \in GpCommitAmounts : AddGpCommitment(a, n) /\ UNCHANGED callVars
    \/ \E n \in CallAmounts : capitalCall(n)
    \/ \E c \in CallIds, a \in Accounts :
          /\ accountCapitalCalls' = [accountCapitalCalls EXCEPT ![a][c].isDone = TRUE]
          /\ UNCHANGED <<commitVars, capitalCalls>>

LEMMA ShareKinds == [Next]_vars => NoShares \/ ShareStep
  <1> SUFFICES ASSUME [Next]_vars PROVE NoShares \/ ShareStep
    OBVIOUS
  <1>1. CASE CommitmentNext
    <2>1. CASE \E a \in Lps, n \in CommitAmounts : commit(a, n) \/ addLpCommit(a, n)
      BY <2>1, Zenon DEF commit, addLpCommit, AddLpCommitment, ShareStep
    <2>2. CASE \E a \in Lps : cancelCommit(a)
      BY <2>2, Zenon DEF cancelCommit, ShareStep
    <2>3. CASE \E S \in SUBSET Lps : approveCommits(S)
      BY <2>3, Zenon DEF approveCommits, ShareStep
    <2>4. CASE \E a \in Gps, n \in GpCommitAmounts : issueGpCommit(a, n)
      BY <2>4, Zenon DEF issueGpCommit, ShareStep
    <2> QED BY <1>1, <2>1, <2>2, <2>3, <2>4 DEF CommitmentNext
  <1>2. CASE CapitalNext
    <2>1. CASE \E n \in CallAmounts : capitalCall(n)
      BY <2>1 DEF ShareStep
    <2>2. CASE \E c \in CallIds, a \in Accounts, p \in CallPrices : capitalCallDone(c, a, p)
      BY <2>2, Zenon DEF capitalCallDone, ShareStep
    <2>3. CASE chargeManagementFee
      BY <2>3 DEF chargeManagementFee, NoShares, callVars
    <2>4. CASE \E n \in DistAmounts, t \in Times : distribute(n, t)
      <3>1. UNCHANGED <<commitVars, callVars>>
        BY <2>4, Zenon DEF distribute
      <3> QED BY <3>1 DEF NoShares, callVars
    <2> QED BY <1>2, <2>1, <2>2, <2>3, <2>4 DEF CapitalNext
  <1>3. CASE RedemptionNext
    BY <1>3 DEF RedemptionNext, addRedemption, cancelRedemption, approveRedemption,
                rejectRedemption, NoShares, callVars
  <1>4. CASE AdminNext
    BY <1>4 DEF AdminNext, setTerm, pauseTokens, unpauseTokens, NoShares, callVars
  <1>5. CASE TokenNext
    BY <1>5 DEF TokenNext, payFees, claimAllDistributions, markFeesAsPaidUpToID,
                transfer, TokenUnchanged, NoShares, callVars
  <1>6. CASE EnvironmentNext
    BY <1>6 DEF EnvironmentNext, TimePasses, ComplianceChanges, SystemUnchanged, NoShares,
                callVars
  <1>7. CASE UNCHANGED vars
    BY <1>7 DEF vars, NoShares, callVars
  <1> QED BY <1>1, <1>2, <1>3, <1>4, <1>5, <1>6, <1>7 DEF Next

\* The LP side of a step that only lowers or keeps approved amounts.
LEMMA ApprovedFall ==
    ASSUME CommitTypeOK, CommitTypeOK',
           \A a \in Accounts : ApprovedAmounts'[a] <= ApprovedAmounts[a]
    PROVE  SumFunctionOnSet(ApprovedAmounts, Accounts)'
             <= SumFunctionOnSet(ApprovedAmounts, Accounts)
  <1>1. \A a \in Accounts : ApprovedAmounts[a] \in Nat
    BY AmountsType
  <1>2. \A a \in Accounts : ApprovedAmounts'[a] \in Nat
    BY DEF CommitTypeOK, Commit, ApprovedAmounts
  <1>3. IsFiniteSet(Accounts)
    BY AccountsAssumption
  <1> DEFINE f == ApprovedAmounts'
             g == ApprovedAmounts
  <1>4. \A a \in Accounts : f[a] \in Nat /\ g[a] \in Nat /\ f[a] <= g[a]
    BY <1>1, <1>2
  <1> HIDE DEF f, g
  <1>5. SumFunctionOnSet(f, Accounts) <= SumFunctionOnSet(g, Accounts)
    BY <1>3, <1>4, SumMonotone
  <1> QED BY <1>5 DEF f, g

\* approveCommits raises the approved amounts by what it adds to the total.
LEMMA ApprovedRise ==
    ASSUME CommitTypeOK, CommitTypeOK', NEW S \in SUBSET Accounts, ApproveLpCommitments(S)
    PROVE  SumFunctionOnSet(ApprovedAmounts, Accounts)'
             <= SumFunctionOnSet(ApprovedAmounts, Accounts) + Approved(S)
  <1> DEFINE f == ApprovedAmounts'
             g == ApprovedAmounts
             h == [a \in S |-> lpCommitments[a].amount]
  <1>1. /\ \A a \in S : lpCommitments[a].status = "PENDING"
        /\ lpCommitments' = [a \in Accounts |->
              IF a \in S THEN [lpCommitments[a] EXCEPT !.status = "APPROVED"]
              ELSE lpCommitments[a]]
    BY DEF ApproveLpCommitments
  <1>2. \A a \in Accounts : lpCommitments[a] \in Commit
    BY DEF CommitTypeOK
  <1>3. \A a \in S : f[a] = h[a]
    BY <1>1, <1>2 DEF ApprovedAmounts, Commit
  <1>4. \A a \in Accounts \ S : f[a] = g[a]
    BY <1>1, <1>2 DEF ApprovedAmounts, Commit
  <1>5. \A a \in Accounts : f[a] \in Nat /\ g[a] \in Nat
    BY <1>2, AmountsType DEF CommitTypeOK, Commit, ApprovedAmounts
  <1>6. IsFiniteSet(Accounts) /\ IsFiniteSet(S) /\ IsFiniteSet(Accounts \ S)
    BY AccountsAssumption, FS_Subset, FS_Difference
  <1>7. Approved(S) = SumFunctionOnSet(h, S)
    BY DEF Approved, SumFunction
  <1> HIDE DEF f, g, h
  <1>8. SumFunctionOnSet(f, Accounts)
          = SumFunctionOnSet(f, S) + SumFunctionOnSet(f, Accounts \ S)
    BY <1>5, <1>6, SumSplit
  <1>9. SumFunctionOnSet(f, S) = SumFunctionOnSet(h, S)
    BY <1>3, <1>6, SumSame
  <1>10. SumFunctionOnSet(f, Accounts \ S) = SumFunctionOnSet(g, Accounts \ S)
    BY <1>4, <1>6, SumSame
  <1>11. SumFunctionOnSet(g, Accounts \ S) <= SumFunctionOnSet(g, Accounts)
    BY <1>5, <1>6, SumSubset
  <1>12. /\ SumFunctionOnSet(f, S) \in Nat
         /\ SumFunctionOnSet(g, Accounts \ S) \in Nat
         /\ SumFunctionOnSet(g, Accounts) \in Nat
    BY <1>5, <1>6, SumType
  <1> QED BY <1>7, <1>8, <1>9, <1>10, <1>11, <1>12 DEF f, g

LEMMA ShareInvInit == Init => ShareInv
  <1> SUFFICES ASSUME Init PROVE CommitmentsCounted
    BY InitType DEF ShareInv
  <1>1. IsFiniteSet(Accounts)
    BY AccountsAssumption
  <1>2. \A a \in Accounts : ApprovedAmounts[a] = 0 /\ GpAmounts[a] = 0
    BY DEF Init, CommitInit, ApprovedAmounts, GpAmounts
  <1>3. /\ SumFunctionOnSet(ApprovedAmounts, Accounts) = 0
        /\ SumFunctionOnSet(GpAmounts, Accounts) = 0
    BY <1>1, <1>2, SumAllZero
  <1>4. \A a \in Accounts, c \in CallIds : accountCapitalCalls[a][c].amount = 0
    BY DEF Init, CallInit, AccountCall
  <1> QED BY <1>3, <1>4 DEF Init, CommitInit, CommitmentsCounted

LEMMA ShareInvNext == ShareInv /\ [Next]_vars => ShareInv'
  <1> SUFFICES ASSUME ShareInv, [Next]_vars PROVE CommitmentsCounted'
    BY NextType DEF ShareInv
  <1> USE FundAssumption
  <1>t. TypeOK /\ CommitTypeOK /\ CommitTypeOK' /\ CallTypeOK
    BY NextType, TypeParts, TypePartsNext DEF ShareInv
  <1>n. /\ totalCommittedLp \in Nat /\ totalCommittedGp \in Nat
        /\ SumFunctionOnSet(ApprovedAmounts, Accounts) \in Nat
        /\ SumFunctionOnSet(GpAmounts, Accounts) \in Nat
        /\ SumFunctionOnSet(ApprovedAmounts, Accounts) <= totalCommittedLp
        /\ SumFunctionOnSet(GpAmounts, Accounts) <= totalCommittedGp
    BY <1>t, AmountsType DEF CommitTypeOK, ShareInv, CommitmentsCounted
  <1>z. \A a \in Accounts \ (lpAccounts \cup gpAccounts), c \in CallIds :
           accountCapitalCalls[a][c].amount = 0
    BY DEF ShareInv, CommitmentsCounted
  <1>l. CommitTypeOK' => SumFunctionOnSet(ApprovedAmounts, Accounts)' \in Nat
    <2> SUFFICES ASSUME CommitTypeOK' PROVE SumFunctionOnSet(ApprovedAmounts', Accounts) \in Nat
      OBVIOUS
    <2>1. \A a \in Accounts : ApprovedAmounts'[a] \in Nat
      BY DEF CommitTypeOK, Commit, ApprovedAmounts
    <2> HIDE DEF ApprovedAmounts
    <2> QED BY <2>1, AccountsAssumption, SumType
  <1>g. ASSUME gpCommitments' = gpCommitments
        PROVE  SumFunctionOnSet(GpAmounts, Accounts)' = SumFunctionOnSet(GpAmounts, Accounts)
    BY <1>g DEF GpAmounts
  <1>1. CASE NoShares
    BY <1>1, <1>n, <1>z DEF NoShares, commitVars, CommitmentsCounted, ApprovedAmounts,
                            GpAmounts
  <1>2. ASSUME NEW a \in Lps, NEW n \in CommitAmounts, SetLpCommitment(a, n),
               UNCHANGED callVars
        PROVE  CommitmentsCounted'
    <2>1. /\ lpCommitments' = [lpCommitments EXCEPT
                                 ![a] = [amount |-> n, status |-> "PENDING"]]
          /\ lpAccounts' = lpAccounts \cup {a}
          /\ UNCHANGED <<gpCommitments, gpAccounts, totalCommittedGp, totalCommittedLp>>
      BY <1>2 DEF SetLpCommitment
    <2>2. \A b \in Accounts : ApprovedAmounts'[b] <= ApprovedAmounts[b]
      BY <1>t, <2>1 DEF ApprovedAmounts, CommitTypeOK, Commit
    <2>3. SumFunctionOnSet(ApprovedAmounts, Accounts)'
            <= SumFunctionOnSet(ApprovedAmounts, Accounts)
      BY <1>t, <2>2, ApprovedFall
    <2>4. accountCapitalCalls' = accountCapitalCalls
      BY <1>2 DEF callVars
    <2>5. SumFunctionOnSet(ApprovedAmounts, Accounts)' <= totalCommittedLp'
      BY <1>l, <1>n, <1>t, <2>1, <2>3
    <2>6. SumFunctionOnSet(GpAmounts, Accounts)' <= totalCommittedGp'
      BY <1>g, <1>n, <2>1
    <2> QED BY <1>z, <2>1, <2>4, <2>5, <2>6 DEF CommitmentsCounted
  <1>3. ASSUME NEW a \in Lps, CancelLpCommitment(a), UNCHANGED callVars
        PROVE  CommitmentsCounted'
    <2>1. /\ lpCommitments[a].status = "PENDING"
          /\ lpCommitments' = [lpCommitments EXCEPT ![a].status = "CANCELLED"]
          /\ UNCHANGED <<gpCommitments, lpAccounts, gpAccounts, totalCommittedGp,
                         totalCommittedLp>>
      BY <1>3 DEF CancelLpCommitment
    <2>2. \A b \in Accounts : ApprovedAmounts'[b] <= ApprovedAmounts[b]
      BY <1>t, <2>1 DEF ApprovedAmounts, CommitTypeOK, Commit
    <2>3. SumFunctionOnSet(ApprovedAmounts, Accounts)'
            <= SumFunctionOnSet(ApprovedAmounts, Accounts)
      BY <1>t, <2>2, ApprovedFall
    <2>4. accountCapitalCalls' = accountCapitalCalls
      BY <1>3 DEF callVars
    <2>5. SumFunctionOnSet(ApprovedAmounts, Accounts)' <= totalCommittedLp'
      BY <1>l, <1>n, <1>t, <2>1, <2>3
    <2>6. SumFunctionOnSet(GpAmounts, Accounts)' <= totalCommittedGp'
      BY <1>g, <1>n, <2>1
    <2> QED BY <1>z, <2>1, <2>4, <2>5, <2>6 DEF CommitmentsCounted
  <1>4. ASSUME NEW S \in SUBSET Lps, ApproveLpCommitments(S), UNCHANGED callVars
        PROVE  CommitmentsCounted'
    <2>1. /\ Approved(S) \in Nat
          /\ totalCommittedLp' = totalCommittedLp + Approved(S)
          /\ UNCHANGED <<gpCommitments, lpAccounts, gpAccounts, totalCommittedGp>>
      BY <1>4 DEF ApproveLpCommitments, IsUint
    <2>2. SumFunctionOnSet(ApprovedAmounts, Accounts)'
            <= SumFunctionOnSet(ApprovedAmounts, Accounts) + Approved(S)
      BY <1>4, <1>t, ApprovedRise
    <2>3. SumFunctionOnSet(ApprovedAmounts, Accounts)' <= totalCommittedLp'
      BY <1>l, <1>n, <1>t, <2>1, <2>2
    <2>4. SumFunctionOnSet(GpAmounts, Accounts)' <= totalCommittedGp'
      BY <1>g, <1>n, <2>1
    <2> QED BY <1>4, <1>z, <2>1, <2>3, <2>4 DEF CommitmentsCounted, callVars
  <1>5. ASSUME NEW a \in Gps, NEW n \in GpCommitAmounts, AddGpCommitment(a, n),
               UNCHANGED callVars
        PROVE  CommitmentsCounted'
    <2>1. /\ totalCommittedGp' = totalCommittedGp + n
          /\ gpCommitments' = [gpCommitments EXCEPT
                                 ![a] = [amount |-> n, status |-> "APPROVED"]]
          /\ gpAccounts' = gpAccounts \cup {a}
          /\ UNCHANGED <<lpCommitments, lpAccounts, totalCommittedLp>>
          /\ n \in Nat /\ a \in Accounts
      BY <1>5 DEF AddGpCommitment
    <2> DEFINE f == GpAmounts
               g == GpAmounts'
    <2>2. /\ \A b \in Accounts : f[b] \in Nat /\ g[b] \in Nat
          /\ \A b \in Accounts \ {a} : f[b] = g[b]
          /\ g[a] = n
      BY <1>t, <2>1 DEF GpAmounts, CommitTypeOK, Commit
    <2> HIDE DEF f, g
    <2>3. SumFunctionOnSet(g, Accounts) + f[a] = SumFunctionOnSet(f, Accounts) + g[a]
      BY <2>1, <2>2, AccountsAssumption, SumUpdate
    <2>4. SumFunctionOnSet(g, Accounts) \in Nat /\ SumFunctionOnSet(f, Accounts) \in Nat
      BY <2>2, AccountsAssumption, SumType
    <2>5. SumFunctionOnSet(g, Accounts) <= SumFunctionOnSet(f, Accounts) + n
      BY <2>1, <2>2, <2>3, <2>4
    <2>6. SumFunctionOnSet(f, Accounts) <= totalCommittedGp
      BY <1>n DEF f
    <2>7. SumFunctionOnSet(g, Accounts) <= totalCommittedGp'
      BY <1>n, <2>1, <2>4, <2>5, <2>6
    <2>8. SumFunctionOnSet(ApprovedAmounts, Accounts)' <= totalCommittedLp'
      BY <1>n, <2>1 DEF ApprovedAmounts
    <2> QED BY <1>5, <1>z, <2>1, <2>7, <2>8 DEF CommitmentsCounted, callVars, g
  <1>6. ASSUME NEW n \in CallAmounts, capitalCall(n)
        PROVE  CommitmentsCounted'
    <2>1. /\ UNCHANGED commitVars
          /\ accountCapitalCalls' =
               AccountCalls(gpAccounts, lpAccounts,
                            LAMBDA a : GpShare(n, a), LAMBDA a : LpShare(n, a))
      BY <1>6, Zenon DEF capitalCall
    <2>2. \A a \in Accounts \ (lpAccounts \cup gpAccounts) :
             accountCapitalCalls'[a] = accountCapitalCalls[a]
      BY <1>t, <2>1 DEF AccountCalls, CallTypeOK
    <2> QED BY <1>n, <1>z, <2>1, <2>2 DEF CommitmentsCounted, commitVars, ApprovedAmounts,
                                          GpAmounts
  <1>7. ASSUME NEW c \in CallIds, NEW a \in Accounts,
               accountCapitalCalls' = [accountCapitalCalls EXCEPT ![a][c].isDone = TRUE],
               UNCHANGED <<commitVars, capitalCalls>>
        PROVE  CommitmentsCounted'
    <2>1. \A b \in Accounts, d \in CallIds :
             accountCapitalCalls'[b][d].amount = accountCapitalCalls[b][d].amount
      BY <1>7, <1>t DEF CallTypeOK, AccountCapitalCall
    <2> QED BY <1>7, <1>n, <1>z, <2>1 DEF CommitmentsCounted, commitVars, ApprovedAmounts,
                                          GpAmounts
  <1>8. CASE ShareStep
    <2> HIDE DEF CommitmentsCounted
    <2> QED BY <1>2, <1>3, <1>4, <1>5, <1>6, <1>7, <1>8, Zenon DEF ShareStep
  <1> QED BY <1>1, <1>8, ShareKinds

\* What of the commitments on record a call counts.
Counted ==
    [a \in Accounts |-> IF a \in lpAccounts THEN lpCommitments[a].amount
                        ELSE IF a \in gpAccounts THEN gpCommitments[a].amount ELSE 0]

LEMMA CountedCovered ==
    ASSUME ShareInv, \A a \in lpAccounts : lpCommitments[a].status = "APPROVED"
    PROVE  /\ \A a \in Accounts : Counted[a] \in Nat
           /\ SumFunctionOnSet(Counted, Accounts) \in Nat
           /\ SumFunctionOnSet(Counted, Accounts) <= totalCommitted
  <1> DEFINE c == Counted
             p == ApprovedAmounts
             g == GpAmounts
             L == lpAccounts
             M == Accounts \ lpAccounts
  <1>1. CommitTypeOK /\ CommitmentsCounted
    BY TypeParts DEF ShareInv
  <1>2. \A a \in Accounts : c[a] \in Nat /\ p[a] \in Nat /\ g[a] \in Nat
    BY <1>1 DEF CommitTypeOK, Commit, Counted, ApprovedAmounts, GpAmounts
  <1>3. \A a \in L : c[a] = p[a]
    BY <1>1 DEF CommitTypeOK, Counted, ApprovedAmounts
  <1>4. \A a \in M : c[a] <= g[a]
    BY <1>1 DEF CommitTypeOK, Commit, Counted, GpAmounts
  <1>5. L \in SUBSET Accounts /\ IsFiniteSet(Accounts) /\ IsFiniteSet(L) /\ IsFiniteSet(M)
    BY <1>1, AccountsAssumption, FS_Subset, FS_Difference DEF CommitTypeOK
  <1>6. M = Accounts \ L
    OBVIOUS
  <1> HIDE DEF c, p, g, L, M
  <1>7. SumFunctionOnSet(c, Accounts) = SumFunctionOnSet(c, L) + SumFunctionOnSet(c, M)
    BY <1>2, <1>5, <1>6, SumSplit
  <1>8. SumFunctionOnSet(c, L) = SumFunctionOnSet(p, L)
    BY <1>3, <1>5, SumSame
  <1>9. SumFunctionOnSet(p, L) <= SumFunctionOnSet(p, Accounts)
    BY <1>2, <1>5, SumSubset
  <1>10. SumFunctionOnSet(c, M) <= SumFunctionOnSet(g, M)
    BY <1>2, <1>4, <1>5, <1>6, SumMonotone
  <1>11. SumFunctionOnSet(g, M) <= SumFunctionOnSet(g, Accounts)
    BY <1>2, <1>5, <1>6, SumSubset
  <1>12. /\ SumFunctionOnSet(c, L) \in Nat /\ SumFunctionOnSet(c, M) \in Nat
         /\ SumFunctionOnSet(c, Accounts) \in Nat /\ SumFunctionOnSet(p, Accounts) \in Nat
         /\ SumFunctionOnSet(g, M) \in Nat /\ SumFunctionOnSet(g, Accounts) \in Nat
    BY <1>2, <1>5, <1>6, SumType
  <1>13. /\ SumFunctionOnSet(p, Accounts) <= totalCommittedLp
         /\ SumFunctionOnSet(g, Accounts) <= totalCommittedGp
         /\ totalCommittedLp \in Nat /\ totalCommittedGp \in Nat
    BY <1>1 DEF CommitmentsCounted, CommitTypeOK, p, g
  <1>14. SumFunctionOnSet(c, Accounts) <= totalCommittedGp + totalCommittedLp
    BY <1>7, <1>8, <1>9, <1>10, <1>11, <1>12, <1>13
  <1> QED BY <1>2, <1>12, <1>14 DEF totalCommitted, c

\* The shares capitalCall records are the counted commitments', rounded down.
LEMMA SharesRecorded ==
    ASSUME ShareInv, NEW n \in Nat, capitalCall(n), NEW a \in Accounts
    PROVE  LET r == accountCapitalCalls'[a][NextCallId].amount
               k == (n * scale) \div totalCommitted
           IN  r \in Nat /\ Counted[a] \in Nat /\ scale * r <= k * Counted[a]
  <1> DEFINE k == (n * scale) \div totalCommitted
  <1>1. CommitTypeOK /\ CallTypeOK /\ CommitmentsCounted /\ NextCallId \in CallIds
    BY TypeParts, NextCallIdType DEF ShareInv
  <1>2. /\ totalCommitted > 0
        /\ accountCapitalCalls' =
             AccountCalls(gpAccounts, lpAccounts,
                          LAMBDA b : GpShare(n, b), LAMBDA b : LpShare(n, b))
    BY Zenon DEF capitalCall
  <1>3. accountCapitalCalls'[a][NextCallId] =
            IF a \in lpAccounts THEN AccountCall(LpShare(n, a), "LP")
            ELSE IF a \in gpAccounts THEN AccountCall(GpShare(n, a), "GP")
            ELSE accountCapitalCalls[a][NextCallId]
    BY <1>1, <1>2 DEF AccountCalls, CallTypeOK
  <1>4. scale \in Nat \ {0} /\ totalCommitted \in Nat \ {0}
    BY <1>1, <1>2, InterestAssumption DEF CommitTypeOK, totalCommitted
  <1>5. k \in Nat
    BY <1>4, ProductType, QuotientBound
  <1>6. ASSUME NEW m \in Nat
        PROVE  CallShare(n, m) \in Nat /\ scale * CallShare(n, m) <= k * m
    <2>1. k * m \in Nat
      BY <1>5, ProductType
    <2>2. CallShare(n, m) = (k * m) \div scale
      BY DEF CallShare
    <2> HIDE DEF k
    <2> QED BY <1>4, <2>1, <2>2, QuotientBound
  <1>7. lpCommitments[a].amount \in Nat /\ gpCommitments[a].amount \in Nat
    BY <1>1 DEF CommitTypeOK, Commit
  <1> HIDE DEF k
  <1>8. CASE a \in lpAccounts
    <2>1. accountCapitalCalls'[a][NextCallId].amount = CallShare(n, lpCommitments[a].amount)
      BY <1>3, <1>8 DEF AccountCall, LpShare
    <2>2. Counted[a] = lpCommitments[a].amount
      BY <1>8 DEF Counted
    <2> QED BY <1>6, <1>7, <2>1, <2>2 DEF k
  <1>9. CASE a \in gpAccounts \ lpAccounts
    <2>1. accountCapitalCalls'[a][NextCallId].amount = CallShare(n, gpCommitments[a].amount)
      BY <1>3, <1>9 DEF AccountCall, GpShare
    <2>2. Counted[a] = gpCommitments[a].amount
      BY <1>9 DEF Counted
    <2> QED BY <1>6, <1>7, <2>1, <2>2 DEF k
  <1>10. CASE a \notin lpAccounts \cup gpAccounts
    <2>1. accountCapitalCalls'[a][NextCallId].amount = 0
      BY <1>1, <1>3, <1>10 DEF CommitmentsCounted
    <2>2. Counted[a] = 0
      BY <1>10 DEF Counted
    <2>3. scale * 0 <= k * 0
      BY <1>4, <1>5
    <2> QED BY <2>1, <2>2, <2>3 DEF k
  <1> QED BY <1>8, <1>9, <1>10

\* The shares of a call never add up to more than the call, as long as every
\* LP on record is approved: a commitment that was raised, replaced or
\* approved again counts no more in its share than in the committed totals.
THEOREM SharesCovered == Spec => CallSharesCovered
  <1>1. ShareInv /\ [Next]_vars
          => [Len(capitalCalls') > Len(capitalCalls)
                /\ (\A a \in lpAccounts : lpCommitments[a].status = "APPROVED")
              => SumFunction([a \in Accounts |-> accountCapitalCalls'[a][NextCallId].amount])
                    <= capitalCalls'[Len(capitalCalls')]]_vars
    <2> SUFFICES ASSUME ShareInv, [Next]_vars,
                        Len(capitalCalls') > Len(capitalCalls),
                        \A a \in lpAccounts : lpCommitments[a].status = "APPROVED"
                 PROVE  SumFunction([a \in Accounts |->
                                       accountCapitalCalls'[a][NextCallId].amount])
                          <= capitalCalls'[Len(capitalCalls')]
      OBVIOUS
    <2>1. CommitTypeOK /\ CallTypeOK
      BY TypeParts DEF ShareInv
    <2>2. capitalCalls' # capitalCalls
      <3>1. Len(capitalCalls) \in Nat
        BY <2>1 DEF CallTypeOK
      <3> QED BY <3>1
    <2>3. PICK n \in CallAmounts : capitalCall(n)
      <3>1. ShareStep
        BY <2>2, ShareKinds DEF NoShares
      <3> QED BY <2>2, <3>1, Zenon DEF ShareStep, callVars
    <2>4. /\ totalCommitted > 0
          /\ capitalCalls' = Append(capitalCalls, n)
      BY <2>3, Zenon DEF capitalCall
    <2>5. n \in Nat /\ scale \in Nat \ {0} /\ totalCommitted \in Nat \ {0}
      BY <2>1, <2>4, FundAssumption, InterestAssumption DEF CommitTypeOK, totalCommitted
    <2>6. capitalCalls'[Len(capitalCalls')] = n
      BY <2>1, <2>4, <2>5 DEF CallTypeOK
    <2> DEFINE r == [a \in Accounts |-> accountCapitalCalls'[a][NextCallId].amount]
               k == (n * scale) \div totalCommitted
               c == Counted
               total == SumFunctionOnSet(r, Accounts)
    <2>7. SumFunction(r) = total
      BY DEF SumFunction
    <2>8. \A a \in Accounts : r[a] \in Nat /\ c[a] \in Nat /\ scale * r[a] <= k * c[a]
      BY <2>3, <2>5, SharesRecorded
    <2>9. /\ SumFunctionOnSet(c, Accounts) \in Nat
          /\ SumFunctionOnSet(c, Accounts) <= totalCommitted
      BY CountedCovered
    <2>10. n * scale \in Nat /\ k \in Nat /\ totalCommitted * k <= n * scale
      BY <2>5, ProductType, QuotientBound
    <2> HIDE DEF r, k, c
    <2>11. scale * total <= k * SumFunctionOnSet(c, Accounts) /\ total \in Nat
      BY <2>5, <2>8, <2>10, AccountsAssumption, SumScaled, SumType
    <2> HIDE DEF total
    <2>12. k * SumFunctionOnSet(c, Accounts) <= k * totalCommitted
      BY <2>5, <2>9, <2>10, ProductMonotone
    <2>13. scale * total <= scale * n
      <3>1. k * totalCommitted = totalCommitted * k /\ n * scale = scale * n
        BY <2>5, <2>10
      <3>2. /\ scale * total \in Nat /\ k * SumFunctionOnSet(c, Accounts) \in Nat
            /\ k * totalCommitted \in Nat /\ scale * n \in Nat
        BY <2>5, <2>9, <2>10, <2>11, ProductType
      <3> QED BY <2>10, <2>11, <2>12, <3>1, <3>2
    <2>14. total <= n
      BY <2>5, <2>11, <2>13, CancelFactor
    <2> QED BY <2>6, <2>7, <2>14 DEF r
  <1> QED BY <1>1, ShareInvInit, ShareInvNext, PTL DEF Spec, CallSharesCovered

-----------------------------------------------------------------------------
(* What the waterfall and the interest ledger keep between them.           *)

Capital == LastInterestEntry.capital
Outstanding == LastInterestEntry.totalCashFlow

\* No entry looks like the four zeroes that stand for "no entry yet".
LastDated == interestEntries # << >> => Days(LastInterestEntry.timestamp) >= 1

\* What was called has been returned to LPs or is still outstanding.
CapitalReturned == lpReturn + Outstanding >= totalCalled

\* The GP's carry, with what it is owed, stays within its rate on what was
\* distributed beyond the capital called, even if all that is outstanding,
\* as capital or in all, counts as not yet called.
CarryCovered ==
    /\ 1000 * (gpReturn + gpCatchup) <= carriedInterest * (totalDistributed + Capital - totalCalled)
    /\ 1000 * (gpReturn + gpCatchup) <= carriedInterest * (totalDistributed + Outstanding - totalCalled)

LedgerInv == TypeOK /\ EntriesInDayOrder /\ LastDated

WaterfallInv == LedgerInv /\ CapitalWasCalled /\ CapitalReturned /\ CarryCovered

-----------------------------------------------------------------------------
(* Appending to the ledger.                                                *)

LEMMA LastType ==
    ASSUME InterestTypeOK
    PROVE  LastInterestEntry \in InterestEntry /\ Capital \in Nat /\ Outstanding \in Nat
  <1>1. CASE interestEntries = << >>
    BY <1>1 DEF LastInterestEntry, Entry, InterestEntry, Capital, Outstanding
  <1>2. CASE interestEntries # << >>
    <2>1. Len(interestEntries) \in 1..Len(interestEntries)
      BY <1>2 DEF InterestTypeOK
    <2>2. LastInterestEntry \in InterestEntry
      BY <1>2, <2>1 DEF InterestTypeOK, LastInterestEntry
    <2> QED BY <2>2 DEF InterestEntry, Capital, Outstanding
  <1> QED BY <1>1, <1>2

LEMMA LastTypeNext ==
    ASSUME InterestTypeOK'
    PROVE  Capital' \in Nat /\ Outstanding' \in Nat
  <1>1. CASE interestEntries' = << >>
    BY <1>1 DEF LastInterestEntry, Entry, Capital, Outstanding
  <1>2. CASE interestEntries' # << >>
    <2>1. Len(interestEntries') \in 1..Len(interestEntries')
      BY <1>2 DEF InterestTypeOK
    <2>2. LastInterestEntry' \in InterestEntry
      BY <1>2, <2>1 DEF InterestTypeOK, LastInterestEntry
    <2> QED BY <2>2 DEF InterestEntry, Capital, Outstanding
  <1> QED BY <1>1, <1>2

\* The entries of a cash flow leave the ledger in order.
LEMMA LedgerAppend ==
    ASSUME InterestTypeOK, EntriesInDayOrder, NEW pushed, Follows(LastInterestEntry, pushed),
           interestEntries' = interestEntries \o pushed
    PROVE  /\ LastInterestEntry' = LastAfter(LastInterestEntry, pushed)
           /\ EntriesInDayOrder'
           /\ interestEntries' # << >> => interestEntries # << >> \/ pushed # << >>
  <1> DEFINE s == interestEntries
             t == s \o pushed
  <1>1. s \in Seq(InterestEntry) /\ pushed \in Seq(InterestEntry)
    BY DEF InterestTypeOK, Follows
  <1>2. Len(t) = Len(s) + Len(pushed) /\ Len(s) \in Nat /\ Len(pushed) \in Nat
    BY <1>1
  <1>3. LastInterestEntry' = LastAfter(LastInterestEntry, pushed)
    <2>1. CASE pushed = << >>
      <3>1. t = s
        BY <1>1, <2>1
      <3> QED BY <2>1, <3>1 DEF LastInterestEntry, LastAfter
    <2>2. CASE pushed # << >>
      <3>1. t # << >> /\ t[Len(t)] = pushed[Len(pushed)]
        BY <1>1, <1>2, <2>2
      <3> HIDE DEF t
      <3>2. interestEntries' = t
        BY DEF t
      <3> QED BY <2>2, <3>1, <3>2 DEF LastInterestEntry, LastAfter
    <2> QED BY <2>1, <2>2
  <1>4. InDayOrder(t)
    <2>1. InDayOrder(s)
      BY DEF EntriesInDayOrder, InDayOrder
    <2>2. InDayOrder(pushed)
      BY DEF Follows
    <2>3. s # << >> /\ pushed # << >>
             => Days(s[Len(s)].timestamp) <= Days(pushed[1].timestamp)
      BY DEF Follows, LastInterestEntry
    <2> QED BY <1>1, <2>1, <2>2, <2>3, OrderConcat
  <1>5. EntriesInDayOrder'
    BY <1>4 DEF EntriesInDayOrder, InDayOrder
  <1>6. t # << >> => s # << >> \/ pushed # << >>
    BY <1>1
  <1> QED BY <1>3, <1>5, <1>6

\* The first entry is not compounded.
LEMMA NothingToCompound ==
    ASSUME LastInterestEntry.timestamp = 0, NEW cp, NEW rate, NEW time
    PROVE  ComputeCompounding(cp, rate, time) = Started(LastInterestEntry)
  BY DEF ComputeCompounding

\* No entry yet, or one of a day after the first.
LEMMA DatedOrEmpty ==
    ASSUME InterestTypeOK, LastDated
    PROVE  /\ LastInterestEntry.timestamp \in Nat
           /\ interestEntries = << >> => LastInterestEntry = Entry(0, 0, 0, 0)
           /\ LastInterestEntry.timestamp = 0 => interestEntries = << >>
  <1>1. LastInterestEntry.timestamp \in Nat
    BY LastType DEF InterestEntry
  <1>2. interestEntries = << >> => LastInterestEntry = Entry(0, 0, 0, 0)
    BY DEF LastInterestEntry
  <1>3. ASSUME LastInterestEntry.timestamp = 0 PROVE interestEntries = << >>
    <2>1. Days(LastInterestEntry.timestamp) = 0
      BY <1>3 DEF Days, DaySeconds
    <2> QED BY <2>1 DEF LastDated
  <1> QED BY <1>1, <1>2, <1>3

LEMMA TermsNat ==
    ASSUME TypeOK
    PROVE  terms["prefRate"] \in Nat /\ terms["compoundingInterval"] \in Nat
  BY TypeParts DEF TermsType, TermNames

\* Blocks, and the dates distribute is given, are after the first of 1970.
LEMMA TimeDated ==
    ASSUME NEW t \in Times
    PROVE  t \in Nat /\ Days(t) >= 1
  BY FundAssumption DEF Days, DaySeconds

-----------------------------------------------------------------------------
(* What the two cash flows of the fund do to the ledger.                   *)

\* capitalCall: the amount is outstanding, as capital and in all.
LEMMA CallFlow ==
    ASSUME LedgerInv, NEW n \in Nat, capitalCall(n)
    PROVE  /\ EntriesInDayOrder' /\ LastDated'
           /\ Capital' = Capital + n
           /\ Outstanding' >= Outstanding + n
           /\ totalCalled' = totalCalled + n
           /\ UNCHANGED distVars
  <1> DEFINE last == LastInterestEntry
             rate == terms["prefRate"]
             run  == ComputeCompounding(terms["compoundingInterval"], rate, now)
             flow == InflowAfter(run, n, rate, now)
  <1>1. InterestTypeOK /\ now \in Times
    BY TypeParts DEF LedgerInv, EnvType
  <1>2. /\ last \in InterestEntry /\ rate \in Nat /\ now \in Nat /\ Days(now) >= 1
        /\ EntriesInDayOrder
    BY <1>1, LastType, TermsNat, TimeDated DEF LedgerInv
  <1>3. /\ flow.completes
        /\ interestEntries' = interestEntries \o flow.pushed
        /\ totalCalled' = totalCalled + n
        /\ UNCHANGED distVars
    BY Zenon DEF capitalCall, Inflow
  <1>4. run.completes
    <2>1. flow.completes = Computed(run, now)
      BY Zenon DEF InflowAfter
    <2> QED BY <1>3, <2>1, Zenon DEF Computed
  <1>5. Grown(last, run)
    BY <1>2, <1>4, CompoundingGrown
  <1> HIDE DEF run
  <1>6. /\ Follows(last, flow.pushed)
        /\ LastAfter(last, flow.pushed).timestamp = now
        /\ LastAfter(last, flow.pushed).capital = last.capital + n
        /\ LastAfter(last, flow.pushed).totalCashFlow >= last.totalCashFlow + n
    BY <1>2, <1>3, <1>5, InflowGrows
  <1> HIDE DEF flow
  <1>7. LastInterestEntry' = LastAfter(last, flow.pushed) /\ EntriesInDayOrder'
    BY <1>1, <1>2, <1>3, <1>6, LedgerAppend
  <1>8. LastDated'
    BY <1>2, <1>6, <1>7 DEF LastDated
  <1>9. Capital' = Capital + n /\ Outstanding' >= Outstanding + n
    BY <1>6, <1>7 DEF Capital, Outstanding
  <1> QED BY <1>3, <1>7, <1>8, <1>9

\* The shares of a distribution that pays capital and interest and leaves rest.
Received(capitalPaid, interestPaid, rest) ==
    LET share == Split(capitalPaid + interestPaid, rest, CatchupOwed(interestPaid)) IN
    /\ lpReturn' = lpReturn + share.lp
    /\ gpReturn' = gpReturn + share.gp
    /\ gpCatchup' = share.catchup

\* The four ways a distribution of n takes effect.
OfCapital(n) ==
    /\ n <= Capital
    /\ Capital' = Capital - n /\ Outstanding' >= Outstanding - n
    /\ Received(n, 0, 0)

OfInterest(n) ==
    /\ n >= Capital
    /\ Capital' = 0
    /\ Outstanding <= n + Outstanding'
    /\ Received(Capital, n - Capital, 0)

OfEverything(n, accrued) ==
    /\ Capital <= accrued /\ Outstanding <= accrued /\ accrued <= n
    /\ Capital' = Capital /\ Outstanding' = 0
    /\ Received(Capital, accrued - Capital, n - accrued)

OfNothing(n) ==
    /\ Outstanding = 0
    /\ Capital' = Capital /\ Outstanding' = 0
    /\ Received(0, 0, n)

Paid(n) ==
    \/ OfCapital(n)
    \/ OfInterest(n)
    \/ \E accrued \in Nat : OfEverything(n, accrued)
    \/ OfNothing(n)

\* A payout by its size.
LEMMA PayoutCases ==
    ASSUME NEW n \in Nat, NEW c \in Nat, NEW acc \in Nat,
           NEW paid, paid = Payout(n, c, acc), paid.completes
    PROVE  \/ /\ n <= c /\ n <= acc
              /\ paid.capitalPaid = n /\ paid.interestPaid = 0 /\ paid.remaining = 0
              /\ paid.capital = c - n /\ paid.totalCashFlow = acc - n
           \/ /\ n >= c /\ n <= acc
              /\ paid.capitalPaid = c /\ paid.interestPaid = n - c /\ paid.remaining = 0
              /\ paid.capital = 0 /\ paid.totalCashFlow = acc - n
           \/ /\ c <= acc /\ acc <= n
              /\ paid.capitalPaid = c /\ paid.interestPaid = acc - c
              /\ paid.remaining = n - acc
              /\ paid.capital = c /\ paid.totalCashFlow = 0
  <1>1. CASE n <= c
    <2>1. paid = CapitalOnly(n, c, acc)
      BY <1>1 DEF Payout
    <2>2. CapitalOnly(n, c, acc).completes = (n <= acc)
      BY DEF CapitalOnly
    <2>3. n <= acc
      BY <2>1, <2>2, Zenon
    <2> QED BY <1>1, <2>1, <2>3 DEF CapitalOnly
  <1>2. CASE ~ (n <= c) /\ n <= acc
    BY <1>2 DEF Payout, CapitalAndInterest
  <1>3. CASE ~ (n <= c) /\ ~ (n <= acc)
    <2>1. paid = Everything(n, c, acc)
      BY <1>3 DEF Payout
    <2>2. Everything(n, c, acc).completes = (c <= acc)
      BY DEF Everything
    <2>3. c <= acc
      BY <2>1, <2>2, Zenon
    <2> QED BY <1>3, <2>1, <2>3 DEF Everything
  <1> QED BY <1>1, <1>2, <1>3

\* distribute: one of the four, and the ledger stays in order.
LEMMA DistributeFlow ==
    ASSUME LedgerInv, NEW n \in Nat, NEW time \in Times, distribute(n, time)
    PROVE  /\ EntriesInDayOrder' /\ LastDated'
           /\ Paid(n)
           /\ totalDistributed' = totalDistributed + n
           /\ totalCalled' = totalCalled
           /\ Capital' \in Nat /\ Outstanding' \in Nat
  <1> DEFINE last == LastInterestEntry
             rate == terms["prefRate"]
             cp   == terms["compoundingInterval"]
             run  == ComputeCompounding(cp, rate, time)
             flow == OutflowAfter(run, n, rate, time)
             new  == LastAfter(last, flow.pushed)
  <1>1. InterestTypeOK /\ LastDated /\ EntriesInDayOrder
    BY TypeParts DEF LedgerInv
  <1>2. /\ last \in InterestEntry /\ rate \in Nat /\ time \in Nat /\ Days(time) >= 1
        /\ Capital \in Nat /\ Outstanding \in Nat
    BY <1>1, LastType, TermsNat, TimeDated DEF LedgerInv
  <1>3. /\ flow.completes
        /\ DistributeShares(Shares(flow))
        /\ totalDistributed' = totalDistributed + n
        /\ interestEntries' = interestEntries \o flow.pushed
        /\ UNCHANGED callVars
    BY Zenon DEF distribute, Outflow
  <1>4. totalCalled' = totalCalled
    BY <1>3 DEF callVars
  <1>5. Received(flow.capitalPaid, flow.interestPaid, flow.remaining)
    <2>1. Shares(flow) = Split(flow.capitalPaid + flow.interestPaid, flow.remaining,
                               CatchupOwed(flow.interestPaid))
      BY DEF Shares
    <2> HIDE DEF flow
    <2> QED BY <1>3, <2>1 DEF DistributeShares, Received
  <1>6. run.completes
    <2>1. CASE run.entry.timestamp > 0 /\ run.entry.totalCashFlow > 0
      <3> DEFINE pay == Payout(n, run.entry.capital, Accrued(run.entry, time))
      <3>1. flow = OutflowPaid(run, pay, rate, time)
        BY <2>1 DEF OutflowAfter
      <3> HIDE DEF pay
      <3>2. OutflowPaid(run, pay, rate, time).completes = (Computed(run, time) /\ pay.completes)
        BY DEF OutflowPaid
      <3> QED BY <1>3, <3>1, <3>2, Zenon DEF Computed
    <2>2. CASE ~ (run.entry.timestamp > 0 /\ run.entry.totalCashFlow > 0)
      <3>1. flow = OutflowUntouched(run, n)
        BY <2>2 DEF OutflowAfter
      <3>2. OutflowUntouched(run, n).completes
              = (run.completes /\ run.pushed \in Seq(InterestEntry))
        BY DEF OutflowUntouched
      <3> QED BY <1>3, <3>1, <3>2, Zenon
    <2> QED BY <2>1, <2>2
  <1>7. Grown(last, run)
    BY <1>2, <1>6, CompoundingGrown
  <1>8. last.timestamp = 0 => run = Started(last)
    BY NothingToCompound
  <1> HIDE DEF run
  <1>9. flow = OutflowAfter(run, n, rate, time) /\ flow.completes
    BY <1>3
  <1>10. CASE run.entry.timestamp > 0 /\ run.entry.totalCashFlow > 0
    <2>1. PICK acc \in Nat : PaysOut(last, flow, n, time, acc)
      <3> HIDE DEF flow, rate, last
      <3> QED BY <1>2, <1>7, <1>9, <1>10, OutflowPays
    <2> DEFINE paid == Payout(n, last.capital, acc)
    <2> HIDE DEF flow
    <2>2. /\ Follows(last, flow.pushed) /\ new \in InterestEntry
          /\ new.timestamp = time
          /\ new.capital = paid.capital /\ new.totalCashFlow = paid.totalCashFlow
          /\ acc >= last.totalCashFlow /\ paid.completes
          /\ flow.remaining = paid.remaining /\ flow.capitalPaid = paid.capitalPaid
          /\ flow.interestPaid = paid.interestPaid
      BY <2>1 DEF PaysOut
    <2>3. LastInterestEntry' = new /\ EntriesInDayOrder'
      BY <1>1, <1>3, <2>2, LedgerAppend
    <2>4. LastDated'
      BY <1>2, <2>2, <2>3 DEF LastDated
    <2>5. Capital' \in Nat /\ Outstanding' \in Nat
      BY <2>2, <2>3 DEF Capital, Outstanding, InterestEntry
    <2>6. /\ Capital = last.capital /\ Outstanding = last.totalCashFlow
          /\ Capital' = paid.capital /\ Outstanding' = paid.totalCashFlow
      BY <2>2, <2>3 DEF Capital, Outstanding
    <2>7. /\ Received(paid.capitalPaid, paid.interestPaid, paid.remaining)
          /\ paid.completes /\ acc >= Outstanding
      BY <1>5, <2>2, <2>6
    <2>8. paid = Payout(n, Capital, acc)
      BY <2>6
    <2> HIDE DEF paid, last, new
    <2>9. Paid(n)
      <3>1. \/ /\ n <= Capital /\ n <= acc
               /\ paid.capitalPaid = n /\ paid.interestPaid = 0 /\ paid.remaining = 0
               /\ paid.capital = Capital - n /\ paid.totalCashFlow = acc - n
            \/ /\ n >= Capital /\ n <= acc
               /\ paid.capitalPaid = Capital /\ paid.interestPaid = n - Capital
               /\ paid.remaining = 0
               /\ paid.capital = 0 /\ paid.totalCashFlow = acc - n
            \/ /\ Capital <= acc /\ acc <= n
               /\ paid.capitalPaid = Capital /\ paid.interestPaid = acc - Capital
               /\ paid.remaining = n - acc
               /\ paid.capital = Capital /\ paid.totalCashFlow = 0
        BY <1>2, <2>7, <2>8, PayoutCases
      <3>2. CASE /\ n <= Capital /\ n <= acc
                 /\ paid.capitalPaid = n /\ paid.interestPaid = 0 /\ paid.remaining = 0
                 /\ paid.capital = Capital - n /\ paid.totalCashFlow = acc - n
        <4>1. Outstanding' >= Outstanding - n
          BY <1>2, <2>6, <2>7, <3>2
        <4> QED BY <2>6, <2>7, <3>2, <4>1 DEF OfCapital, Paid
      <3>3. CASE /\ n >= Capital /\ n <= acc
                 /\ paid.capitalPaid = Capital /\ paid.interestPaid = n - Capital
                 /\ paid.remaining = 0
                 /\ paid.capital = 0 /\ paid.totalCashFlow = acc - n
        <4>1. Outstanding <= n + Outstanding'
          BY <1>2, <2>6, <2>7, <3>3
        <4> QED BY <2>6, <2>7, <3>3, <4>1 DEF OfInterest, Paid
      <3>4. CASE /\ Capital <= acc /\ acc <= n
                 /\ paid.capitalPaid = Capital /\ paid.interestPaid = acc - Capital
                 /\ paid.remaining = n - acc
                 /\ paid.capital = Capital /\ paid.totalCashFlow = 0
        <4>1. OfEverything(n, acc)
          BY <1>2, <2>6, <2>7, <3>4 DEF OfEverything
        <4> QED BY <4>1 DEF Paid
      <3> QED BY <3>1, <3>2, <3>3, <3>4
    <2> QED BY <1>3, <1>4, <2>3, <2>4, <2>5, <2>9
  <1>11. CASE ~ (run.entry.timestamp > 0 /\ run.entry.totalCashFlow > 0)
    <2>1. /\ flow.remaining = n /\ flow.capitalPaid = 0 /\ flow.interestPaid = 0
          /\ Follows(last, flow.pushed)
          /\ new \in InterestEntry
          /\ Days(last.timestamp) <= Days(new.timestamp)
          /\ new.capital = last.capital
          /\ new.totalCashFlow = run.entry.totalCashFlow
      BY <1>2, <1>3, <1>7, <1>11, OutflowPasses
    <2>2. last.timestamp = 0 => flow.pushed = << >>
      <3>1. flow = OutflowUntouched(run, n)
        BY <1>11 DEF OutflowAfter
      <3>2. flow.pushed = run.pushed
        BY <3>1 DEF OutflowUntouched
      <3> QED BY <1>8, <3>2 DEF Started
    <2> HIDE DEF flow
    <2>3. /\ LastInterestEntry' = new /\ EntriesInDayOrder'
          /\ interestEntries' # << >> => interestEntries # << >> \/ flow.pushed # << >>
      BY <1>1, <1>3, <2>1, LedgerAppend
    <2>4. Capital' \in Nat /\ Outstanding' \in Nat
      BY <2>1, <2>3 DEF Capital, Outstanding, InterestEntry
    <2>5. interestEntries' # << >> => interestEntries # << >>
      <3>1. interestEntries = << >> => last.timestamp = 0
        BY <1>1, DatedOrEmpty DEF Entry
      <3> QED BY <2>2, <2>3, <3>1
    <2>6. LastDated'
      <3>1. Days(last.timestamp) \in Nat /\ Days(new.timestamp) \in Nat
        <4>1. last.timestamp \in Nat /\ new.timestamp \in Nat
          BY <1>2, <2>1 DEF InterestEntry
        <4> QED BY <4>1, DaysType
      <3> QED BY <1>1, <2>1, <2>3, <2>5, <3>1 DEF LastDated
    <2>7. run.entry.totalCashFlow = 0 /\ Outstanding = 0
      <3>1. /\ run.entry.totalCashFlow \in Nat /\ run.entry.timestamp \in Nat
            /\ run.entry.totalCashFlow >= Outstanding
            /\ Days(last.timestamp) <= Days(run.entry.timestamp)
        BY <1>7 DEF Grown, InterestEntry, Outstanding
      <3>2. CASE last.timestamp = 0
        <4>1. run.entry = last /\ interestEntries = << >>
          BY <1>1, <1>8, <3>2, DatedOrEmpty DEF Started
        <4>2. last = Entry(0, 0, 0, 0)
          BY <1>1, <4>1, DatedOrEmpty
        <4> QED BY <4>1, <4>2 DEF Entry, Outstanding
      <3>3. CASE last.timestamp # 0
        <4>1. interestEntries # << >>
          BY <1>1, <3>3, DatedOrEmpty DEF Entry
        <4>2. Days(last.timestamp) >= 1
          BY <1>1, <4>1 DEF LastDated
        <4>3. run.entry.timestamp # 0
          <5>1. Days(last.timestamp) \in Nat
            <6>1. last.timestamp \in Nat
              BY <1>2 DEF InterestEntry
            <6> QED BY <6>1, DaysType
          <5>2. ASSUME run.entry.timestamp = 0 PROVE FALSE
            <6>1. Days(run.entry.timestamp) = 0
              BY <5>2 DEF Days, DaySeconds
            <6> QED BY <3>1, <4>2, <5>1, <6>1
          <5> QED BY <5>2
        <4>4. run.entry.totalCashFlow = 0
          BY <1>11, <3>1, <4>3
        <4> QED BY <1>2, <3>1, <4>4
      <3> QED BY <3>2, <3>3
    <2>8. Received(0, 0, n)
      BY <1>5, <2>1
    <2>9. Capital' = Capital /\ Outstanding' = 0
      BY <2>1, <2>3, <2>7 DEF Capital, Outstanding
    <2>10. Paid(n)
      BY <2>7, <2>8, <2>9 DEF OfNothing, Paid
    <2> QED BY <1>3, <1>4, <2>3, <2>4, <2>6, <2>10
  <1> QED BY <1>10, <1>11

-----------------------------------------------------------------------------
(* What the shares of a distribution are worth.                            *)

\* The carry grows by at most its rate on the interest and on what is left
\* over, LPs receive at least the capital and interest, and the GP receives
\* nothing when nothing is left over.
LEMMA SharesBound ==
    ASSUME TypeOK, NEW cap \in Nat, NEW int \in Nat, NEW rest \in Nat,
           Received(cap, int, rest)
    PROVE  /\ lpReturn' >= lpReturn + (cap + int)
           /\ 1000 * (gpReturn' + gpCatchup')
                <= 1000 * (gpReturn + gpCatchup) + carriedInterest * int + carriedInterest * rest
           /\ rest = 0 => gpReturn' = gpReturn
  <1> DEFINE pref == cap + int
             owed == CatchupOwed(int)
             share == Split(pref, rest, owed)
             carry == carriedInterest * int
             most  == carriedInterest * rest
             part  == (int * carriedInterest) \div 1000
  <1>1. /\ lpReturn' = lpReturn + share.lp
        /\ gpReturn' = gpReturn + share.gp
        /\ gpCatchup' = share.catchup
    BY DEF Received
  <1>2. /\ lpReturn \in Nat /\ gpReturn \in Nat /\ gpCatchup \in Nat
        /\ carriedInterest \in Nat
    BY TypeParts, FundAssumption DEF DistType
  <1>3. pref \in Nat /\ owed = gpCatchup + part
    BY DEF CatchupOwed
  <1>4. part \in Nat /\ 1000 * part <= int * carriedInterest
    BY <1>2, PerMille
  <1>5. carry \in Nat /\ most \in Nat /\ int * carriedInterest = carry
    BY <1>2
  <1>6. 1000 * part <= carry
    BY <1>4, <1>5
  <1> HIDE DEF part, carry, most
  <1>7. owed \in Nat /\ 1000 * owed <= 1000 * gpCatchup + carry
    BY <1>2, <1>3, <1>4, <1>5, <1>6
  <1> HIDE DEF owed, pref
  <1>8. /\ share.lp >= pref /\ share.lp \in Nat
        /\ share.gp \in Nat /\ share.catchup \in Nat
        /\ 1000 * (share.gp + share.catchup) <= 1000 * owed + most
        /\ rest = 0 => share.gp = 0
    <2>1. CASE rest <= owed
      <3>1. share = [lp |-> pref, gp |-> rest, catchup |-> owed - rest]
        BY <2>1 DEF Split
      <3>2. share.lp = pref /\ share.gp = rest /\ share.catchup = owed - rest
        BY <3>1
      <3> HIDE DEF share
      <3> QED BY <1>3, <1>5, <1>7, <2>1, <3>2
    <2>2. CASE ~ (rest <= owed)
      <3> DEFINE left == rest - owed
                 c    == Carry(left)
      <3>1. left \in Nat /\ left <= rest
        BY <1>7, <2>2
      <3>2. c \in Nat /\ c <= left
        BY <3>1, CarryType
      <3>3. 1000 * c <= most
        <4>1. 1000 * c <= left * carriedInterest
          BY <1>2, <3>1, PerMille DEF Carry
        <4>2. left * carriedInterest <= rest * carriedInterest
          <5> HIDE DEF left
          <5> QED BY <1>2, <3>1, ProductMonotone
        <4>3. rest * carriedInterest = most
          BY <1>2 DEF most
        <4>4. left * carriedInterest \in Nat
          BY <1>2, <3>1
        <4> HIDE DEF left, c
        <4> QED BY <1>5, <3>2, <4>1, <4>2, <4>3, <4>4
      <3>4. share = [lp |-> pref + left - c, gp |-> owed + c, catchup |-> 0]
        BY <2>2 DEF Split
      <3>5. share.lp = pref + left - c /\ share.gp = owed + c /\ share.catchup = 0
        BY <3>4
      <3>6. rest # 0
        BY <1>7, <2>2
      <3> HIDE DEF share, left, c
      <3> QED BY <1>3, <1>5, <1>7, <3>1, <3>2, <3>3, <3>5, <3>6
    <2> QED BY <2>1, <2>2
  <1> HIDE DEF share
  <1>9. 1000 * (gpReturn' + gpCatchup')
           <= 1000 * (gpReturn + gpCatchup) + carry + most
    BY <1>1, <1>2, <1>5, <1>7, <1>8
  <1> QED BY <1>1, <1>2, <1>3, <1>8, <1>9 DEF carry, most, pref

-----------------------------------------------------------------------------
(* The invariant of the waterfall.                                         *)

LEMMA RateMonotone ==
    ASSUME NEW k \in Nat, NEW x \in Int, NEW y \in Int, x <= y
    PROVE  k * x <= k * y
  <1> DEFINE d == y - x
  <1>1. d \in Nat /\ y = x + d
    OBVIOUS
  <1> HIDE DEF d
  <1>2. k * y = k * x + k * d /\ k * d \in Nat /\ k * x \in Int
    BY <1>1
  <1> QED BY <1>2

LEMMA WaterfallTypes ==
    ASSUME WaterfallInv
    PROVE  /\ Capital \in Nat /\ Outstanding \in Nat /\ totalCalled \in Nat
           /\ totalDistributed \in Nat /\ lpReturn \in Nat
           /\ gpReturn \in Nat /\ gpCatchup \in Nat /\ carriedInterest \in Nat
           /\ TypeOK /\ LedgerInv
  <1>1. InterestTypeOK /\ CallTypeOK /\ DistType
    BY TypeParts DEF WaterfallInv, LedgerInv
  <1> QED BY <1>1, LastType, FundAssumption DEF CallTypeOK, DistType, WaterfallInv, LedgerInv

\* A call counts as outstanding, and as called.
LEMMA CallKeepsWaterfall ==
    ASSUME WaterfallInv, NEW n \in Nat, capitalCall(n)
    PROVE  WaterfallInv'
  <1> DEFINE c  == Capital
             t  == Outstanding
             c1 == Capital'
             t1 == Outstanding'
             s  == totalDistributed - totalCalled
             paid == 1000 * (gpReturn + gpCatchup)
  <1>1. /\ c \in Nat /\ t \in Nat /\ totalCalled \in Nat /\ totalDistributed \in Nat
        /\ lpReturn \in Nat /\ carriedInterest \in Nat /\ TypeOK /\ LedgerInv
    BY WaterfallTypes
  <1>2. /\ EntriesInDayOrder' /\ LastDated'
        /\ c1 = c + n /\ t1 >= t + n /\ totalCalled' = totalCalled + n
        /\ totalDistributed' = totalDistributed /\ lpReturn' = lpReturn
        /\ gpReturn' = gpReturn /\ gpCatchup' = gpCatchup
    BY <1>1, CallFlow DEF distVars
  <1>3. TypeOK'
    BY <1>1, CapitalCallType
  <1>4. c1 \in Nat /\ t1 \in Nat
    <2>1. InterestTypeOK'
      BY <1>3, TypePartsNext
    <2>2. Capital' \in Nat /\ Outstanding' \in Nat
      BY <2>1, LastTypeNext
    <2> QED BY <2>2
  <1>5. /\ c <= totalCalled /\ lpReturn + t >= totalCalled
        /\ paid <= carriedInterest * (totalDistributed + c - totalCalled)
        /\ paid <= carriedInterest * (totalDistributed + t - totalCalled)
    BY DEF WaterfallInv, CapitalWasCalled, CapitalReturned, CarryCovered, Capital
  <1>6. paid \in Nat /\ 1000 * (gpReturn' + gpCatchup') = paid
    BY <1>2, WaterfallTypes
  <1> HIDE DEF c, t, c1, t1, paid
  <1>7. CapitalWasCalled' /\ CapitalReturned'
    <2>1. c1 <= totalCalled' /\ lpReturn' + t1 >= totalCalled'
      BY <1>1, <1>2, <1>4, <1>5
    <2> QED BY <2>1 DEF CapitalWasCalled, CapitalReturned, c1, t1, Capital
  <1>8. CarryCovered'
    <2>1. totalDistributed' + c1 - totalCalled' = totalDistributed + c - totalCalled
      BY <1>1, <1>2, <1>4
    <2>2. /\ totalDistributed + t - totalCalled \in Int
          /\ totalDistributed' + t1 - totalCalled' \in Int
          /\ totalDistributed + t - totalCalled <= totalDistributed' + t1 - totalCalled'
      BY <1>1, <1>2, <1>4
    <2>3. carriedInterest * (totalDistributed + t - totalCalled)
            <= carriedInterest * (totalDistributed' + t1 - totalCalled')
      BY <1>1, <2>2, RateMonotone
    <2>4. /\ carriedInterest * (totalDistributed + t - totalCalled) \in Int
          /\ carriedInterest * (totalDistributed' + t1 - totalCalled') \in Int
      BY <1>1, <2>2
    <2>5. paid <= carriedInterest * (totalDistributed' + t1 - totalCalled')
      BY <1>5, <1>6, <2>3, <2>4
    <2>6. paid <= carriedInterest * (totalDistributed' + c1 - totalCalled')
      BY <1>5, <2>1
    <2> QED BY <1>6, <2>5, <2>6 DEF CarryCovered, c1, t1
  <1> QED BY <1>2, <1>3, <1>7, <1>8 DEF WaterfallInv, LedgerInv

\* Carry at rate k on i and r, next to what was within k on x.
LEMMA CarryStep ==
    ASSUME NEW k \in Nat, NEW x \in Int, NEW i \in Nat, NEW r \in Nat, NEW z \in Int,
           NEW p \in Nat, NEW q \in Nat,
           p <= k * x, q <= p + k * i + k * r, x + i + r <= z
    PROVE  q <= k * z
  <1>1. k * (x + i + r) = k * x + k * i + k * r
    OBVIOUS
  <1>2. k * x \in Int /\ k * i \in Int /\ k * r \in Int /\ k * z \in Int
    OBVIOUS
  <1>3. k * (x + i + r) <= k * z
    BY RateMonotone
  <1> QED BY <1>1, <1>2, <1>3

\* What a distribution takes off what is outstanding is returned or was not
\* due, and the carry stays within its rate, whichever way it takes effect.
LEMMA PaidKeepsWaterfall ==
    ASSUME WaterfallInv, NEW n \in Nat, Paid(n),
           totalDistributed' = totalDistributed + n, totalCalled' = totalCalled,
           Capital' \in Nat, Outstanding' \in Nat, DistType'
    PROVE  /\ CapitalWasCalled' /\ CapitalReturned' /\ CarryCovered'
           /\ gpReturn' > gpReturn => Outstanding' = 0
  <1> DEFINE c  == Capital
             t  == Outstanding
             c1 == Capital'
             t1 == Outstanding'
             k  == carriedInterest
             d  == totalDistributed
             d1 == totalDistributed'
             tc == totalCalled
             l  == lpReturn
             l1 == lpReturn'
             g  == gpReturn
             g1 == gpReturn'
             p  == 1000 * (gpReturn + gpCatchup)
             q  == 1000 * (gpReturn' + gpCatchup')
  <1>1. /\ c \in Nat /\ t \in Nat /\ tc \in Nat /\ d \in Nat /\ l \in Nat
        /\ g \in Nat /\ k \in Nat /\ TypeOK /\ c1 \in Nat /\ t1 \in Nat
    BY WaterfallTypes
  <1>2. p \in Nat
    BY WaterfallTypes
  <1>3. l1 \in Nat /\ g1 \in Nat /\ q \in Nat
    <2>1. lpReturn' \in Nat /\ gpReturn' \in Nat /\ gpCatchup' \in Nat
      BY DEF DistType
    <2>2. \A a, b \in Nat : 1000 * (a + b) \in Nat
      OBVIOUS
    <2> DEFINE a == gpReturn'
               b == gpCatchup'
    <2>3. a \in Nat /\ b \in Nat
      BY <2>1
    <2> HIDE DEF a, b
    <2>4. 1000 * (a + b) \in Nat
      BY <2>2, <2>3
    <2> QED BY <2>1, <2>4 DEF a, b
  <1>4. d1 = d + n /\ totalCalled' = tc
    OBVIOUS
  <1>5. /\ c <= tc /\ l + t >= tc
        /\ p <= k * (d + c - tc) /\ p <= k * (d + t - tc)
    BY DEF WaterfallInv, CapitalWasCalled, CapitalReturned, CarryCovered, Capital
  <1> DEFINE Goal == /\ c1 <= tc /\ l1 + t1 >= tc
                     /\ q <= k * (d1 + c1 - tc) /\ q <= k * (d1 + t1 - tc)
                     /\ g1 > g => t1 = 0
  <1>6. ASSUME Goal
        PROVE  /\ CapitalWasCalled' /\ CapitalReturned' /\ CarryCovered'
               /\ gpReturn' > gpReturn => Outstanding' = 0
    BY <1>4, <1>6 DEF CapitalWasCalled, CapitalReturned, CarryCovered, Capital
  <1>7. ASSUME NEW cap \in Nat, NEW int \in Nat, NEW rest \in Nat, Received(cap, int, rest)
        PROVE  /\ l1 >= l + (cap + int)
               /\ q <= p + k * int + k * rest
               /\ rest = 0 => g1 = g
    BY <1>1, <1>7, SharesBound
  <1> HIDE DEF c, t, c1, t1, k, d, d1, tc, l, l1, g, g1, p, q
  <1>8. CASE OfCapital(n)
    <2>1. n <= c /\ c1 = c - n /\ t1 >= t - n /\ Received(n, 0, 0)
      BY <1>8 DEF OfCapital, c, c1, t, t1
    <2>2. l1 >= l + (n + 0) /\ q <= p + k * 0 + k * 0 /\ g1 = g
      BY <1>7, <2>1
    <2>3. d + c - tc \in Int /\ d + t - tc \in Int /\ d1 + c1 - tc \in Int /\ d1 + t1 - tc \in Int
      BY <1>1, <1>4
    <2>4. (d + c - tc) + 0 + 0 <= d1 + c1 - tc /\ (d + t - tc) + 0 + 0 <= d1 + t1 - tc
      BY <1>1, <1>4, <2>1
    <2>5. q <= k * (d1 + c1 - tc)
      BY <1>1, <1>2, <1>3, <1>5, <2>2, <2>3, <2>4, CarryStep
    <2>6. q <= k * (d1 + t1 - tc)
      BY <1>1, <1>2, <1>3, <1>5, <2>2, <2>3, <2>4, CarryStep
    <2>7. c1 <= tc /\ l1 + t1 >= tc /\ ~ (g1 > g)
      BY <1>1, <1>3, <1>5, <2>1, <2>2
    <2>8. Goal
      BY <2>5, <2>6, <2>7
    <2> HIDE DEF Goal
    <2> QED BY <1>6, <2>8
  <1>9. CASE OfInterest(n)
    <2> DEFINE i == n - c
    <2>1. n >= c /\ c1 = 0 /\ t <= n + t1 /\ Received(c, i, 0)
      BY <1>9 DEF OfInterest, c, c1, t, t1
    <2>2. i \in Nat
      BY <1>1, <2>1
    <2>3. l1 >= l + (c + i) /\ q <= p + k * i + k * 0 /\ g1 = g
      BY <1>1, <1>7, <2>1, <2>2
    <2>4. d + c - tc \in Int /\ d1 + c1 - tc \in Int /\ d1 + t1 - tc \in Int
      BY <1>1, <1>4
    <2>5. (d + c - tc) + i + 0 <= d1 + c1 - tc /\ (d + c - tc) + i + 0 <= d1 + t1 - tc
      BY <1>1, <1>4, <2>1
    <2>6. l1 >= l + n
      BY <1>1, <1>3, <2>3
    <2> HIDE DEF i
    <2>7. q <= k * (d1 + c1 - tc)
      BY <1>1, <1>2, <1>3, <1>5, <2>2, <2>3, <2>4, <2>5, CarryStep
    <2>8. q <= k * (d1 + t1 - tc)
      BY <1>1, <1>2, <1>3, <1>5, <2>2, <2>3, <2>4, <2>5, CarryStep
    <2>9. c1 <= tc /\ l1 + t1 >= tc /\ ~ (g1 > g)
      BY <1>1, <1>3, <1>5, <2>1, <2>3, <2>6
    <2>10. Goal
      BY <2>7, <2>8, <2>9
    <2> HIDE DEF Goal
    <2> QED BY <1>6, <2>10
  <1>10. CASE \E accrued \in Nat : OfEverything(n, accrued)
    <2>1. PICK acc \in Nat : OfEverything(n, acc)
      BY <1>10
    <2> DEFINE i == acc - c
               r == n - acc
    <2>2. /\ c <= acc /\ t <= acc /\ acc <= n /\ c1 = c /\ t1 = 0
          /\ Received(c, i, r)
      BY <2>1 DEF OfEverything, c, c1, t, t1
    <2>3. i \in Nat /\ r \in Nat
      BY <1>1, <2>2
    <2>4. l1 >= l + (c + i) /\ q <= p + k * i + k * r
      BY <1>1, <1>7, <2>2, <2>3
    <2>5. d + c - tc \in Int /\ d1 + c1 - tc \in Int /\ d1 + t1 - tc \in Int
      BY <1>1, <1>4
    <2>6. (d + c - tc) + i + r <= d1 + c1 - tc /\ (d + c - tc) + i + r <= d1 + t1 - tc
      BY <1>1, <1>4, <2>2
    <2>7. l1 >= l + acc
      BY <1>1, <1>3, <2>4
    <2> HIDE DEF i, r
    <2>8. q <= k * (d1 + c1 - tc)
      BY <1>1, <1>2, <1>3, <1>5, <2>3, <2>4, <2>5, <2>6, CarryStep
    <2>9. q <= k * (d1 + t1 - tc)
      BY <1>1, <1>2, <1>3, <1>5, <2>3, <2>4, <2>5, <2>6, CarryStep
    <2>10. c1 <= tc /\ l1 + t1 >= tc /\ t1 = 0
      BY <1>1, <1>3, <1>5, <2>2, <2>7
    <2>11. Goal
      BY <2>8, <2>9, <2>10
    <2> HIDE DEF Goal
    <2> QED BY <1>6, <2>11
  <1>11. CASE OfNothing(n)
    <2>1. t = 0 /\ c1 = c /\ t1 = 0 /\ Received(0, 0, n)
      BY <1>11 DEF OfNothing, c, c1, t, t1
    <2>2. l1 >= l + (0 + 0) /\ q <= p + k * 0 + k * n
      BY <1>7, <2>1
    <2>3. d + t - tc \in Int /\ d1 + c1 - tc \in Int /\ d1 + t1 - tc \in Int
      BY <1>1, <1>4
    <2>4. (d + t - tc) + 0 + n <= d1 + c1 - tc /\ (d + t - tc) + 0 + n <= d1 + t1 - tc
      BY <1>1, <1>4, <2>1
    <2>5. q <= k * (d1 + c1 - tc)
      BY <1>1, <1>2, <1>3, <1>5, <2>2, <2>3, <2>4, CarryStep
    <2>6. q <= k * (d1 + t1 - tc)
      BY <1>1, <1>2, <1>3, <1>5, <2>2, <2>3, <2>4, CarryStep
    <2>7. c1 <= tc /\ l1 + t1 >= tc /\ t1 = 0
      BY <1>1, <1>3, <1>5, <2>1, <2>2
    <2>8. Goal
      BY <2>5, <2>6, <2>7
    <2> HIDE DEF Goal
    <2> QED BY <1>6, <2>8
  <1> QED BY <1>8, <1>9, <1>10, <1>11 DEF Paid

\* distribute keeps the invariant, and pays the GP only when nothing is left
\* outstanding.
LEMMA DistributeKeepsWaterfall ==
    ASSUME WaterfallInv, NEW n \in Nat, NEW time \in Times, distribute(n, time)
    PROVE  /\ WaterfallInv'
           /\ gpReturn' > gpReturn => Outstanding' = 0
  <1>1. LedgerInv /\ TypeOK
    BY DEF WaterfallInv, LedgerInv
  <1>2. /\ EntriesInDayOrder' /\ LastDated' /\ Paid(n)
        /\ totalDistributed' = totalDistributed + n /\ totalCalled' = totalCalled
        /\ Capital' \in Nat /\ Outstanding' \in Nat
    BY <1>1, DistributeFlow
  <1>3. TypeOK' /\ DistType'
    <2>1. time \in Nat
      BY TimeDated
    <2> QED BY <1>1, <2>1, DistributeType, TypePartsNext
  <1>4. /\ CapitalWasCalled' /\ CapitalReturned' /\ CarryCovered'
        /\ gpReturn' > gpReturn => Outstanding' = 0
    BY <1>2, <1>3, PaidKeepsWaterfall
  <1> QED BY <1>2, <1>3, <1>4 DEF WaterfallInv, LedgerInv

\* Nothing else touches the ledger, what was called or what was distributed.
NoFlow == UNCHANGED <<interestEntries, totalCalled, distVars>>

LEMMA OthersFlowNothing ==
    ASSUME [Next]_vars, ~ \E n \in CallAmounts : capitalCall(n),
           ~ \E n \in DistAmounts, t \in Times : distribute(n, t)
    PROVE  NoFlow
  <1>1. CASE CommitmentNext
    <2>1. CASE \E S \in SUBSET Lps : approveCommits(S)
      BY <2>1, Zenon DEF approveCommits, callVars, NoFlow
    <2>2. CASE ~ \E S \in SUBSET Lps : approveCommits(S)
      BY <1>1, <2>2 DEF CommitmentNext, commit, addLpCommit, AddLpCommitment, cancelCommit,
                        issueGpCommit, callVars, NoFlow
    <2> QED BY <2>1, <2>2
  <1>2. CASE CapitalNext
    <2>1. CASE \E c \in CallIds, a \in Accounts, p \in CallPrices : capitalCallDone(c, a, p)
      BY <2>1 DEF capitalCallDone, NoFlow
    <2>2. CASE chargeManagementFee
      BY <2>2 DEF chargeManagementFee, callVars, NoFlow
    <2> QED BY <1>2, <2>1, <2>2 DEF CapitalNext
  <1>3. CASE RedemptionNext
    BY <1>3 DEF RedemptionNext, addRedemption, cancelRedemption, approveRedemption,
                rejectRedemption, callVars, NoFlow
  <1>4. CASE AdminNext
    BY <1>4 DEF AdminNext, setTerm, pauseTokens, unpauseTokens, callVars, NoFlow
  <1>5. CASE TokenNext
    BY <1>5 DEF TokenNext, payFees, claimAllDistributions, markFeesAsPaidUpToID,
                transfer, TokenUnchanged, callVars, NoFlow
  <1>6. CASE EnvironmentNext
    BY <1>6 DEF EnvironmentNext, TimePasses, ComplianceChanges, SystemUnchanged,
                callVars, NoFlow
  <1>7. CASE UNCHANGED vars
    BY <1>7 DEF vars, callVars, NoFlow
  <1> QED BY <1>1, <1>2, <1>3, <1>4, <1>5, <1>6, <1>7 DEF Next

LEMMA NoFlowKeepsWaterfall ==
    ASSUME WaterfallInv, TypeOK', NoFlow
    PROVE  WaterfallInv' /\ gpReturn' = gpReturn
  <1>1. /\ interestEntries' = interestEntries /\ totalCalled' = totalCalled
        /\ totalDistributed' = totalDistributed /\ lpReturn' = lpReturn
        /\ gpReturn' = gpReturn /\ gpCatchup' = gpCatchup
    BY DEF NoFlow, distVars
  <1>2. Capital' = Capital /\ Outstanding' = Outstanding
    BY <1>1 DEF Capital, Outstanding, LastInterestEntry
  <1>3. EntriesInDayOrder' /\ LastDated'
    BY <1>1 DEF WaterfallInv, LedgerInv, EntriesInDayOrder, LastDated, LastInterestEntry
  <1>4. CapitalWasCalled' /\ CapitalReturned' /\ CarryCovered'
    BY <1>1, <1>2 DEF WaterfallInv, CapitalWasCalled, CapitalReturned, CarryCovered, Capital
  <1> QED BY <1>1, <1>3, <1>4 DEF WaterfallInv, LedgerInv

\* Every step keeps the invariant, and none pays the GP with anything left
\* outstanding or changes what was called while it does.
LEMMA WaterfallStep ==
    ASSUME WaterfallInv, [Next]_vars
    PROVE  /\ WaterfallInv'
           /\ gpReturn' > gpReturn => Outstanding' = 0 /\ totalCalled' = totalCalled
  <1>1. TypeOK /\ LedgerInv
    BY DEF WaterfallInv, LedgerInv
  <1>2. gpReturn \in Nat
    BY WaterfallTypes
  <1>3. CASE \E n \in CallAmounts : capitalCall(n)
    <2>1. PICK n \in CallAmounts : capitalCall(n)
      BY <1>3
    <2>2. n \in Nat
      BY FundAssumption
    <2>3. WaterfallInv'
      BY <2>1, <2>2, CallKeepsWaterfall
    <2>4. gpReturn' = gpReturn
      BY <1>1, <2>1, <2>2, CallFlow DEF distVars
    <2> QED BY <1>2, <2>3, <2>4
  <1>4. CASE \E n \in DistAmounts, t \in Times : distribute(n, t)
    <2>1. PICK n \in DistAmounts, t \in Times : distribute(n, t)
      BY <1>4
    <2>2. n \in Nat
      BY FundAssumption
    <2>3. totalCalled' = totalCalled
      BY <1>1, <2>1, <2>2, DistributeFlow
    <2> QED BY <2>1, <2>2, <2>3, DistributeKeepsWaterfall
  <1>5. CASE /\ ~ \E n \in CallAmounts : capitalCall(n)
             /\ ~ \E n \in DistAmounts, t \in Times : distribute(n, t)
    <2>1. NoFlow
      BY <1>5, OthersFlowNothing
    <2>2. TypeOK'
      BY <1>1, NextType
    <2>3. WaterfallInv' /\ gpReturn' = gpReturn
      BY <2>1, <2>2, NoFlowKeepsWaterfall
    <2> QED BY <1>2, <2>3
  <1> QED BY <1>3, <1>4, <1>5

LEMMA WaterfallInit == Init => WaterfallInv
  <1> SUFFICES ASSUME Init PROVE WaterfallInv
    OBVIOUS
  <1>1. TypeOK
    BY InitType
  <1>2. /\ interestEntries = << >> /\ totalCalled = 0 /\ totalDistributed = 0
        /\ lpReturn = 0 /\ gpReturn = 0 /\ gpCatchup = 0
    BY DEF Init, InterestInit, CallInit
  <1>3. Capital = 0 /\ Outstanding = 0
    BY <1>2 DEF LastInterestEntry, Entry, Capital, Outstanding
  <1>4. EntriesInDayOrder /\ LastDated
    BY <1>2 DEF EntriesInDayOrder, LastDated
  <1>5. CapitalWasCalled /\ CapitalReturned /\ CarryCovered
    <2>1. carriedInterest \in Nat
      BY FundAssumption
    <2> QED BY <1>2, <1>3, <2>1 DEF CapitalWasCalled, CapitalReturned, CarryCovered, Capital
  <1> QED BY <1>1, <1>4, <1>5 DEF WaterfallInv, LedgerInv

LEMMA WaterfallHolds == Spec => []WaterfallInv
  <1>1. WaterfallInv /\ [Next]_vars => WaterfallInv'
    BY WaterfallStep
  <1> QED BY WaterfallInit, <1>1, PTL DEF Spec

\* The ledger's entries never run backwards by a day, whatever dates the
\* administrator gives distribute and whatever compounding pushes before a
\* cash flow: the run that compounding yields starts from the last entry and
\* never overtakes the cash flow, or the transaction reverts.
THEOREM LedgerInOrder == Spec => []EntriesInDayOrder
  <1>1. WaterfallInv => EntriesInDayOrder
    BY DEF WaterfallInv, LedgerInv
  <1> QED BY WaterfallHolds, <1>1, PTL

\* The capital the ledger counts as outstanding was called, over any mix of
\* calls, distributions and compounding dates.
THEOREM OutstandingWasCalled == Spec => []CapitalWasCalled
  <1>1. WaterfallInv => CapitalWasCalled
    BY DEF WaterfallInv
  <1> QED BY WaterfallHolds, <1>1, PTL

\* distribute pays the GP only when it leaves nothing outstanding, capital or
\* preferred return.
THEOREM PrefComesFirst == Spec => PrefBeforeCarry
  <1>1. WaterfallInv /\ [Next]_vars
           => [gpReturn' > gpReturn => LastInterestEntry'.totalCashFlow = 0]_vars
    BY WaterfallStep DEF Outstanding
  <1> QED BY WaterfallHolds, <1>1, PTL DEF Spec, PrefBeforeCarry

\* The GP is paid only once LPs have received all the capital ever called:
\* what was called has been returned or is still outstanding.
THEOREM LpsComeFirst == Spec => LpMadeWholeFirst
  <1>1. ASSUME WaterfallInv, [Next]_vars
        PROVE  [gpReturn' > gpReturn => lpReturn' >= totalCalled]_vars
    <2> SUFFICES ASSUME gpReturn' > gpReturn PROVE lpReturn' >= totalCalled
      OBVIOUS
    <2>1. /\ WaterfallInv' /\ Outstanding' = 0 /\ totalCalled' = totalCalled
      BY <1>1, WaterfallStep
    <2>2. lpReturn' \in Nat
      BY <2>1, TypePartsNext DEF WaterfallInv, LedgerInv, DistType
    <2>3. lpReturn' + Outstanding' >= totalCalled'
      BY <2>1 DEF WaterfallInv, CapitalReturned
    <2> HIDE DEF Outstanding
    <2> QED BY <2>1, <2>2, <2>3
  <1> QED BY WaterfallHolds, <1>1, PTL DEF Spec, LpMadeWholeFirst

\* Carried interest is taken on profit alone: what the GP has received and is
\* owed is at most its rate on what was distributed beyond the capital called.
THEOREM CarryComesFromProfit == Spec => CarryOnProfitOnly
  <1>1. ASSUME WaterfallInv, [Next]_vars
        PROVE  [gpReturn' > gpReturn =>
                   1000 * (gpReturn' + gpCatchup')
                      <= carriedInterest * (totalDistributed' - totalCalled)]_vars
    <2> SUFFICES ASSUME gpReturn' > gpReturn
                 PROVE  1000 * (gpReturn' + gpCatchup')
                           <= carriedInterest * (totalDistributed' - totalCalled)
      OBVIOUS
    <2>1. /\ WaterfallInv' /\ Outstanding' = 0 /\ totalCalled' = totalCalled
      BY <1>1, WaterfallStep
    <2>2. 1000 * (gpReturn' + gpCatchup')
             <= carriedInterest * (totalDistributed' + Outstanding' - totalCalled')
      BY <2>1 DEF WaterfallInv, CarryCovered
    <2>3. totalDistributed' \in Nat /\ totalCalled \in Nat
      <3>1. totalDistributed' \in Nat
        BY <2>1, TypePartsNext DEF WaterfallInv, LedgerInv, DistType
      <3> QED BY <1>1, <3>1, WaterfallTypes
    <2> HIDE DEF Outstanding
    <2>4. totalDistributed' + Outstanding' - totalCalled' = totalDistributed' - totalCalled
      BY <2>1, <2>3
    <2> QED BY <2>2, <2>4
  <1> QED BY WaterfallHolds, <1>1, PTL DEF Spec, CarryOnProfitOnly

=============================================================================
