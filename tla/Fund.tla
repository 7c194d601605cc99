------------------------------- MODULE Fund -------------------------------
(***************************************************************************)
(* The Fund contract (src/fund/Fund.sol) with the managers it inherits     *)
(* from, the interest ledger, its four FundToken contracts and the calls   *)
(* the tokens serve to others.  One action is one external transaction:    *)
(* the fund's checks, the inherited function, the token calls and the      *)
(* ledger entries happen together, or the transaction reverts and nothing  *)
(* happens.                                                                *)
(*                                                                         *)
(* The fund is the only TOKEN_ADMIN of its tokens, as initialize leaves    *)
(* it.  The compliance registry is the set of accounts it vouches for now  *)
(* (Compliance.tla); USDC is tracked where the tokens hold it.             *)
(***************************************************************************)
EXTENDS CommitmentManager, CapitalCallsManager, RedemptionManager, InterestPayments

CONSTANTS
    Times,               \* block timestamps, and dates given to distribute
    price,               \* USDC per LP commit token
    carriedInterest,     \* per mille, uint8
    managementFee,       \* per mille, uint8
    InitialTerms,        \* terms that initialize may receive
    TermChanges          \* term |-> values its setter is called with

CONSTANTS                \* the values enumerated for the calls' arguments
    CommitAmounts, GpCommitAmounts, CallAmounts, CallPrices, DistAmounts,
    RedemptionAmounts, TransferAmounts,
    Waivers,             \* tokens, fee ids and accounts of markFeesAsPaidUpToID
    Lps, Gps, Redeemers, \* accounts that commit, and that redeem
    Holders,             \* accounts that call the tokens themselves
    Reviewed,            \* accounts whose compliance changes
    Pausing              \* whether the administrator pauses the tokens

CONSTANTS                \* bounds
    MaxCommittedLp,      \* on the total of approved LP commitments
    MaxCommittedGp,      \* on the total of GP commitments
    MaxCalls,            \* on the number of capital calls
    MaxFees,             \* on the number of management fees
    MaxDistributions,    \* on the number of distributions
    MaxCash              \* on the USDC of a token

TokenNames == {"gpCommit", "lpCommit", "gpFund", "lpFund"}

TermNames ==
    {"initialClosing", "finalClosing", "commitmentDate", "endDate",
     "blockSize", "prefRate", "gpClawback", "compoundingInterval"}

\* compoundingInterval has no setter.
SettableTerms == TermNames \ {"compoundingInterval"}

\* The distId check of _processDistribution never bites below its limit.
DistIdLimit == 65535

\* Blocks are mined long after the first day of 1970.
ASSUME FundAssumption ==
    /\ Times \subseteq Nat /\ \A t \in Times : t >= DaySeconds
    /\ Times # {}
    /\ price \in Nat \ {0}
    /\ carriedInterest \in 0..255
    /\ managementFee \in 0..255
    /\ InitialTerms \subseteq [TermNames -> Nat]
    /\ DOMAIN TermChanges \subseteq SettableTerms
    /\ \A n \in DOMAIN TermChanges : TermChanges[n] \subseteq Nat
    /\ CommitAmounts \subseteq Nat /\ GpCommitAmounts \subseteq Nat
    /\ CallAmounts \subseteq Nat   /\ CallPrices \subseteq Nat \ {0}
    /\ DistAmounts \subseteq Nat   /\ RedemptionAmounts \subseteq Nat
    /\ TransferAmounts \subseteq Nat
    /\ Lps \cup Gps \cup Redeemers \cup Holders \cup Reviewed \subseteq Accounts
    /\ Pausing \in BOOLEAN
    /\ \A w \in Waivers :
          w.token \in TokenNames /\ w.upToId \in Nat /\ w.accounts \subseteq Accounts
    /\ MaxCommittedLp \in Nat /\ MaxCommittedGp \in Nat /\ MaxCalls \in Nat /\ MaxCash \in Nat
    /\ MaxDistributions \in 0..(DistIdLimit - 1)
    /\ MaxDistributions <= MaxEvents /\ MaxFees \in 0..MaxEvents

VARIABLES
    tokens,              \* TokenNames -> Ledger
    cash,                \* USDC balance of each token contract
    terms,               \* what initialize and the setters set
    distributionCount, totalDistributed,
    lpReturn, gpReturn, gpCatchup,
    compliant,           \* accounts isCompliant answers true for
    now                  \* block.timestamp

distVars == <<distributionCount, totalDistributed, lpReturn, gpReturn, gpCatchup>>
envVars == <<compliant, now>>
vars == <<commitVars, callVars, redemptionVars, interestEntries,
          tokens, cash, terms, distVars, envVars>>

TypeOK ==
    /\ CommitTypeOK /\ CallTypeOK /\ RedemptionTypeOK /\ InterestTypeOK
    /\ tokens \in [TokenNames -> Ledger]
    /\ cash \in [TokenNames -> Nat]
    /\ terms \in [TermNames -> Nat]
    /\ <<distributionCount, totalDistributed, lpReturn, gpReturn, gpCatchup>>
         \in Nat \X Nat \X Nat \X Nat \X Nat
    /\ compliant \in SUBSET Accounts
    /\ now \in Times

Init ==
    /\ CommitInit /\ CallInit /\ RedemptionInit /\ InterestInit
    /\ tokens = [k \in TokenNames |-> Deployed(k \in {"gpCommit", "lpCommit"})]
    /\ cash = [k \in TokenNames |-> 0]
    /\ terms \in InitialTerms
    /\ distributionCount = 0 /\ totalDistributed = 0
    /\ lpReturn = 0 /\ gpReturn = 0 /\ gpCatchup = 0
    /\ compliant = Accounts
    /\ now \in Times /\ \A t \in Times : now <= t

\* hasRole(TOKEN_ADMIN, fund): what the fund may mint to an account.
MayMint(k, account) == MayMove(tokens[k], compliant, TRUE, {}, {account})

-----------------------------------------------------------------------------
(* Commitments.                                                            *)

AddLpCommitment(account, amount) ==
    /\ account \in compliant
    /\ terms["blockSize"] # 0
    /\ amount % terms["blockSize"] = 0
    /\ SetLpCommitment(account, amount)
    /\ UNCHANGED <<callVars, redemptionVars, interestEntries, tokens, cash,
                   terms, distVars, envVars>>

commit(account, amount) ==
    /\ now <= terms["finalClosing"]
    /\ AddLpCommitment(account, amount)

addLpCommit(account, amount) == AddLpCommitment(account, amount)

\* cancelCommit() of the LP and cancelCommit(account) of the FUND_ADMIN.
cancelCommit(account) ==
    /\ CancelLpCommitment(account)
    /\ UNCHANGED <<callVars, redemptionVars, interestEntries, tokens, cash,
                   terms, distVars, envVars>>

\* The LP commit tokens minted for the commitments of accounts.
CommitTokens(accounts) == [a \in accounts |-> lpCommitments[a].amount \div price]

approveCommits(accounts) ==
    /\ ApproveLpCommitments(accounts)
    /\ totalCommittedLp' <= MaxCommittedLp
    /\ \A a \in accounts : MayMint("lpCommit", a)
    /\ tokens' = [tokens EXCEPT !["lpCommit"] =
          MintedToEach(@, accounts, CommitTokens(accounts))]
    /\ IsUint(tokens'["lpCommit"].totalSupply)
    /\ UNCHANGED <<callVars, redemptionVars, interestEntries, cash,
                   terms, distVars, envVars>>

issueGpCommit(account, amount) ==
    /\ AddGpCommitment(account, amount)
    /\ totalCommittedGp' <= MaxCommittedGp
    /\ MayMint("gpCommit", account)
    /\ tokens' = [tokens EXCEPT !["gpCommit"] = Minted(@, account, amount)]
    /\ UNCHANGED <<callVars, redemptionVars, interestEntries, cash,
                   terms, distVars, envVars>>

-----------------------------------------------------------------------------
(* Capital calls.                                                          *)

\* A wrong CallShare: the GPs' commitments are left out of the total.
CallShareOfLps(amount, committed) ==
    IF totalCommittedLp = 0 THEN amount
    ELSE (((amount * scale) \div totalCommittedLp) * committed) \div scale

CallShare(amount, committed) ==
    (((amount * scale) \div totalCommitted) * committed) \div scale

GpShare(amount, a) == CallShare(amount, gpCommitments[a].amount)

\* Every account that ever made a commitment, whatever became of it.
LpShare(amount, a) == CallShare(amount, lpCommitments[a].amount)

\* A wrong WithinCommitments: earlier calls are forgotten.
WithinAllCommitments(amount) == totalCommitted >= amount

WithinCommitments(amount) ==
    /\ IsUint(totalCommitted - totalCalled)
    /\ totalCommitted - totalCalled >= amount

capitalCall(amount) ==
    LET flow == Inflow(amount, terms["prefRate"], now, terms["compoundingInterval"]) IN
    /\ Len(capitalCalls) < MaxCalls
    /\ WithinCommitments(amount)
    /\ totalCommitted > 0
    /\ (amount * scale) \div totalCommitted > 0
    /\ \A a \in gpAccounts : GpShare(amount, a) # 0
    /\ \A a \in lpAccounts : LpShare(amount, a) # 0
    /\ flow.completes
    /\ capitalCalls' = Append(capitalCalls, amount)
    /\ accountCapitalCalls' =
          AccountCalls(gpAccounts, lpAccounts,
                       LAMBDA a : GpShare(amount, a), LAMBDA a : LpShare(amount, a))
    /\ totalCalled' = totalCalled + amount
    /\ interestEntries' = interestEntries \o flow.pushed
    /\ UNCHANGED <<commitVars, redemptionVars, tokens, cash, terms, distVars, envVars>>

CommitToken(type) == IF type = "GP" THEN "gpCommit" ELSE "lpCommit"
FundTokenOf(type) == IF type = "GP" THEN "gpFund" ELSE "lpFund"

\* A wrong Converted: everyone's capital becomes LP fund tokens.
ConvertedToLp(ts, type, account, n) ==
    [ts EXCEPT ![CommitToken(type)] = Burned(@, account, n),
               !["lpFund"] = Minted(@, account, n)]

\* A wrong Converted: the fund tokens arrive without a snapshot of the balance.
ConvertedUntouched(ts, type, account, n) ==
    [ts EXCEPT ![CommitToken(type)] = Burned(@, account, n),
               ![FundTokenOf(type)].balances[account] = @ + n,
               ![FundTokenOf(type)].totalSupply = @ + n]

Converted(ts, type, account, n) ==
    [ts EXCEPT ![CommitToken(type)] = Burned(@, account, n),
               ![FundTokenOf(type)] = Minted(@, account, n)]

capitalCallDone(callId, account, callPrice) ==
    LET acc ==  accountCapitalCalls[account][callId]
        commitToken == tokens[CommitToken(acc.accountType)]
        tokenAmount == acc.amount \div callPrice
    IN
    /\ commitToken.balances[account] >= tokenAmount
    /\ MayBurn(commitToken, compliant, account, tokenAmount)
    /\ MayMint(FundTokenOf(acc.accountType), account)
    /\ tokens' = Converted(tokens, acc.accountType, account, tokenAmount)
    /\ accountCapitalCalls' = [accountCapitalCalls EXCEPT ![account][callId].isDone = TRUE]
    /\ UNCHANGED <<capitalCalls, totalCalled, commitVars, redemptionVars,
                   interestEntries, cash, terms, distVars, envVars>>

chargeManagementFee ==
    /\ Len(tokens["lpCommit"].fees) < MaxFees
    /\ tokens' = [tokens EXCEPT !["lpCommit"] = FeeCharged(@, managementFee, price)]
    /\ UNCHANGED <<commitVars, callVars, redemptionVars, interestEntries, cash,
                   terms, distVars, envVars>>

-----------------------------------------------------------------------------
(* The waterfall.                                                          *)

\* The catch-up the GP is owed once this distribution's interest is counted.
CatchupOwed(interestPaid) == gpCatchup + ((interestPaid * carriedInterest) \div 1000)

Carry(rest) == (rest * carriedInterest) \div 1000

\* What LPs and the GP receive of a distribution, and the catch-up left over.
\* A wrong Split: LPs receive the remainder, the GP its carry on top.
SplitCarryOnTop(pref, remaining, owed) ==
    IF remaining <= owed
    THEN [lp |-> pref, gp |-> remaining, catchup |-> owed - remaining]
    ELSE [lp |-> pref + (remaining - owed),
          gp |-> owed + Carry(remaining - owed), catchup |-> 0]

\* A wrong Split: a catch-up that is paid stays owed.
SplitCatchupKept(pref, remaining, owed) ==
    IF remaining <= owed
    THEN [lp |-> pref, gp |-> remaining, catchup |-> owed]
    ELSE [lp |-> pref + (remaining - owed) - Carry(remaining - owed),
          gp |-> owed + Carry(remaining - owed), catchup |-> 0]

Split(pref, remaining, owed) ==
    IF remaining <= owed
    THEN [lp |-> pref, gp |-> remaining, catchup |-> owed - remaining]
    ELSE [lp |-> pref + (remaining - owed) - Carry(remaining - owed),
          gp |-> owed + Carry(remaining - owed), catchup |-> 0]

Shares(pay) ==
    Split(pay.capitalPaid + pay.interestPaid, pay.remaining,
          CatchupOwed(pay.interestPaid))

\* _processDistribution, skipped for an amount of zero.
MayProcess(k, amount) == amount > 0 => MayDistribute(tokens[k], amount, scale)

Processed(t, amount) == IF amount > 0 THEN Distributed(t, amount, scale) ELSE t

DistributeShares(share) ==
    /\ MayProcess("lpFund", share.lp)
    /\ MayProcess("gpFund", share.gp)
    /\ lpReturn' = lpReturn + share.lp
    /\ gpReturn' = gpReturn + share.gp
    /\ gpCatchup' = share.catchup
    /\ tokens' = [tokens EXCEPT !["lpFund"] = Processed(@, share.lp),
                                !["gpFund"] = Processed(@, share.gp)]
    /\ cash' = [cash EXCEPT !["lpFund"] = @ + share.lp, !["gpFund"] = @ + share.gp]

distribute(amount, time) ==
    \E pay \in {Outflow(amount, terms["prefRate"], time, terms["compoundingInterval"])} :
        /\ distributionCount < MaxDistributions
        /\ pay.completes
        /\ DistributeShares(Shares(pay))
        /\ distributionCount' = distributionCount + 1
        /\ totalDistributed' = totalDistributed + amount
        /\ interestEntries' = interestEntries \o pay.pushed
        /\ UNCHANGED <<commitVars, callVars, redemptionVars, terms, envVars>>

-----------------------------------------------------------------------------
(* Redemptions.                                                            *)

addRedemption(account, amount) ==
    /\ account \in compliant
    /\ RequestRedemption(account, amount)
    /\ UNCHANGED <<commitVars, callVars, interestEntries, tokens, cash,
                   terms, distVars, envVars>>

\* cancelRedemption() of the holder; cancelRedemption(account) is the same
\* call made by an administrator about its own request.
cancelRedemption(account) ==
    /\ CancelRequest(account)
    /\ UNCHANGED <<commitVars, callVars, interestEntries, tokens, cash,
                   terms, distVars, envVars>>

approveRedemption(account) ==
    /\ ApproveRequest(account)
    /\ MayBurn(tokens["lpFund"], compliant, account, redemptions[account].amount)
    /\ tokens' = [tokens EXCEPT !["lpFund"] =
                     Burned(@, account, redemptions[account].amount)]
    /\ UNCHANGED <<commitVars, callVars, interestEntries, cash,
                   terms, distVars, envVars>>

rejectRedemption(account) ==
    /\ RejectRequest(account)
    /\ UNCHANGED <<commitVars, callVars, interestEntries, tokens, cash,
                   terms, distVars, envVars>>

-----------------------------------------------------------------------------
(* Administration.                                                         *)

\* The setters: each assigns one term.
setTerm(name, value) ==
    /\ terms' = [terms EXCEPT ![name] = value]
    /\ UNCHANGED <<commitVars, callVars, redemptionVars, interestEntries, tokens,
                   cash, distVars, envVars>>

\* A wrong pauseTokens: the LP fund token is forgotten.
pauseTokensButLpFund ==
    /\ \A k \in TokenNames \ {"lpFund"} : ~ tokens[k].paused
    /\ tokens' = [k \in TokenNames |->
          IF k = "lpFund" THEN tokens[k] ELSE [tokens[k] EXCEPT !.paused = TRUE]]
    /\ UNCHANGED <<commitVars, callVars, redemptionVars, interestEntries, cash,
                   terms, distVars, envVars>>

pauseTokens ==
    /\ \A k \in TokenNames : ~ tokens[k].paused
    /\ tokens' = [k \in TokenNames |-> [tokens[k] EXCEPT !.paused = TRUE]]
    /\ UNCHANGED <<commitVars, callVars, redemptionVars, interestEntries, cash,
                   terms, distVars, envVars>>

unpauseTokens ==
    /\ \A k \in TokenNames : tokens[k].paused
    /\ tokens' = [k \in TokenNames |-> [tokens[k] EXCEPT !.paused = FALSE]]
    /\ UNCHANGED <<commitVars, callVars, redemptionVars, interestEntries, cash,
                   terms, distVars, envVars>>

-----------------------------------------------------------------------------
(* Calls the tokens serve to their holders and to the FUND_ADMIN.          *)

TokenUnchanged ==
    UNCHANGED <<commitVars, callVars, redemptionVars, interestEntries,
                terms, distVars, envVars>>

payFees(k, a) ==
    /\ IsUint(Len(tokens[k].fees) - 1)
    /\ IsUint(PendingFees(tokens[k], a))
    /\ cash[k] + PendingFees(tokens[k], a) <= MaxCash
    /\ tokens' = [tokens EXCEPT ![k] = FeesSettled(@, a)]
    /\ cash' = [cash EXCEPT ![k] = @ + PendingFees(tokens[k], a)]
    /\ TokenUnchanged

claimAllDistributions(k, a) ==
    /\ IsUint(Len(tokens[k].distributions) - 1)
    /\ ClaimsReadable(tokens[k], a)
    /\ IsUint(TotalClaimable(tokens[k], a))
    /\ IsUint(cash[k] - TotalClaimable(tokens[k], a))
    /\ tokens' = [tokens EXCEPT ![k] = ClaimsTaken(@, a)]
    /\ cash' = [cash EXCEPT ![k] = @ - TotalClaimable(tokens[k], a)]
    /\ TokenUnchanged

markFeesAsPaidUpToID(k, upToId, accounts) ==
    /\ MayMarkFees(tokens[k], upToId, accounts)
    /\ tokens' = [tokens EXCEPT ![k] = FeesMarked(@, upToId, accounts)]
    /\ UNCHANGED cash
    /\ TokenUnchanged

\* The transfer of a holder, who is no TOKEN_ADMIN; what somebody granted the
\* role may do is in FundToken.
transfer(k, from, to, amount) ==
    /\ MayMove(tokens[k], compliant, FALSE, {from}, {to})
    /\ IsUint(tokens[k].balances[from] - amount)
    /\ tokens' = [tokens EXCEPT ![k] = Transferred(@, from, to, amount)]
    /\ UNCHANGED cash
    /\ TokenUnchanged

-----------------------------------------------------------------------------
(* The environment: blocks are mined and the registry changes its mind.    *)

SystemUnchanged ==
    UNCHANGED <<commitVars, callVars, redemptionVars, interestEntries, tokens,
                cash, terms, distVars>>

TimePasses(t) ==
    /\ t > now
    /\ now' = t
    /\ UNCHANGED compliant
    /\ SystemUnchanged

ComplianceChanges(a) ==
    /\ compliant' = (compliant \ {a}) \cup ({a} \ compliant)
    /\ UNCHANGED now
    /\ SystemUnchanged

CommitmentNext ==
    \/ \E a \in Lps, n \in CommitAmounts : commit(a, n)
    \/ \E a \in Lps, n \in CommitAmounts : addLpCommit(a, n)
    \/ \E a \in Lps : cancelCommit(a)
    \/ \E S \in SUBSET Lps : approveCommits(S)
    \/ \E a \in Gps, n \in GpCommitAmounts : issueGpCommit(a, n)

CapitalNext ==
    \/ \E n \in CallAmounts : capitalCall(n)
    \/ \E c \in CallIds, a \in Accounts, p \in CallPrices : capitalCallDone(c, a, p)
    \/ chargeManagementFee
    \/ \E n \in DistAmounts, t \in Times : distribute(n, t)

RedemptionNext ==
    \/ \E a \in Redeemers, n \in RedemptionAmounts : addRedemption(a, n)
    \/ \E a \in Redeemers : cancelRedemption(a)
    \/ \E a \in Redeemers : approveRedemption(a)
    \/ \E a \in Redeemers : rejectRedemption(a)

AdminNext ==
    \/ \E n \in DOMAIN TermChanges : \E v \in TermChanges[n] : setTerm(n, v)
    \/ Pausing /\ pauseTokens
    \/ unpauseTokens

TokenNext ==
    \/ \E k \in TokenNames, a \in Holders : payFees(k, a)
    \/ \E k \in TokenNames, a \in Holders : claimAllDistributions(k, a)
    \/ \E w \in Waivers : markFeesAsPaidUpToID(w.token, w.upToId, w.accounts)
    \/ \E k \in TokenNames, a \in Holders, b \in Accounts, n \in TransferAmounts :
          transfer(k, a, b, n)

EnvironmentNext ==
    \/ \E t \in Times : TimePasses(t)
    \/ \E a \in Reviewed : ComplianceChanges(a)

Next ==
    \/ CommitmentNext
    \/ CapitalNext
    \/ RedemptionNext
    \/ AdminNext
    \/ TokenNext
    \/ EnvironmentNext

Spec == Init /\ [][Next]_vars

\* Holders who keep asking for what they are due, of a fund whose
\* administrator goes on calling and distributing.
FairSpec ==
    /\ Spec
    /\ \A k \in TokenNames, a \in Holders : SF_vars(claimAllDistributions(k, a))
    /\ WF_vars(CapitalNext)

-----------------------------------------------------------------------------
(* Correctness.                                                            *)

\* Nothing distributed is lost or paid twice by the waterfall of distribute:
\* every amount is split between the two returns to the last unit, whichever
\* branch it takes and however its divisions round.
ReturnsMatchDistributed == totalDistributed = lpReturn + gpReturn

\* capitalCall never draws more than has been committed: the subtraction in
\* its own check can never revert.
CalledWithinCommitted == totalCalled <= totalCommitted

\* The shares a capital call records never add up to more than the call, as
\* long as every LP on record is approved: commitments that were raised,
\* replaced and approved again still count no more than the total does.
CallSharesCovered ==
    [][Len(capitalCalls') > Len(capitalCalls)
         /\ (\A a \in lpAccounts : lpCommitments[a].status = "APPROVED")
       => SumFunction([a \in Accounts |-> accountCapitalCalls'[a][NextCallId].amount])
             <= capitalCalls'[Len(capitalCalls')]]_vars

\* Every GP commitment is held as commit tokens or, once called, fund tokens:
\* capitalCallDone exchanges them one for one, even when a call is settled
\* twice, under a wrong price or after the account committed again.
GpTokensMatchCommitments ==
    tokens["gpCommit"].totalSupply + tokens["gpFund"].totalSupply = totalCommittedGp

\* LP tokens, with those redeemed, never stand for more than the approved
\* commitments they were minted for at the fund's price.
LpTokensWithinCommitments ==
    price * (tokens["lpCommit"].totalSupply + tokens["lpFund"].totalSupply
                + totalRedemptions) <= totalCommittedLp

\* Carried interest is taken on profit alone: whenever the GP is paid, what it
\* has received and is still owed as catch-up is at most its rate on what was
\* distributed beyond the capital called, however calls, distributions and
\* compounding dates are mixed.
CarryOnProfitOnly ==
    [][gpReturn' > gpReturn =>
          1000 * (gpReturn' + gpCatchup')
              <= carriedInterest * (totalDistributed' - totalCalled)]_vars

\* The GP is paid only by a distribution after which LPs have nothing left
\* outstanding, capital or preferred return.
PrefBeforeCarry ==
    [][gpReturn' > gpReturn => LastInterestEntry'.totalCashFlow = 0]_vars

\* The GP is paid only once LPs have received at least all the capital ever
\* called, over any mix of calls, distributions and compounding dates.
LpMadeWholeFirst ==
    [][gpReturn' > gpReturn => lpReturn' >= totalCalled]_vars

\* The entries of the interest ledger never run backwards by a day, although
\* distribute takes its date from the administrator and compounding pushes
\* entries dated before the cash flow.
EntriesInDayOrder ==
    \A i \in 1..(Len(interestEntries) - 1) :
        Days(interestEntries[i].timestamp) <= Days(interestEntries[i + 1].timestamp)

\* The capital the ledger counts as outstanding was really called.
CapitalWasCalled == LastInterestEntry.capital <= totalCalled

\* Once pauseTokens has run, no call of anyone changes any balance of any of
\* the four tokens until unpauseTokens has.
PausedMeansFrozen ==
    [][\A k, l \in TokenNames :
          tokens[k].paused => tokens'[l].balances = tokens[l].balances]_vars

\* Whichever transaction moves tokens, only an account that is compliant at
\* that moment gains any.
OnlyCompliantGain ==
    [][\A k \in TokenNames, a \in Accounts :
          tokens'[k].balances[a] > tokens[k].balances[a] => a \in compliant]_vars

\* Commit tokens change hands with nobody: an account loses them only to fund
\* tokens of its own, in the same transaction and the same number.
CommitTokensOnlyConvert ==
    [][\A a \in Accounts, type \in AccountTypes :
          LET lost   == tokens[CommitToken(type)].balances[a]
                          - tokens'[CommitToken(type)].balances[a]
              gained == tokens'[FundTokenOf(type)].balances[a]
                          - tokens[FundTokenOf(type)].balances[a]
          IN  lost > 0 => gained = lost]_vars

\* "Permitting LPs to cancel their commitments prior to approval": the pending
\* total covers every pending commitment, so that the subtraction cancelCommit
\* makes for it cannot revert.
PendingCommitmentsCancellable ==
    \A a \in Accounts :
        lpCommitments[a].status = "PENDING"
            => totalInPendingLpCommits >= lpCommitments[a].amount

\* "Total cashflow including the interest": the capital the ledger counts as
\* outstanding is part of the total, so that the next distribution that pays
\* it all can subtract it from the total for its interest.
CapitalInTotal == LastInterestEntry.capital <= LastInterestEntry.totalCashFlow

\* a has a share of a distribution that it has not claimed.
HasShare(k, a) ==
    \E i \in Indices :
        /\ i \in tokens[k].lastDistributionIndex[a] .. (Len(tokens[k].distributions) - 1)
        /\ PendingDistribution(tokens[k], a, i) > 0

\* "Claiming distributions": who keeps claiming a share of what the fund has
\* distributed is paid at last, so that the token holds less than its books.
SharesArePaid ==
    \A k \in TokenNames, a \in Holders :
        HasShare(k, a)
            ~> cash[k] < tokens[k].totalDistributionAmount + tokens[k].feesPaid

=============================================================================
