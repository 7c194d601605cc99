--------------------------- MODULE FundExecution ---------------------------
(***************************************************************************)
(* How the fund's longer calls execute.  Fund.tla takes each external call *)
(* in one step; here the calls that loop over accounts, years or tokens,   *)
(* or that call several contracts in turn, run step by step: one step per  *)
(* iteration and per token call.  They write a working copy of the         *)
(* storage, which becomes the storage when the call returns; a require     *)
(* that fails in any step reverts the call and drops the copy, with every  *)
(* write of the steps before.                                              *)
(*                                                                         *)
(* The arrays gpAccounts and lpAccounts are sequences, as are the lists    *)
(* the administrator gives, with whatever accounts they name twice.  The   *)
(* variables of Fund are the storage between calls; Atomic states that the *)
(* calls do to it exactly what their single steps in Fund do.              *)
(***************************************************************************)
EXTENDS Fund, Functions

CONSTANTS                \* enumerated arguments of the calls with lists
    ApprovalLists,       \* lists of accounts given to approveCommits
    WaiverLists          \* tokens, fee ids and lists of markFeesAsPaidUpToID

CONSTANT Scenarios       \* bound: the LPs and the calls of one behaviour

CallNames ==
    {"approveCommits", "capitalCall", "capitalCallDone", "distribute",
     "approveRedemption", "pauseTokens", "unpauseTokens", "markFeesAsPaidUpToID"}

\* The date given to distribute is a uint32; blocks are mined before the last
\* day that one holds.
ASSUME ExecutionAssumption ==
    /\ ApprovalLists \subseteq Seq(Accounts)
    /\ WaiverLists \subseteq [token : TokenNames, upToId : Nat, accounts : Seq(Accounts)]
    /\ Scenarios \subseteq [lps : SUBSET Lps, calls : SUBSET CallNames]
    /\ \A t \in Times : Days(t) <= LastDay

VARIABLES
    gpAccountList,       \* the array gpAccounts, duplicates included
    lpAccountList,       \* the array lpAccounts
    tx,                  \* the call that is running, or Idle
    scenario             \* what this behaviour is made of

listVars == <<gpAccountList, lpAccountList>>
execVars == <<vars, listVars, tx, scenario>>

Idle == [call |-> "none"]

\* What the running calls write.
Storage ==
    [lpCommitments       |-> lpCommitments,
     totalCommittedLp    |-> totalCommittedLp,
     capitalCalls        |-> capitalCalls,
     accountCapitalCalls |-> accountCapitalCalls,
     totalCalled         |-> totalCalled,
     redemptions         |-> redemptions,
     totalRedemptions    |-> totalRedemptions,
     interestEntries     |-> interestEntries,
     tokens              |-> tokens,
     cash                |-> cash,
     distributionCount   |-> distributionCount,
     totalDistributed    |-> totalDistributed,
     lpReturn            |-> lpReturn,
     gpReturn            |-> gpReturn,
     gpCatchup           |-> gpCatchup]

ExecInit ==
    /\ Init
    /\ gpAccountList = << >>
    /\ lpAccountList = << >>
    /\ tx = Idle
    /\ scenario \in Scenarios

-----------------------------------------------------------------------------
(* A call: it starts at a program counter, continues with what its steps   *)
(* have written so far, and returns or reverts.                            *)

\* local: the arguments and local variables.  i: the index of a loop.
Starts(call, pc, local) ==
    /\ tx = Idle
    /\ call \in scenario.calls
    /\ tx' = [call |-> call, pc |-> pc, i |-> 1, local |-> local, written |-> Storage]
    /\ UNCHANGED <<vars, listVars, scenario>>

At(call, pc) == tx.call = call /\ tx.pc = pc

Continues(next) ==
    /\ tx' = next
    /\ UNCHANGED <<vars, listVars, scenario>>

Reverts ==
    /\ tx' = Idle
    /\ UNCHANGED <<vars, listVars, scenario>>

Returns(written) ==
    /\ tx' = Idle
    /\ lpCommitments' = written.lpCommitments
    /\ totalCommittedLp' = written.totalCommittedLp
    /\ capitalCalls' = written.capitalCalls
    /\ accountCapitalCalls' = written.accountCapitalCalls
    /\ totalCalled' = written.totalCalled
    /\ redemptions' = written.redemptions
    /\ totalRedemptions' = written.totalRedemptions
    /\ interestEntries' = written.interestEntries
    /\ tokens' = written.tokens
    /\ cash' = written.cash
    /\ distributionCount' = written.distributionCount
    /\ totalDistributed' = written.totalDistributed
    /\ lpReturn' = written.lpReturn
    /\ gpReturn' = written.gpReturn
    /\ gpCatchup' = written.gpCatchup
    /\ UNCHANGED <<gpCommitments, gpAccounts, lpAccounts, totalInPendingLpCommits,
                   totalCommittedGp, terms, envVars, listVars, scenario>>

\* require(condition): the call goes on, or reverts.
Requires(condition, next) ==
    \/ condition /\ Continues(next)
    \/ ~ condition /\ Reverts

\* The same where the call has nothing left to do.
RequiresThenReturns(condition, written) ==
    \/ condition /\ Returns(written)
    \/ ~ condition /\ Reverts

InLoop(call, pc, list) == At(call, pc) /\ tx.i <= Len(list)
LoopEnds(call, pc, list) == At(call, pc) /\ tx.i > Len(list)

MayMintInto(ledgers, k, account) ==
    MayMove(ledgers[k], compliant, TRUE, {}, {account})

-----------------------------------------------------------------------------
(* approveCommits: an account per iteration, approved and minted to.       *)

startApproveCommits(accounts) ==
    /\ totalCommittedLp + Approved(Range(accounts)) <= MaxCommittedLp
    /\ Starts("approveCommits", "accounts", [accounts |-> accounts])

\* A wrong IsPending: the status is the one before the call.
WasPending(account) == lpCommitments[account].status = "PENDING"

IsPending(account) == tx.written.lpCommitments[account].status = "PENDING"

approveNext ==
    /\ InLoop("approveCommits", "accounts", tx.local.accounts)
    /\ LET a == tx.local.accounts[tx.i]
           amount == tx.written.lpCommitments[a].amount
       IN  Requires(/\ IsPending(a)
                    /\ MayMintInto(tx.written.tokens, "lpCommit", a),
                    [tx EXCEPT
                       !.i = @ + 1,
                       !.written.lpCommitments[a].status = "APPROVED",
                       !.written.totalCommittedLp = @ + amount,
                       !.written.tokens["lpCommit"] = Minted(@, a, amount \div price)])

approveReturns ==
    /\ LoopEnds("approveCommits", "accounts", tx.local.accounts)
    /\ Returns(tx.written)

-----------------------------------------------------------------------------
(* Compounding, inside capitalCall and distribute: a year or a quarter per *)
(* iteration.  mark is the loop's variable: the next year to compound, or  *)
(* the day od of the quarterly loop, which _nextQuarter takes as seconds.  *)

Annually == terms["compoundingInterval"] = ANNUAL_COMPOUNDING

\* The local variables of a cash flow of `amount` at `time`.
CashFlow(amount, time) ==
    [amount     |-> amount,
     time       |-> time,
     mark       |-> IF Annually THEN getYear(LastInterestEntry.timestamp) + 1
                    ELSE Days(LastInterestEntry.timestamp),
     latest     |-> IF Annually THEN getYear(time) ELSE Days(QuarterStart(time)),
     quarterEnd |-> Days(NextQuarter(LastInterestEntry.timestamp)),
     run        |-> Started(LastInterestEntry),
     payments   |-> << >>]

CompoundingGoesOn ==
    LastInterestEntry.timestamp > 0 /\ tx.local.mark <= tx.local.latest

\* A wrong NextMark: the day od is made seconds before its quarter is taken.
NextMarkInSeconds(mark) ==
    IF Annually THEN mark + 1 ELSE Days(NextQuarter(mark * DaySeconds))

NextMark(mark) == IF Annually THEN mark + 1 ELSE NextQuarter(mark)

\* What one iteration computes and pushes.
CompoundedOnce(run, mark) ==
    LET stamp == mark * DaySeconds
    IN  IF Annually THEN AnnualStep(run, mark, terms["prefRate"])
        ELSE CompoundedTo(run, tx.local.quarterEnd - mark, terms["prefRate"], stamp, stamp)

compoundNext ==
    /\ tx.call \in {"capitalCall", "distribute"} /\ tx.pc = "compounding"
    /\ CompoundingGoesOn
    /\ \E run \in {CompoundedOnce(tx.local.run, tx.local.mark)} :
          Continues([tx EXCEPT !.local.run = run, !.local.mark = NextMark(@)])

CompoundingEnds(call) ==
    /\ At(call, "compounding")
    /\ ~ CompoundingGoesOn

\* Pushed entries are storage the cash flow adds its own to.
WithEntries(written, pushed) == [written EXCEPT !.interestEntries = @ \o pushed]

-----------------------------------------------------------------------------
(* capitalCall: a record per iteration over the GPs, then over the LPs.    *)

startCapitalCall(amount) ==
    /\ Len(capitalCalls) < MaxCalls
    /\ Starts("capitalCall", "call", CashFlow(amount, now))

callAdded ==
    /\ At("capitalCall", "call")
    /\ Requires(/\ WithinCommitments(tx.local.amount)
                /\ totalCommitted > 0
                /\ (tx.local.amount * scale) \div totalCommitted > 0,
                [tx EXCEPT !.pc = "gps",
                           !.written.capitalCalls = Append(@, tx.local.amount)])

\* uint16(capitalCalls.length - 1)
CallId == (Len(tx.written.capitalCalls) - 1) % CallIdRange

RecordsShare(account, share, type) ==
    Requires(share # 0,
             [tx EXCEPT !.i = @ + 1,
                        !.written.accountCapitalCalls[account][CallId] =
                            AccountCall(share, type)])

gpShareNext ==
    /\ InLoop("capitalCall", "gps", gpAccountList)
    /\ LET a == gpAccountList[tx.i]
       IN  RecordsShare(a, GpShare(tx.local.amount, a), "GP")

gpSharesEnd ==
    /\ LoopEnds("capitalCall", "gps", gpAccountList)
    /\ Continues([tx EXCEPT !.pc = "lps", !.i = 1])

lpShareNext ==
    /\ InLoop("capitalCall", "lps", lpAccountList)
    /\ LET a == lpAccountList[tx.i]
       IN  RecordsShare(a, LpShare(tx.local.amount, a), "LP")

lpSharesEnd ==
    /\ LoopEnds("capitalCall", "lps", lpAccountList)
    /\ Continues([tx EXCEPT !.pc = "compounding",
                            !.written.totalCalled = @ + tx.local.amount])

inflowAdded ==
    /\ CompoundingEnds("capitalCall")
    /\ \E flow \in {InflowAfter(tx.local.run, tx.local.amount, terms["prefRate"], now)} :
          RequiresThenReturns(flow.completes, WithEntries(tx.written, flow.pushed))

-----------------------------------------------------------------------------
(* capitalCallDone and approveRedemption: the fund, then a token, then     *)
(* another.                                                                *)

startCapitalCallDone(callId, account, callPrice) ==
    LET acc == accountCapitalCalls[account][callId]
    IN  Starts("capitalCallDone", "burn",
               [callId |-> callId, account |-> account, callPrice |-> callPrice,
                type |-> acc.accountType, tokenAmount |-> acc.amount \div callPrice])

commitTokensBurned ==
    /\ At("capitalCallDone", "burn")
    /\ LET k == CommitToken(tx.local.type)
           a == tx.local.account
           n == tx.local.tokenAmount
       IN  Requires(/\ tx.written.tokens[k].balances[a] >= n
                    /\ MayBurn(tx.written.tokens[k], compliant, a, n),
                    [tx EXCEPT !.pc = "mint", !.written.tokens[k] = Burned(@, a, n)])

fundTokensMinted ==
    /\ At("capitalCallDone", "mint")
    /\ LET k == FundTokenOf(tx.local.type)
           a == tx.local.account
       IN  RequiresThenReturns(
               MayMintInto(tx.written.tokens, k, a),
               [tx.written EXCEPT
                  !.tokens[k] = Minted(@, a, tx.local.tokenAmount),
                  !.accountCapitalCalls[a][tx.local.callId].isDone = TRUE])

startApproveRedemption(account) ==
    Starts("approveRedemption", "approve", [account |-> account])

redemptionApproved ==
    /\ At("approveRedemption", "approve")
    /\ LET a == tx.local.account
           request == tx.written.redemptions[a]
       IN  Requires(request.status = "PENDING",
                    [tx EXCEPT !.pc = "burn",
                               !.written.redemptions[a].status = "APPROVED",
                               !.written.totalRedemptions = @ + request.amount])

redeemedBurned ==
    /\ At("approveRedemption", "burn")
    /\ LET a == tx.local.account
           n == tx.written.redemptions[a].amount
       IN  RequiresThenReturns(
               MayBurn(tx.written.tokens["lpFund"], compliant, a, n),
               [tx.written EXCEPT !.tokens["lpFund"] = Burned(@, a, n)])

-----------------------------------------------------------------------------
(* distribute: the outflow, then each token that is paid.                  *)

Payment(type, amount) ==
    IF amount > 0 THEN <<[type |-> type, amount |-> amount]>> ELSE << >>

\* LPs are paid first while the GP's catch-up lasts, the GP first beyond it.
Payments(pay) ==
    LET lp == Payment("LP", Shares(pay).lp)
        gp == Payment("GP", Shares(pay).gp)
    IN  IF pay.remaining <= CatchupOwed(pay.interestPaid) THEN lp \o gp ELSE gp \o lp

startDistribute(amount, time) ==
    /\ distributionCount < MaxDistributions
    /\ Starts("distribute", "compounding", CashFlow(amount, time))

outflowAdded ==
    /\ CompoundingEnds("distribute")
    /\ \E pay \in {OutflowAfter(tx.local.run, tx.local.amount, terms["prefRate"],
                                tx.local.time)} :
          Requires(pay.completes,
                   [tx EXCEPT
                      !.pc = "pay",
                      !.local.payments = Payments(pay),
                      !.written = [WithEntries(tx.written, pay.pushed) EXCEPT
                          !.distributionCount = @ + 1,
                          !.totalDistributed  = @ + tx.local.amount,
                          !.gpCatchup         = Shares(pay).catchup]])

\* A wrong WithReturn: both payments are booked as the LPs'.
WithReturnToLps(written, type, n) == [written EXCEPT !.lpReturn = @ + n]

WithReturn(written, type, n) ==
    IF type = "LP" THEN [written EXCEPT !.lpReturn = @ + n]
    ELSE [written EXCEPT !.gpReturn = @ + n]

payNext ==
    /\ InLoop("distribute", "pay", tx.local.payments)
    /\ LET n == tx.local.payments[tx.i].amount
           type == tx.local.payments[tx.i].type
           k == FundTokenOf(type)
       IN  Requires(MayDistribute(tx.written.tokens[k], n, scale),
                    [tx EXCEPT
                       !.i = @ + 1,
                       !.written = [WithReturn(tx.written, type, n) EXCEPT
                           !.tokens[k] = Distributed(@, n, scale),
                           !.cash[k]   = @ + n]])

distributeReturns ==
    /\ LoopEnds("distribute", "pay", tx.local.payments)
    /\ Returns(tx.written)

-----------------------------------------------------------------------------
(* pauseTokens, unpauseTokens and markFeesAsPaidUpToID.                    *)

TokenOrder == <<"gpCommit", "lpCommit", "gpFund", "lpFund">>

startPauseTokens == Starts("pauseTokens", "tokens", [paused |-> TRUE])
startUnpauseTokens == Starts("unpauseTokens", "tokens", [paused |-> FALSE])

switchNext ==
    /\ tx.call \in {"pauseTokens", "unpauseTokens"} /\ tx.i <= Len(TokenOrder)
    /\ LET k == TokenOrder[tx.i]
       IN  Requires(tx.written.tokens[k].paused # tx.local.paused,
                    [tx EXCEPT !.i = @ + 1,
                               !.written.tokens[k].paused = tx.local.paused])

switchReturns ==
    /\ tx.call \in {"pauseTokens", "unpauseTokens"} /\ tx.i > Len(TokenOrder)
    /\ Returns(tx.written)

startMarkFeesAsPaidUpToID(waiver) ==
    Starts("markFeesAsPaidUpToID", "accounts", waiver)

FeeIndex(account) == tx.written.tokens[tx.local.token].lastFeeIndex[account]

\* A wrong MayAdvance: an account that is already there is refused.
MayAdvanceFurther(account) == tx.local.upToId > FeeIndex(account)

MayAdvance(account) == tx.local.upToId >= FeeIndex(account)

\* A wrong AfterWaiver: an account that is skipped is not stepped over.
AfterWaiverStuck(account) ==
    IF tx.local.upToId > FeeIndex(account)
    THEN [tx EXCEPT !.i = @ + 1,
                    !.written.tokens[tx.local.token].lastFeeIndex[account] = tx.local.upToId]
    ELSE tx

AfterWaiver(account) ==
    IF tx.local.upToId > FeeIndex(account)
    THEN [tx EXCEPT !.i = @ + 1,
                    !.written.tokens[tx.local.token].lastFeeIndex[account] = tx.local.upToId]
    ELSE [tx EXCEPT !.i = @ + 1]

waiveNext ==
    /\ InLoop("markFeesAsPaidUpToID", "accounts", tx.local.accounts)
    /\ LET a == tx.local.accounts[tx.i]
       IN  Requires(MayAdvance(a), AfterWaiver(a))

waiverReturns ==
    /\ LoopEnds("markFeesAsPaidUpToID", "accounts", tx.local.accounts)
    /\ Returns(tx.written)

-----------------------------------------------------------------------------
(* The calls that are one step here too.                                   *)

\* A wrong NeverCommitted: an account that cancelled counts as new.
NoLongerCommitted(account) == lpCommitments[account].status \in {"NONE", "CANCELLED"}

NeverCommitted(account) == lpCommitments[account].status = "NONE"

\* lpAccounts.push(account), for an account that never committed before.
PushesLp(account) ==
    /\ lpAccountList' = IF NeverCommitted(account) THEN Append(lpAccountList, account)
                        ELSE lpAccountList
    /\ UNCHANGED <<gpAccountList, tx, scenario>>

\* gpAccounts.push(account), at every commitment.
PushesGp(account) ==
    /\ gpAccountList' = Append(gpAccountList, account)
    /\ UNCHANGED <<lpAccountList, tx, scenario>>

CommitmentStep ==
    /\ tx = Idle
    /\ \/ \E a \in scenario.lps, n \in CommitAmounts : commit(a, n) /\ PushesLp(a)
       \/ \E a \in scenario.lps, n \in CommitAmounts : addLpCommit(a, n) /\ PushesLp(a)
       \/ \E a \in Gps, n \in GpCommitAmounts : issueGpCommit(a, n) /\ PushesGp(a)

RedemptionStep ==
    /\ "approveRedemption" \in scenario.calls
    /\ \/ \E a \in Redeemers, n \in RedemptionAmounts : addRedemption(a, n)
       \/ \E a \in Redeemers : cancelRedemption(a)
       \/ \E a \in Redeemers : rejectRedemption(a)

SingleStep ==
    /\ tx = Idle
    /\ UNCHANGED <<listVars, tx, scenario>>
    /\ \/ \E a \in Lps : cancelCommit(a)
       \/ chargeManagementFee
       \/ RedemptionStep
       \/ \E n \in DOMAIN TermChanges : \E v \in TermChanges[n] : setTerm(n, v)
       \/ \E k \in TokenNames, a \in Holders : payFees(k, a)
       \/ \E k \in TokenNames, a \in Holders : claimAllDistributions(k, a)
       \/ \E k \in TokenNames, a \in Holders, b \in Accounts, n \in TransferAmounts :
             transfer(k, a, b, n)
       \/ EnvironmentNext

Start ==
    \/ \E list \in ApprovalLists : startApproveCommits(list)
    \/ \E n \in CallAmounts : startCapitalCall(n)
    \/ \E c \in CallIds, a \in Accounts, p \in CallPrices : startCapitalCallDone(c, a, p)
    \/ \E n \in DistAmounts, t \in Times : startDistribute(n, t)
    \/ \E a \in Redeemers : startApproveRedemption(a)
    \/ startPauseTokens
    \/ startUnpauseTokens
    \/ \E w \in WaiverLists : startMarkFeesAsPaidUpToID(w)

\* The next step of the call that is running.
Executes ==
    \/ approveNext \/ approveReturns
    \/ callAdded
    \/ gpShareNext \/ gpSharesEnd
    \/ lpShareNext \/ lpSharesEnd
    \/ compoundNext
    \/ inflowAdded
    \/ commitTokensBurned \/ fundTokensMinted
    \/ redemptionApproved \/ redeemedBurned
    \/ outflowAdded
    \/ payNext \/ distributeReturns
    \/ switchNext \/ switchReturns
    \/ waiveNext \/ waiverReturns

ExecNext == CommitmentStep \/ SingleStep \/ Start \/ Executes

\* A call that has started is executed to its end; nothing else is promised.
ExecSpec == ExecInit /\ [][ExecNext]_execVars /\ WF_execVars(Executes)

-----------------------------------------------------------------------------
(* Correctness.                                                            *)

\* Between calls every LP is listed once, however often it cancels and commits
\* again, and a GP once per commitment; a running call has well-typed storage
\* whatever it has written so far.
ExecTypeOK ==
    /\ TypeOK
    /\ gpAccountList \in Seq(Accounts)
    /\ lpAccountList \in Seq(Accounts) /\ IsInjective(lpAccountList)
    /\ tx # Idle =>
          /\ tx.written.lpCommitments \in [Accounts -> Commit]
          /\ tx.written.tokens \in [TokenNames -> Ledger]
          /\ tx.written.accountCapitalCalls
               \in [Accounts -> [CallIds -> AccountCapitalCall]]

\* The calls as Fund states them: over sets of accounts, in one step.
Atomic == INSTANCE Fund WITH
    gpAccounts <- Range(gpAccountList),
    lpAccounts <- Range(lpAccountList),
    Pausing    <- TRUE,
    Waivers    <- {[w EXCEPT !.accounts = Range(@)] : w \in WaiverLists}

\* Every call that returns has done to the storage what its one step in Fund
\* does, and every call that reverts nothing: neither the order of the loops,
\* an account listed twice, a status changed by an earlier iteration, nor a
\* check that fails after others have written can be told from outside.
ImplementsFund == Atomic!Spec

\* The running call as Fund has it; Possible says that it can be taken.
AtomicCall ==
    CASE tx.call = "approveCommits"    -> Atomic!approveCommits(Range(tx.local.accounts))
      [] tx.call = "capitalCall"       -> Atomic!capitalCall(tx.local.amount)
      [] tx.call = "capitalCallDone"   -> Atomic!capitalCallDone(tx.local.callId,
                                              tx.local.account, tx.local.callPrice)
      [] tx.call = "approveRedemption" -> Atomic!approveRedemption(tx.local.account)
      [] tx.call = "pauseTokens"       -> Atomic!pauseTokens
      [] tx.call = "unpauseTokens"     -> Atomic!unpauseTokens
      [] tx.call = "markFeesAsPaidUpToID" ->
            Atomic!markFeesAsPaidUpToID(tx.local.token, tx.local.upToId,
                                        Range(tx.local.accounts))

\* distribute's cash flow is computed once, outside of ENABLED.
DistributePossible ==
    \E pay \in {Outflow(tx.local.amount, terms["prefRate"], tx.local.time,
                        terms["compoundingInterval"])} :
        pay.completes /\ ENABLED DistributeShares(Shares(pay))

Possible ==
    IF tx.call = "distribute" THEN DistributePossible
    ELSE ENABLED (UNCHANGED listVars /\ AtomicCall /\ Storage' # Storage)

\* A call reverts only when its one step in Fund, from the same storage, could
\* not be taken: Fund's guards leave out no check that some later step of the
\* code makes on what earlier steps have written.  The exception is the list
\* that names an account twice, which approveCommits refuses and a set forgets.
RevertsAsFund ==
    [][(/\ tx # Idle /\ tx' = Idle /\ UNCHANGED vars
        /\ tx.call = "approveCommits" => IsInjective(tx.local.accounts))
           => ~ Possible]_execVars

\* Every call ends, by returning or by reverting: the loops over years, over
\* quarters counted in days, and over lists with repeated accounts all finish.
CallsEnd == tx # Idle ~> tx = Idle

=============================================================================
