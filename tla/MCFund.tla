------------------------------ MODULE MCFund ------------------------------
(***************************************************************************)
(* Instances of Fund for TLC.  One tells two stories, of commitments and   *)
(* calls on one day and of the waterfall over compounding dates; the       *)
(* others are about what holders do with the tokens.  Each instance leaves *)
(* calls out by giving them no argument values.                            *)
(***************************************************************************)
EXTENDS FundTokens, TLC

MCSymmetry == Permutations(Accounts)

\* 30 December 2023, noon the next day, and two days of January 2024.
Dec30 == timestampFromDate(2023, 12, 30)
Dec31 == timestampFromDate(2023, 12, 31) + 43200
Jan02 == timestampFromDate(2024, 1, 2)
Jan03 == timestampFromDate(2024, 1, 3)

Terms(rate, interval) ==
    [initialClosing |-> Dec30, finalClosing |-> Dec30, commitmentDate |-> Dec30,
     endDate |-> Jan03, blockSize |-> 2, prefRate |-> rate, gpClawback |-> 0,
     compoundingInterval |-> interval]

CapitalTimes == {Dec30}
CapitalTerms == {Terms(0, ANNUAL_COMPOUNDING)}

\* The administrator may waive the one management fee for everybody.
LpWaiver == {[token |-> "lpCommit", upToId |-> 1, accounts |-> Accounts]}

NoTermChanges == [n \in {} |-> {}]

\* The administrator may close the fund to LPs.
ClosingChanges == [finalClosing |-> {Dec30 - 1}]

DistributionTimes == {Dec30, Dec31, Jan02}
DistributionTerms == {Terms(1000, ANNUAL_COMPOUNDING)}

\* The two stories of one run: the block size, by which the fund accepts one
\* amount of the two that LPs may commit, tells which of them is told.
CapitalBlock == 10000
DistributionBlock == 20001

\* What a GP commits at a time.
GpAmount == 1000

StoryTerms ==
    {[Terms(0, ANNUAL_COMPOUNDING) EXCEPT !["blockSize"] = CapitalBlock,
                                          !["finalClosing"] = Jan02],
     [Terms(1000, ANNUAL_COMPOUNDING) EXCEPT !["blockSize"] = DistributionBlock]}

\* Commitments and calls, on the last day and before the first distribution;
\* when the administrator closes the fund to LPs, commitments alone.
CapitalStory ==
    /\ now = Jan02 /\ distributionCount = 0
    /\ terms["finalClosing"] = Jan02 \/ capitalCalls = << >>

\* Calls and distributions, of one LP and one commitment of the GP.
DistributionStory ==
    /\ lpAccounts \cap Gps = {}
    /\ totalCommittedGp <= GpAmount
    /\ Len(capitalCalls) <= 2
    /\ terms["finalClosing"] = Dec30

InStory ==
    IF terms["blockSize"] = CapitalBlock THEN CapitalStory ELSE DistributionStory

StoryNext ==
    \/ Next /\ InStory'
    \/ EnvironmentNext

StorySpec == Init /\ [][StoryNext]_vars

=============================================================================
