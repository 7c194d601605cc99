-------------------------- MODULE MCFundExecution --------------------------
(***************************************************************************)
(* An instance of FundExecution: a GP, who may also commit as an LP, and   *)
(* an LP, over a New Year, under either compounding period.                *)
(***************************************************************************)
EXTENDS FundExecution

CONSTANTS a1, a2

Dec30 == timestampFromDate(2023, 12, 30)
Jan02 == timestampFromDate(2024, 1, 2)

MCTimes == {Dec30, Jan02}

MCTerms ==
    {[initialClosing |-> Dec30, finalClosing |-> Dec30, commitmentDate |-> Dec30,
      endDate |-> Jan02, blockSize |-> 2, prefRate |-> 1500, gpClawback |-> 0,
      compoundingInterval |-> interval] :
        interval \in {ANNUAL_COMPOUNDING, QUARTERLY_COMPOUNDING}}

MCTermChanges == [n \in {} |-> {}]

\* One account, one twice, and one before another.
MCApprovalLists == {<<a2>>, <<a2, a2>>, <<a2, a1>>}

MCWaiverLists ==
    {[token |-> "gpFund", upToId |-> 1, accounts |-> <<a2, a1, a2>>],
     [token |-> "gpFund", upToId |-> 0, accounts |-> <<a2, a1>>]}

\* One LP's capital is raised and one thing more is done, or both LPs commit
\* and the administrator approves them and waives fees.
Raising(more) ==
    [lps |-> {a2}, calls |-> {"approveCommits", "capitalCall", "capitalCallDone"} \cup more]

MCScenarios ==
    {Raising({"distribute"}),
     Raising({"approveRedemption"}),
     Raising({"pauseTokens", "unpauseTokens"}),
     [lps |-> {a1, a2}, calls |-> {"approveCommits", "markFeesAsPaidUpToID"}]}

=============================================================================
