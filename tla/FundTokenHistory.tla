------------------------- MODULE FundTokenHistory -------------------------
(***************************************************************************)
(* FundToken with a record of what each account held when each             *)
(* distribution was made, to compare with what the contract's snapshots    *)
(* say of it later.                                                        *)
(***************************************************************************)
EXTENDS FundToken

VARIABLE holdings      \* the balances at each distribution, in order

HistoryInit == Init /\ holdings = << >>

HistoryNext ==
    /\ Next
    /\ holdings' = IF Len(token'.distributions) > Len(token.distributions)
                   THEN Append(holdings, token.balances)
                   ELSE holdings

HistorySpec == HistoryInit /\ [][HistoryNext]_<<vars, holdings>>

ShareOfHolding(a, i) ==
    (token.distributions[i + 1].scaledShare * holdings[i + 1][a])
        \div token.distributions[i + 1].scale

\* "Fees and distributions are calculated based on token balances at the time
\* events occur": once an account's snapshots have moved past a distribution,
\* what is pending for it under that distribution is its share for the tokens
\* it held when the distribution was made.
EntitledByHoldings ==
    \A a \in Accounts, i \in 0..(Len(token.distributions) - 1) :
        i < token.lastDistributionIndex[a]
            => PendingDistribution(token, a, i) = ShareOfHolding(a, i)

=============================================================================
