--------------------------- MODULE FundTokenOps ---------------------------
(***************************************************************************)
(* The ledger of one FundToken contract (src/fund_tokens/FundToken.sol) as *)
(* a record, with the effect of each of its functions as an operator from  *)
(* ledger to ledger and its require conditions as predicates.  The fund    *)
(* owns four such ledgers; FundToken.tla drives one alone and Fund.tla     *)
(* composes the four.                                                      *)
(*                                                                         *)
(* The zero address never holds tokens, so its snapshots are always zero   *)
(* and it never owes or claims anything: it is left out, and a mint or a   *)
(* burn touches one account only.  distId and the distribution type are    *)
(* logged and never read: a distribution is its index, as it is for        *)
(* _getPendingDistribution.                                                *)
(***************************************************************************)
EXTENDS Integers, Sequences, FiniteSetsExt

CONSTANTS
    Accounts,       \* addresses that may hold tokens
    MaxEvents       \* bound on fees and on distributions of one token

ASSUME MaxEventsAssumption == MaxEvents \in Nat \ {0}

\* Addresses have 160 bits.
ASSUME AccountsAssumption == IsFiniteSet(Accounts)

\* The keys of snapshotBalances[account]: a count of fees or of distributions.
Indices == 0..MaxEvents

\* Solidity 0.8 reverts when an unsigned subtraction would be negative.
IsUint(n) == n \in Nat

Fee == [fee : Nat, price : Nat]

\* A scale of zero leaves a share of zero, which distribute refuses.
Distribution == [scaledShare : Nat, scale : Nat \ {0}]

Ledger ==
    [isCommitToken           : BOOLEAN,
     balances                : [Accounts -> Nat],
     totalSupply             : Nat,
     fees                    : Seq(Fee),
     distributions           : Seq(Distribution),
     snapshotBalances        : [Accounts -> [Indices -> Nat]],
     lastFeeIndex            : [Accounts -> Nat],
     lastDistributionIndex   : [Accounts -> Nat],
     confirmedDistributions  : [Accounts -> SUBSET Nat],
     totalDistributionAmount : Nat,
     feesPaid                : Nat,
     paused                  : BOOLEAN]

Deployed(isCommit) ==
    [isCommitToken           |-> isCommit,
     balances                |-> [a \in Accounts |-> 0],
     totalSupply             |-> 0,
     fees                    |-> << >>,
     distributions           |-> << >>,
     snapshotBalances        |-> [a \in Accounts |-> [i \in Indices |-> 0]],
     lastFeeIndex            |-> [a \in Accounts |-> 0],
     lastDistributionIndex   |-> [a \in Accounts |-> 0],
     confirmedDistributions  |-> [a \in Accounts |-> {}],
     totalDistributionAmount |-> 0,
     feesPaid                |-> 0,
     paused                  |-> FALSE]

-----------------------------------------------------------------------------
(* What an account owes and may claim.  Array index i is position i + 1.   *)

CalculateFee(t, a, i) ==
    LET fee == t.fees[i + 1]
    IN  ((t.snapshotBalances[a][i] * fee.fee) \div 1000) * fee.price

PendingFees(t, a) ==
    SumFunction([i \in t.lastFeeIndex[a] .. (Len(t.fees) - 1) |-> CalculateFee(t, a, i)])

\* distributions[i] panics past the end of the array.
DistributionExists(t, i) == i < Len(t.distributions)

PendingDistribution(t, a, i) ==
    LET dist == t.distributions[i + 1]
    IN  (dist.scaledShare * t.snapshotBalances[a][i]) \div dist.scale

\* The loop runs to i <= distributions.length and skips what is not confirmed.
Claimable(t, a) ==
    {i \in t.lastDistributionIndex[a] .. Len(t.distributions) :
        i \in t.confirmedDistributions[a]}

ClaimsReadable(t, a) == \A i \in Claimable(t, a) : DistributionExists(t, i)

TotalClaimable(t, a) ==
    SumFunction([i \in Claimable(t, a) |-> PendingDistribution(t, a, i)])

-----------------------------------------------------------------------------
(* Moving tokens: _beforeTokenTransfer and the ERC20 movement it guards.   *)

Settled(t, a) ==
    /\ PendingFees(t, a) = 0
    /\ ClaimsReadable(t, a)
    /\ TotalClaimable(t, a) = 0

\* A wrong MayMove: the recipient's compliance is not asked for.
MayMoveFromCompliant(t, compliant, byTokenAdmin, from, to) ==
    /\ \A a \in from : Settled(t, a)
    /\ ~ t.isCommitToken \/ byTokenAdmin
    /\ from \subseteq compliant
    /\ ~ t.paused

\* A wrong MayMove: a sender's distributions are not asked for.
MayMoveOnceFeesPaid(t, compliant, byTokenAdmin, from, to) ==
    /\ \A a \in from : PendingFees(t, a) = 0
    /\ ~ t.isCommitToken \/ byTokenAdmin
    /\ from \cup to \subseteq compliant
    /\ ~ t.paused

\* from and to are sets of accounts without address(0): a mint has no from.
MayMove(t, compliant, byTokenAdmin, from, to) ==
    /\ \A a \in from : Settled(t, a)
    /\ ~ t.isCommitToken \/ byTokenAdmin
    /\ from \cup to \subseteq compliant
    /\ ~ t.paused

\* A wrong StaleKeys: the keys of the events themselves.
StaleKeysOfEvents(t, a) ==
    {i \in {Len(t.distributions) - 1} : i + 1 # t.lastDistributionIndex[a]}
        \cup {i \in {Len(t.fees) - 1} : i + 1 # t.lastFeeIndex[a]}

\* The keys _updateSnapshot writes: the two counts, where they have grown.
StaleKeys(t, a) ==
    {i \in {Len(t.distributions)} : i # t.lastDistributionIndex[a]}
        \cup {i \in {Len(t.fees)} : i # t.lastFeeIndex[a]}

\* _updateSnapshot: balances before the movement, under the shared key map.
Touched(t, parties) ==
    [t EXCEPT
      !.snapshotBalances = [a \in Accounts |-> [i \in Indices |->
          IF a \in parties /\ i \in StaleKeys(t, a)
          THEN t.balances[a] ELSE t.snapshotBalances[a][i]]],
      !.lastDistributionIndex = [a \in Accounts |->
          IF a \in parties THEN Len(t.distributions) ELSE @[a]],
      !.lastFeeIndex = [a \in Accounts |->
          IF a \in parties THEN Len(t.fees) ELSE @[a]]]

Minted(t, to, amount) ==
    [Touched(t, {to}) EXCEPT !.balances[to] = t.balances[to] + amount,
                             !.totalSupply  = t.totalSupply + amount]

\* Minting to several accounts in one call, each its own amount: the mints
\* touch different accounts, so that their order does not matter.
MintedToEach(t, accounts, amounts) ==
    [Touched(t, accounts) EXCEPT
      !.balances = [a \in Accounts |->
          IF a \in accounts THEN t.balances[a] + amounts[a] ELSE t.balances[a]],
      !.totalSupply = t.totalSupply + SumFunctionOnSet(amounts, accounts)]

\* A wrong MayBurn: more than the balance may be burnt.
MayBurnAnything(t, compliant, from, amount) ==
    MayMove(t, compliant, TRUE, {from}, {})

\* _burn asks for the balance; that the supply covers it follows from being
\* the balances' sum, and Solidity subtracts it unchecked.
MayBurn(t, compliant, from, amount) ==
    /\ MayMove(t, compliant, TRUE, {from}, {})
    /\ IsUint(t.balances[from] - amount)
    /\ IsUint(t.totalSupply - amount)

Burned(t, from, amount) ==
    [Touched(t, {from}) EXCEPT !.balances[from] = t.balances[from] - amount,
                               !.totalSupply    = t.totalSupply - amount]

\* A transfer to oneself leaves the balance and refreshes the snapshots.
Transferred(t, from, to, amount) ==
    [Touched(t, {from, to}) EXCEPT !.balances =
        IF from = to THEN t.balances
        ELSE [t.balances EXCEPT ![from] = @ - amount, ![to] = @ + amount]]

-----------------------------------------------------------------------------
(* Fees and distributions.                                                 *)

FeeCharged(t, fee, price) ==
    [t EXCEPT !.fees = Append(t.fees, [fee |-> fee, price |-> price])]

\* A wrong FeesSettled: what is paid is not recorded.
FeesSettledUnrecorded(t, a) ==
    [t EXCEPT !.lastFeeIndex[a] = Len(t.fees) - 1]

FeesSettled(t, a) ==
    [t EXCEPT !.lastFeeIndex[a] = Len(t.fees) - 1,
              !.feesPaid        = t.feesPaid + PendingFees(t, a)]

\* A wrong MayMarkFees: a waiver may move an account back.
MayMarkFeesBackwards(t, upToId, accounts) == TRUE

MayMarkFees(t, upToId, accounts) ==
    \A a \in accounts : upToId >= t.lastFeeIndex[a]

FeesMarked(t, upToId, accounts) ==
    [t EXCEPT !.lastFeeIndex = [a \in Accounts |->
        IF a \in accounts THEN upToId ELSE t.lastFeeIndex[a]]]

ScaledShare(t, amount, scale) == (amount * scale) \div t.totalSupply

MayDistribute(t, amount, scale) ==
    /\ ~ t.isCommitToken
    /\ t.totalSupply > 0
    /\ ScaledShare(t, amount, scale) > 0

\* A wrong Distributed: the amount is not added to the total.
DistributedUnrecorded(t, amount, scale) ==
    [t EXCEPT !.distributions = Append(t.distributions,
          [scaledShare |-> ScaledShare(t, amount, scale), scale |-> scale])]

Distributed(t, amount, scale) ==
    [t EXCEPT
      !.distributions = Append(t.distributions,
          [scaledShare |-> ScaledShare(t, amount, scale), scale |-> scale]),
      !.totalDistributionAmount = t.totalDistributionAmount + amount]

Confirmed(t, a, i) ==
    [t EXCEPT !.confirmedDistributions[a] = @ \cup {i}]

Cancelled(t, a, i) ==
    [t EXCEPT
      !.snapshotBalances[a][i]  = 0,
      !.totalDistributionAmount = @ - PendingDistribution(t, a, i)]

\* A wrong ClaimsTaken: the index passes the end of the array.
ClaimsTakenPastEnd(t, a) ==
    [t EXCEPT !.lastDistributionIndex[a] = Len(t.distributions) + 1]

ClaimsTaken(t, a) ==
    [t EXCEPT !.lastDistributionIndex[a] = Len(t.distributions) - 1]

=============================================================================
