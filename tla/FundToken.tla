----------------------------- MODULE FundToken -----------------------------
(***************************************************************************)
(* One FundToken contract (src/fund_tokens/FundToken.sol) with every       *)
(* caller it serves: holders, the FUND_ADMIN and the TOKEN_ADMIN.  In the  *)
(* deployed system the TOKEN_ADMIN is the Fund contract, which calls mint, *)
(* burnFrom, chargeManagementFee, distribute, pause and unpause; the fund  *)
(* administrator holds DEFAULT_ADMIN_ROLE and can grant TOKEN_ADMIN to an  *)
(* account that calls the rest, so the machine has them all.               *)
(*                                                                         *)
(* One action is one external call, which runs alone in its transaction    *)
(* and changes nothing when it reverts: its guard is the conjunction of    *)
(* the conditions the call and its callees require.                        *)
(***************************************************************************)
EXTENDS FundTokenOps

CONSTANTS
    TokenKinds,      \* values of the constructor's isCommitToken_
    MintAmounts,     \* token amounts minted
    MoveAmounts,     \* token amounts burnt or transferred
    FeeCharges,      \* [fee, price] pairs the TOKEN_ADMIN charges
    DistAmounts,     \* USDC amounts distributed
    Scale,           \* the scale of a distribution
    MaxCash          \* bound on the contract's USDC and on feesPaid

CONSTANTS            \* enumerated and bounded for each kind of token
    MarkIds,         \* upToId of a waiver; it may lie past the last fee
    Reviewed,        \* accounts whose compliance changes
    MaxSupply        \* bound on the supply

ASSUME FundTokenAssumption ==
    /\ TokenKinds \subseteq BOOLEAN
    /\ MintAmounts \subseteq Nat
    /\ MoveAmounts \subseteq Nat
    /\ FeeCharges \subseteq Fee
    /\ MarkIds \in [BOOLEAN -> SUBSET Nat]
    /\ DistAmounts \subseteq Nat
    /\ Scale \in Nat \ {0}
    /\ Reviewed \in [BOOLEAN -> SUBSET Accounts]
    /\ MaxSupply \in [BOOLEAN -> Nat]
    /\ MaxCash \in Nat

VARIABLES
    token,       \* the contract's storage
    cash,        \* usdc.balanceOf(token)
    compliant    \* accounts the compliance registry vouches for now

vars == <<token, cash, compliant>>

TypeOK ==
    /\ token \in Ledger
    /\ cash \in Nat
    /\ compliant \in SUBSET Accounts

Init ==
    /\ \E isCommitToken \in TokenKinds : token = Deployed(isCommitToken)
    /\ cash = 0
    /\ compliant = Accounts

\* USDC's transferFrom into the contract and transfer out of it.  USDC held
\* elsewhere is not tracked: a payment in that its payer cannot fund, or has
\* not allowed, is a call that reverts and so a step that is not taken.
PayIn(amount) ==
    /\ IsUint(amount)
    /\ cash + amount <= MaxCash
    /\ cash' = cash + amount

PayOut(amount) ==
    /\ IsUint(amount)
    /\ IsUint(cash - amount)
    /\ cash' = cash - amount

-----------------------------------------------------------------------------
(* Calls of the TOKEN_ADMIN.                                               *)

Mint(to, amount) ==
    /\ token.totalSupply + amount <= MaxSupply[token.isCommitToken]
    /\ MayMove(token, compliant, TRUE, {}, {to})
    /\ token' = Minted(token, to, amount)
    /\ UNCHANGED <<cash, compliant>>

BurnFrom(from, amount) ==
    /\ MayBurn(token, compliant, from, amount)
    /\ token' = Burned(token, from, amount)
    /\ UNCHANGED <<cash, compliant>>

ChargeManagementFee(charge) ==
    /\ Len(token.fees) < MaxEvents
    /\ token' = FeeCharged(token, charge.fee, charge.price)
    /\ UNCHANGED <<cash, compliant>>

Distribute(amount) ==
    /\ Len(token.distributions) < MaxEvents
    /\ MayDistribute(token, amount, Scale)
    /\ token' = Distributed(token, amount, Scale)
    /\ PayIn(amount)
    /\ UNCHANGED compliant

ConfirmDistribution(a, i) ==
    /\ DistributionExists(token, i)
    /\ PendingDistribution(token, a, i) > 0
    /\ token' = Confirmed(token, a, i)
    /\ UNCHANGED <<cash, compliant>>

CancelDistribution(a, i) ==
    /\ DistributionExists(token, i)
    /\ PendingDistribution(token, a, i) > 0
    /\ IsUint(token.totalDistributionAmount - PendingDistribution(token, a, i))
    /\ token' = Cancelled(token, a, i)
    /\ PayOut(PendingDistribution(token, a, i))
    /\ UNCHANGED compliant

CollectFees ==
    /\ token.feesPaid > 0
    /\ token' = [token EXCEPT !.feesPaid = 0]
    /\ PayOut(token.feesPaid)
    /\ UNCHANGED compliant

Pause ==
    /\ ~ token.paused
    /\ token' = [token EXCEPT !.paused = TRUE]
    /\ UNCHANGED <<cash, compliant>>

Unpause ==
    /\ token.paused
    /\ token' = [token EXCEPT !.paused = FALSE]
    /\ UNCHANGED <<cash, compliant>>

-----------------------------------------------------------------------------
(* Calls of the FUND_ADMIN and of holders.                                 *)

MarkFeesAsPaidUpToID(upToId, accounts) ==
    /\ MayMarkFees(token, upToId, accounts)
    /\ token' = FeesMarked(token, upToId, accounts)
    /\ UNCHANGED <<cash, compliant>>

PayFees(a) ==
    /\ IsUint(Len(token.fees) - 1)
    /\ token.feesPaid + PendingFees(token, a) <= MaxCash
    /\ token' = FeesSettled(token, a)
    /\ PayIn(PendingFees(token, a))
    /\ UNCHANGED compliant

ClaimAllDistributions(a) ==
    /\ IsUint(Len(token.distributions) - 1)
    /\ ClaimsReadable(token, a)
    /\ token' = ClaimsTaken(token, a)
    /\ PayOut(TotalClaimable(token, a))
    /\ UNCHANGED compliant

\* The ERC20 transfer of a holder who is not a TOKEN_ADMIN.
Transfer(from, to, amount) ==
    /\ MayMove(token, compliant, FALSE, {from}, {to})
    /\ IsUint(token.balances[from] - amount)
    /\ token' = Transferred(token, from, to, amount)
    /\ UNCHANGED <<cash, compliant>>

\* The registry's answers change as it is updated and as time passes.
ComplianceChanges(a) ==
    /\ compliant' = (compliant \ {a}) \cup ({a} \ compliant)
    /\ UNCHANGED <<token, cash>>

Next ==
    \/ \E a \in Accounts, n \in MintAmounts : Mint(a, n)
    \/ \E a \in Accounts, n \in MoveAmounts : BurnFrom(a, n)
    \/ \E c \in FeeCharges : ChargeManagementFee(c)
    \/ \E n \in DistAmounts : Distribute(n)
    \/ \E a \in Accounts, i \in Indices : ConfirmDistribution(a, i)
    \/ \E a \in Accounts, i \in Indices : CancelDistribution(a, i)
    \/ CollectFees
    \/ Pause
    \/ Unpause
    \/ \E i \in MarkIds[token.isCommitToken], S \in SUBSET Accounts : MarkFeesAsPaidUpToID(i, S)
    \/ \E a \in Accounts : PayFees(a)
    \/ \E a \in Accounts : ClaimAllDistributions(a)
    \/ \E a, b \in Accounts, n \in MoveAmounts : Transfer(a, b, n)
    \/ \E a \in Reviewed[token.isCommitToken] : ComplianceChanges(a)

Spec == Init /\ [][Next]_vars

-----------------------------------------------------------------------------
(* Correctness.                                                            *)

\* getTotalClaimableDistributions runs its index to distributions.length and
\* not to the last entry: it never reads past the array, so a claim, a burn
\* and a transfer can never be locked out by that loop.
ClaimLoopInBounds ==
    \A a \in Accounts :
        /\ ClaimsReadable(token, a)
        /\ token.lastDistributionIndex[a] <= Len(token.distributions)

\* The contract never holds more USDC than its books show as distributed or
\* as fees collected: no payment is taken without being recorded.
CashWithinBooks ==
    cash <= token.totalDistributionAmount + token.feesPaid

\* On a commit token, which never distributes so that nothing can be claimed,
\* the contract's USDC is exactly what its books show: every fee collected is
\* still there to be handed over by collectFees.
CashMatchesBooks ==
    token.isCommitToken => cash = token.totalDistributionAmount + token.feesPaid

\* Nobody raises another account's bill: what an account owes grows only when
\* a fee is charged or by a payFees call of its own.  A transfer to it, a
\* waiver or a cancelled distribution never does, although fees and
\* distributions share the keys of one snapshot map.
OthersCannotRaiseBill ==
    [][\A a \in Accounts :
          PendingFees(token', a) > PendingFees(token, a)
              => \/ Len(token'.fees) > Len(token.fees)
                 \/ PayFees(a)]_vars

\* Calls meant to end what an account owes, or what it may claim, without a
\* payment: a waiver, and the cancellation of a distribution.
Waived(a) ==
    \E i \in MarkIds[token.isCommitToken], S \in SUBSET Accounts :
        a \in S /\ MarkFeesAsPaidUpToID(i, S)

Withdrawn(a) == \E i \in Indices : CancelDistribution(a, i)

\* Tokens arrive at an account.
Receives(a) ==
    \/ \E n \in MintAmounts : Mint(a, n)
    \/ \E b \in Accounts, n \in MoveAmounts : Transfer(b, a, n)

\* A fee owed or a confirmed distribution never just disappears: neither by
\* tokens leaving an account, nor by anything that is done to another, nor by
\* a later event that takes its snapshot's key.  It ends by the account's own
\* payment or claim, a waiver or a cancellation, with one exception: tokens
\* that arrive end both, since _beforeTokenTransfer asks the sender alone to
\* be settled and refreshes the indices of both.
OnlyReceiptForgives ==
    [][\A a \in Accounts :
          /\ PendingFees(token', a) < PendingFees(token, a)
                => PayFees(a) \/ Waived(a) \/ Withdrawn(a) \/ Receives(a)
          /\ TotalClaimable(token', a) < TotalClaimable(token, a)
                => ClaimAllDistributions(a) \/ Withdrawn(a) \/ Receives(a)]_vars

\* The snapshot of a key that both counts have passed is history: it is
\* never rewritten, except to zero when a distribution is cancelled.
PastSnapshotsFrozen ==
    [][\A a \in Accounts, i \in Indices :
          /\ i < Len(token.fees)
          /\ i < Len(token.distributions)
          => token'.snapshotBalances[a][i] \in {token.snapshotBalances[a][i], 0}]_vars

\* "It updates the lastFeeIndex to reflect that all past fees have been paid":
\* an account that has just paid its outstanding fees owes nothing.
PaymentLeavesNothing ==
    [][\A a \in Accounts : PayFees(a) => PendingFees(token', a) = 0]_vars

=============================================================================
