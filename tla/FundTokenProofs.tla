-------------------------- MODULE FundTokenProofs --------------------------
(***************************************************************************)
(* What holds of one FundToken contract for every set of accounts, every   *)
(* number of events and every amount.                                      *)
(***************************************************************************)
EXTENDS FundToken, LedgerLemmas

-----------------------------------------------------------------------------
(* Type correctness.                                                       *)

LEMMA InitType == Init => TypeOK
  BY FundTokenAssumption, DeployedType DEF Init, TypeOK

\* Every call of every caller leaves the storage well typed: no subtraction
\* that the guards let through falls below zero.
LEMMA NextType == TypeOK /\ [Next]_vars => TypeOK'
  <1> SUFFICES ASSUME TypeOK, [Next]_vars PROVE TypeOK'
    OBVIOUS
  <1> USE FundTokenAssumption
  <1>1. ASSUME NEW a \in Accounts, NEW n \in MintAmounts, Mint(a, n)
        PROVE  TypeOK'
    BY <1>1, MintedType DEF TypeOK, Mint
  <1>2. ASSUME NEW a \in Accounts, NEW n \in MoveAmounts, BurnFrom(a, n)
        PROVE  TypeOK'
    BY <1>2, BurnedType DEF TypeOK, BurnFrom, MayBurn
  <1>3. ASSUME NEW c \in FeeCharges, ChargeManagementFee(c)
        PROVE  TypeOK'
    <2>1. c.fee \in Nat /\ c.price \in Nat
      BY DEF Fee
    <2> QED BY <1>3, <2>1, FeeChargedType DEF TypeOK, ChargeManagementFee
  <1>4. ASSUME NEW n \in DistAmounts, Distribute(n)
        PROVE  TypeOK'
    <2>1. n \in Nat /\ Scale \in Nat \ {0} /\ cash + n \in Nat
      BY DEF TypeOK
    <2> QED BY <1>4, <2>1, DistributedType DEF TypeOK, Distribute, MayDistribute, PayIn
  <1>5. ASSUME NEW a \in Accounts, NEW i \in Indices, ConfirmDistribution(a, i)
        PROVE  TypeOK'
    <2>1. i \in Nat
      BY DEF Indices
    <2> QED BY <1>5, <2>1, ConfirmedType DEF TypeOK, ConfirmDistribution
  <1>6. ASSUME NEW a \in Accounts, NEW i \in Indices, CancelDistribution(a, i)
        PROVE  TypeOK'
    BY <1>6, CancelledType DEF TypeOK, CancelDistribution, PayOut, IsUint
  <1>7. CASE CollectFees
    BY <1>7 DEF TypeOK, CollectFees, PayOut, Ledger, IsUint
  <1>8. CASE Pause
    BY <1>8 DEF TypeOK, Pause, Ledger
  <1>9. CASE Unpause
    BY <1>9 DEF TypeOK, Unpause, Ledger
  <1>10. ASSUME NEW i \in MarkIds[token.isCommitToken],
                NEW S \in SUBSET Accounts, MarkFeesAsPaidUpToID(i, S)
         PROVE  TypeOK'
    <2>1. token \in Ledger /\ i \in Nat
      BY DEF TypeOK, Ledger
    <2> QED BY <1>10, <2>1, FeesMarkedType DEF TypeOK, MarkFeesAsPaidUpToID
  <1>11. ASSUME NEW a \in Accounts, PayFees(a)
         PROVE  TypeOK'
    BY <1>11, FeesSettledType DEF TypeOK, PayFees, PayIn, IsUint
  <1>12. ASSUME NEW a \in Accounts, ClaimAllDistributions(a)
         PROVE  TypeOK'
    BY <1>12, ClaimsTakenType DEF TypeOK, ClaimAllDistributions, PayOut, IsUint
  <1>13. ASSUME NEW a \in Accounts, NEW b \in Accounts, NEW n \in MoveAmounts,
                Transfer(a, b, n)
         PROVE  TypeOK'
    BY <1>13, TransferredType DEF TypeOK, Transfer
  <1>14. ASSUME NEW a \in Reviewed[token.isCommitToken], ComplianceChanges(a)
         PROVE  TypeOK'
    <2>1. a \in Accounts
      BY DEF TypeOK, Ledger
    <2> QED BY <1>14, <2>1 DEF TypeOK, ComplianceChanges
  <1>15. CASE UNCHANGED vars
    BY <1>15 DEF TypeOK, vars
  <1> QED BY <1>1, <1>2, <1>3, <1>4, <1>5, <1>6, <1>7, <1>8, <1>9, <1>10, <1>11,
             <1>12, <1>13, <1>14, <1>15 DEF Next

\* The contract's storage keeps its types in every behaviour.
THEOREM TypeCorrect == Spec => []TypeOK
  BY InitType, NextType, PTL DEF Spec

-----------------------------------------------------------------------------
(* The claim loop.  ClaimLoopInBounds is not inductive: a confirmation far  *)
(* past the end of the array satisfies it until enough distributions bring *)
(* the loop to it.  What is inductive is that whatever was confirmed       *)
(* exists.                                                                 *)

ConfirmedExist(t) ==
    \A a \in Accounts :
        /\ \A i \in t.confirmedDistributions[a] : i < Len(t.distributions)
        /\ t.lastDistributionIndex[a] <= Len(t.distributions)

LoopInv == TypeOK /\ ConfirmedExist(token)

LEMMA MovedConfirmedExist ==
    ASSUME NEW t \in Ledger, NEW u, Moved(t, u), ConfirmedExist(t)
    PROVE  ConfirmedExist(u)
  <1>1. Len(t.distributions) \in Nat
    BY DEF Ledger
  <1> QED BY <1>1 DEF Moved, ConfirmedExist

\* A call that touches neither the distributions nor what is known of them.
LEMMA SameConfirmedExist ==
    ASSUME NEW t, NEW u, ConfirmedExist(t),
           u.distributions = t.distributions,
           u.confirmedDistributions = t.confirmedDistributions,
           u.lastDistributionIndex = t.lastDistributionIndex
    PROVE  ConfirmedExist(u)
  BY DEF ConfirmedExist

LEMMA LoopInvInit == Init => LoopInv
  <1> SUFFICES ASSUME Init PROVE ConfirmedExist(token)
    BY InitType DEF LoopInv
  <1>1. PICK isCommitToken \in TokenKinds : token = Deployed(isCommitToken)
    BY DEF Init
  <1> QED BY <1>1 DEF Deployed, ConfirmedExist

LEMMA LoopInvNext == LoopInv /\ [Next]_vars => LoopInv'
  <1> SUFFICES ASSUME LoopInv, [Next]_vars PROVE ConfirmedExist(token')
    BY NextType DEF LoopInv, ConfirmedExist
  <1> USE FundTokenAssumption
  <1> token \in Ledger /\ ConfirmedExist(token)
    BY DEF LoopInv, TypeOK
  <1>1. ASSUME NEW a \in Accounts, NEW n \in MintAmounts, Mint(a, n)
        PROVE  ConfirmedExist(token')
    BY <1>1, MintedMoved, MovedConfirmedExist DEF Mint
  <1>2. ASSUME NEW a \in Accounts, NEW n \in MoveAmounts, BurnFrom(a, n)
        PROVE  ConfirmedExist(token')
    BY <1>2, BurnedMoved, MovedConfirmedExist DEF BurnFrom
  <1>3. ASSUME NEW c \in FeeCharges, ChargeManagementFee(c)
        PROVE  ConfirmedExist(token')
    BY <1>3, SameConfirmedExist DEF ChargeManagementFee, FeeCharged, Ledger
  <1>4. ASSUME NEW n \in DistAmounts, Distribute(n)
        PROVE  ConfirmedExist(token')
    <2>1. /\ token'.confirmedDistributions = token.confirmedDistributions
          /\ token'.lastDistributionIndex = token.lastDistributionIndex
          /\ Len(token'.distributions) = Len(token.distributions) + 1
      BY <1>4 DEF Distribute, Distributed, Ledger
    <2>2. \A a \in Accounts : /\ token.confirmedDistributions[a] \subseteq Nat
                              /\ token.lastDistributionIndex[a] \in Nat
      BY DEF Ledger
    <2>3. Len(token.distributions) \in Nat
      BY DEF Ledger
    <2> QED BY <2>1, <2>2, <2>3 DEF ConfirmedExist
  <1>5. ASSUME NEW a \in Accounts, NEW i \in Indices, ConfirmDistribution(a, i)
        PROVE  ConfirmedExist(token')
    <2>1. i < Len(token.distributions)
      BY <1>5 DEF ConfirmDistribution, DistributionExists
    <2>2. /\ token'.distributions = token.distributions
          /\ token'.lastDistributionIndex = token.lastDistributionIndex
          /\ \A b \in Accounts : token'.confirmedDistributions[b]
                                   \subseteq token.confirmedDistributions[b] \cup {i}
      BY <1>5 DEF ConfirmDistribution, Confirmed, Ledger
    <2> QED BY <2>1, <2>2 DEF ConfirmedExist
  <1>6. ASSUME NEW a \in Accounts, NEW i \in Indices, CancelDistribution(a, i)
        PROVE  ConfirmedExist(token')
    BY <1>6, SameConfirmedExist DEF CancelDistribution, Cancelled, Ledger
  <1>7. CASE CollectFees
    BY <1>7, SameConfirmedExist DEF CollectFees, Ledger
  <1>8. CASE Pause
    BY <1>8, SameConfirmedExist DEF Pause, Ledger
  <1>9. CASE Unpause
    BY <1>9, SameConfirmedExist DEF Unpause, Ledger
  <1>10. ASSUME NEW i \in MarkIds[token.isCommitToken],
                NEW S \in SUBSET Accounts, MarkFeesAsPaidUpToID(i, S)
         PROVE  ConfirmedExist(token')
    BY <1>10, SameConfirmedExist DEF MarkFeesAsPaidUpToID, FeesMarked, Ledger
  <1>11. ASSUME NEW a \in Accounts, PayFees(a)
         PROVE  ConfirmedExist(token')
    BY <1>11, SameConfirmedExist DEF PayFees, FeesSettled, Ledger
  <1>12. ASSUME NEW a \in Accounts, ClaimAllDistributions(a)
         PROVE  ConfirmedExist(token')
    <2>1. /\ token'.distributions = token.distributions
          /\ token'.confirmedDistributions = token.confirmedDistributions
          /\ \A b \in Accounts : token'.lastDistributionIndex[b]
                \in {token.lastDistributionIndex[b], Len(token.distributions) - 1}
      BY <1>12 DEF ClaimAllDistributions, ClaimsTaken, Ledger
    <2>2. Len(token.distributions) \in Nat
      BY DEF Ledger
    <2> QED BY <2>1, <2>2 DEF ConfirmedExist
  <1>13. ASSUME NEW a \in Accounts, NEW b \in Accounts, NEW n \in MoveAmounts,
                Transfer(a, b, n)
         PROVE  ConfirmedExist(token')
    BY <1>13, TransferredMoved, MovedConfirmedExist DEF Transfer
  <1>14. ASSUME NEW a \in Reviewed[token.isCommitToken], ComplianceChanges(a)
         PROVE  ConfirmedExist(token')
    BY <1>14 DEF ComplianceChanges
  <1>15. CASE UNCHANGED vars
    BY <1>15 DEF vars
  <1> QED BY <1>1, <1>2, <1>3, <1>4, <1>5, <1>6, <1>7, <1>8, <1>9, <1>10, <1>11,
             <1>12, <1>13, <1>14, <1>15 DEF Next

LEMMA LoopInvImplies == LoopInv => ClaimLoopInBounds
  BY DEF LoopInv, ConfirmedExist, ClaimLoopInBounds, ClaimsReadable, Claimable,
         DistributionExists

\* The loop to i <= distributions.length never reads past the array: claims,
\* burns and transfers are never locked out by it, whoever called what before.
THEOREM ClaimLoopSafe == Spec => []ClaimLoopInBounds
  BY LoopInvInit, LoopInvNext, LoopInvImplies, PTL DEF Spec

-----------------------------------------------------------------------------
(* The books.                                                              *)

\* What the books show beyond what the contract holds.
Gap == token.totalDistributionAmount + token.feesPaid - cash

LEMMA GapType ==
    ASSUME TypeOK
    PROVE  /\ Gap \in Int
           /\ CashWithinBooks <=> Gap >= 0
  <1>1. token.totalDistributionAmount \in Nat /\ token.feesPaid \in Nat /\ cash \in Nat
    BY DEF TypeOK, Ledger
  <1> QED BY <1>1 DEF Gap, CashWithinBooks

LEMMA GapNext ==
    ASSUME TypeOK'
    PROVE  /\ Gap' \in Int
           /\ CashWithinBooks' <=> Gap' >= 0
  <1>1. token'.totalDistributionAmount \in Nat /\ token'.feesPaid \in Nat /\ cash' \in Nat
    BY DEF TypeOK, Ledger
  <1> QED BY <1>1 DEF Gap, CashWithinBooks

\* Every call but a claim changes the cash exactly as it changes the books; a
\* claim pays out and leaves the books as they are.
LEMMA BooksStep ==
    ASSUME TypeOK, [Next]_vars
    PROVE  \/ Gap' = Gap
           \/ token.distributions # << >> /\ Gap' >= Gap
  <1> USE FundTokenAssumption
  <1>t. token \in Ledger /\ token' \in Ledger /\ cash \in Nat /\ cash' \in Nat
    BY NextType DEF TypeOK
  <1>n. /\ token.totalDistributionAmount \in Nat /\ token.feesPaid \in Nat
        /\ token'.totalDistributionAmount \in Nat /\ token'.feesPaid \in Nat
    BY <1>t DEF Ledger
  <1>s. ASSUME token'.totalDistributionAmount = token.totalDistributionAmount,
               token'.feesPaid = token.feesPaid, cash' = cash
        PROVE  Gap' = Gap
    BY <1>s DEF Gap
  <1>m. ASSUME Moved(token, token'), cash' = cash
        PROVE  Gap' = Gap
    BY <1>m, <1>s DEF Moved
  <1>1. ASSUME NEW a \in Accounts, NEW n \in MintAmounts, Mint(a, n)
        PROVE  Gap' = Gap
    BY <1>1, <1>m, <1>t, MintedMoved DEF Mint
  <1>2. ASSUME NEW a \in Accounts, NEW n \in MoveAmounts, BurnFrom(a, n)
        PROVE  Gap' = Gap
    BY <1>2, <1>m, <1>t, BurnedMoved DEF BurnFrom
  <1>3. ASSUME NEW c \in FeeCharges, ChargeManagementFee(c)
        PROVE  Gap' = Gap
    BY <1>3, <1>s, <1>t DEF ChargeManagementFee, FeeCharged, Ledger
  <1>4. ASSUME NEW n \in DistAmounts, Distribute(n)
        PROVE  Gap' = Gap
    <2>1. /\ token'.totalDistributionAmount = token.totalDistributionAmount + n
          /\ token'.feesPaid = token.feesPaid
          /\ cash' = cash + n
      BY <1>4, <1>t DEF Distribute, Distributed, PayIn, Ledger
    <2> QED BY <2>1, <1>t, <1>n DEF Gap
  <1>5. ASSUME NEW a \in Accounts, NEW i \in Indices, ConfirmDistribution(a, i)
        PROVE  Gap' = Gap
    BY <1>5, <1>s, <1>t DEF ConfirmDistribution, Confirmed, Ledger
  <1>6. ASSUME NEW a \in Accounts, NEW i \in Indices, CancelDistribution(a, i)
        PROVE  Gap' = Gap
    <2>1. /\ token'.totalDistributionAmount
               = token.totalDistributionAmount - PendingDistribution(token, a, i)
          /\ token'.feesPaid = token.feesPaid
          /\ cash' = cash - PendingDistribution(token, a, i)
          /\ PendingDistribution(token, a, i) \in Nat
      BY <1>6, <1>t DEF CancelDistribution, Cancelled, PayOut, IsUint, Ledger
    <2> QED BY <2>1, <1>t, <1>n DEF Gap
  <1>7. CASE CollectFees
    <2>1. /\ token'.totalDistributionAmount = token.totalDistributionAmount
          /\ token'.feesPaid = 0
          /\ cash' = cash - token.feesPaid
      BY <1>7, <1>t DEF CollectFees, PayOut, Ledger
    <2> QED BY <2>1, <1>t, <1>n DEF Gap
  <1>8. CASE Pause
    BY <1>8, <1>s, <1>t DEF Pause, Ledger
  <1>9. CASE Unpause
    BY <1>9, <1>s, <1>t DEF Unpause, Ledger
  <1>10. ASSUME NEW i \in MarkIds[token.isCommitToken],
                NEW S \in SUBSET Accounts, MarkFeesAsPaidUpToID(i, S)
         PROVE  Gap' = Gap
    BY <1>10, <1>s, <1>t DEF MarkFeesAsPaidUpToID, FeesMarked, Ledger
  <1>11. ASSUME NEW a \in Accounts, PayFees(a)
         PROVE  Gap' = Gap
    <2>1. /\ token'.totalDistributionAmount = token.totalDistributionAmount
          /\ token'.feesPaid = token.feesPaid + PendingFees(token, a)
          /\ cash' = cash + PendingFees(token, a)
          /\ PendingFees(token, a) \in Nat
      BY <1>11, <1>t DEF PayFees, FeesSettled, PayIn, IsUint, Ledger
    <2> QED BY <2>1, <1>t, <1>n DEF Gap
  <1>12. ASSUME NEW a \in Accounts, ClaimAllDistributions(a)
         PROVE  token.distributions # << >> /\ Gap' >= Gap
    <2>1. /\ token'.totalDistributionAmount = token.totalDistributionAmount
          /\ token'.feesPaid = token.feesPaid
          /\ cash' = cash - TotalClaimable(token, a)
          /\ TotalClaimable(token, a) \in Nat
      BY <1>12, <1>t DEF ClaimAllDistributions, ClaimsTaken, PayOut, IsUint, Ledger
    <2>2. token.distributions # << >>
      BY <1>12 DEF ClaimAllDistributions, IsUint
    <2> QED BY <2>1, <2>2, <1>t, <1>n DEF Gap
  <1>13. ASSUME NEW a \in Accounts, NEW b \in Accounts, NEW n \in MoveAmounts,
                Transfer(a, b, n)
         PROVE  Gap' = Gap
    BY <1>13, <1>m, <1>t, TransferredMoved DEF Transfer
  <1>14. ASSUME NEW a \in Reviewed[token.isCommitToken], ComplianceChanges(a)
         PROVE  Gap' = Gap
    BY <1>14 DEF ComplianceChanges, Gap
  <1>15. CASE UNCHANGED vars
    BY <1>15 DEF vars, Gap
  <1> QED BY <1>1, <1>2, <1>3, <1>4, <1>5, <1>6, <1>7, <1>8, <1>9, <1>10, <1>11,
             <1>12, <1>13, <1>14, <1>15 DEF Next

CashInv == TypeOK /\ CashWithinBooks

LEMMA CashInvInit == Init => CashInv
  <1> SUFFICES ASSUME Init PROVE CashWithinBooks
    BY InitType DEF CashInv
  <1> QED BY DEF Init, Deployed, CashWithinBooks

LEMMA CashInvNext == CashInv /\ [Next]_vars => CashInv'
  <1> SUFFICES ASSUME CashInv, [Next]_vars PROVE CashWithinBooks'
    BY NextType DEF CashInv
  <1>1. TypeOK /\ TypeOK'
    BY NextType DEF CashInv
  <1>2. Gap' >= Gap /\ Gap \in Int /\ Gap' \in Int
    BY <1>1, BooksStep, GapType, GapNext
  <1>3. CashWithinBooks' <=> Gap' >= 0
    BY <1>1, GapNext
  <1> QED BY <1>1, <1>2, <1>3, GapType DEF CashInv

\* No payment into the contract goes unrecorded, whoever makes it and whatever
\* is cancelled, claimed or collected in between.
THEOREM CashAccounted == Spec => []CashWithinBooks
  <1>1. CashInv => CashWithinBooks
    BY DEF CashInv
  <1> QED BY CashInvInit, CashInvNext, <1>1, PTL DEF Spec

-----------------------------------------------------------------------------
(* A commit token.  Its distributions stay empty because distribute        *)
(* rejects it, so that the one call that pays out without changing the     *)
(* books, claimAllDistributions, reverts on its index of -1.               *)

\* The flag is immutable, and on a commit token so is the empty array, which
\* elsewhere grows within its bound.
LEMMA CommitStep ==
    ASSUME TypeOK, [Next]_vars
    PROVE  /\ token'.isCommitToken = token.isCommitToken
           /\ \/ token'.distributions = token.distributions
              \/ ~ token.isCommitToken /\ Len(token'.distributions) <= MaxEvents
  <1> DEFINE P == /\ token'.isCommitToken = token.isCommitToken
                  /\ \/ token'.distributions = token.distributions
                     \/ ~ token.isCommitToken /\ Len(token'.distributions) <= MaxEvents
  <1> SUFFICES P
    OBVIOUS
  <1>t. token \in Ledger
    BY DEF TypeOK
  <1>1. ASSUME NEW a \in Accounts, NEW n \in MintAmounts, Mint(a, n)
        PROVE  P
    BY <1>1, <1>t, MintedMoved DEF Mint, Moved
  <1>2. ASSUME NEW a \in Accounts, NEW n \in MoveAmounts, BurnFrom(a, n)
        PROVE  P
    BY <1>2, <1>t, BurnedMoved DEF BurnFrom, Moved
  <1>3. ASSUME NEW c \in FeeCharges, ChargeManagementFee(c)
        PROVE  P
    BY <1>3, <1>t DEF ChargeManagementFee, FeeCharged, Ledger
  <1>4. ASSUME NEW n \in DistAmounts, Distribute(n)
        PROVE  P
    <2>1. /\ token'.isCommitToken = token.isCommitToken /\ ~ token.isCommitToken
          /\ Len(token'.distributions) = Len(token.distributions) + 1
          /\ Len(token.distributions) < MaxEvents
      BY <1>4, <1>t DEF Distribute, MayDistribute, Distributed, Ledger
    <2>2. Len(token.distributions) \in Nat
      BY <1>t DEF Ledger
    <2> QED BY <2>1, <2>2, MaxEventsAssumption
  <1>5. ASSUME NEW a \in Accounts, NEW i \in Indices, ConfirmDistribution(a, i)
        PROVE  P
    BY <1>5, <1>t DEF ConfirmDistribution, Confirmed, Ledger
  <1>6. ASSUME NEW a \in Accounts, NEW i \in Indices, CancelDistribution(a, i)
        PROVE  P
    BY <1>6, <1>t DEF CancelDistribution, Cancelled, Ledger
  <1>7. CASE CollectFees
    BY <1>7, <1>t DEF CollectFees, Ledger
  <1>8. CASE Pause
    BY <1>8, <1>t DEF Pause, Ledger
  <1>9. CASE Unpause
    BY <1>9, <1>t DEF Unpause, Ledger
  <1>10. ASSUME NEW i \in MarkIds[token.isCommitToken],
                NEW S \in SUBSET Accounts, MarkFeesAsPaidUpToID(i, S)
         PROVE  P
    BY <1>10, <1>t DEF MarkFeesAsPaidUpToID, FeesMarked, Ledger
  <1>11. ASSUME NEW a \in Accounts, PayFees(a)
         PROVE  P
    BY <1>11, <1>t DEF PayFees, FeesSettled, Ledger
  <1>12. ASSUME NEW a \in Accounts, ClaimAllDistributions(a)
         PROVE  P
    BY <1>12, <1>t DEF ClaimAllDistributions, ClaimsTaken, Ledger
  <1>13. ASSUME NEW a \in Accounts, NEW b \in Accounts, NEW n \in MoveAmounts,
                Transfer(a, b, n)
         PROVE  P
    <2>1. Moved(token, token')
      BY <1>13, <1>t, TransferredMoved DEF Transfer
    <2> QED BY <2>1 DEF Moved
  <1>14. ASSUME NEW a \in Reviewed[token.isCommitToken], ComplianceChanges(a)
         PROVE  P
    BY <1>14 DEF ComplianceChanges
  <1>15. CASE UNCHANGED vars
    BY <1>15 DEF vars
  <1> HIDE DEF P
  <1> QED BY <1>1, <1>2, <1>3, <1>4, <1>5, <1>6, <1>7, <1>8, <1>9, <1>10, <1>11,
             <1>12, <1>13, <1>14, <1>15 DEF Next

CommitInv ==
    /\ TypeOK
    /\ token.isCommitToken => token.distributions = << >> /\ Gap = 0

LEMMA CommitInvNext == CommitInv /\ [Next]_vars => CommitInv'
  <1> SUFFICES ASSUME CommitInv, [Next]_vars PROVE CommitInv'
    OBVIOUS
  <1>1. TypeOK /\ TypeOK'
    BY NextType DEF CommitInv
  <1>2. token'.isCommitToken = token.isCommitToken
    BY <1>1, CommitStep
  <1>3. ASSUME token'.isCommitToken
        PROVE  token'.distributions = << >> /\ Gap' = 0
    <2>1. token.isCommitToken /\ token.distributions = << >> /\ Gap = 0
      BY <1>2, <1>3 DEF CommitInv
    <2>2. token'.distributions = << >>
      BY <1>1, <2>1, CommitStep
    <2>3. Gap' = Gap
      BY <1>1, <2>1, BooksStep
    <2> QED BY <2>1, <2>2, <2>3
  <1> QED BY <1>1, <1>3 DEF CommitInv

\* On a commit token every fee collected stays in the contract until
\* collectFees hands it over.
THEOREM CommitCashAccounted == Spec => []CashMatchesBooks
  <1>1. Init => CommitInv
    <2> SUFFICES ASSUME Init PROVE CommitInv
      OBVIOUS
    <2>1. PICK isCommitToken \in TokenKinds : token = Deployed(isCommitToken)
      BY DEF Init
    <2>2. /\ token.distributions = << >>
          /\ token.totalDistributionAmount = 0 /\ token.feesPaid = 0 /\ cash = 0
      BY <2>1 DEF Init, Deployed
    <2> QED BY <2>2, InitType DEF CommitInv, Gap
  <1>2. CommitInv => CashMatchesBooks
    <2> SUFFICES ASSUME CommitInv, token.isCommitToken
                 PROVE  cash = token.totalDistributionAmount + token.feesPaid
      BY DEF CashMatchesBooks
    <2>1. token.totalDistributionAmount \in Nat /\ token.feesPaid \in Nat /\ cash \in Nat
      BY DEF CommitInv, TypeOK, Ledger
    <2>2. Gap = 0
      BY DEF CommitInv
    <2> QED BY <2>1, <2>2 DEF Gap
  <1> QED BY <1>1, <1>2, CommitInvNext, PTL DEF Spec

-----------------------------------------------------------------------------
(* What a step may do to an account.  Every call of the contract is one of *)
(* four kinds; what an account owes and may claim is argued once for each. *)

\* A new fee, within the bound.
Charge(t, u) ==
    /\ u.balances = t.balances
    /\ u.snapshotBalances = t.snapshotBalances
    /\ Len(u.fees) = Len(t.fees) + 1
    /\ Len(u.fees) <= MaxEvents

\* A payment of a's fees.
Payment(t, u, a) ==
    /\ u.balances = t.balances
    /\ u.snapshotBalances = t.snapshotBalances
    /\ u.fees = t.fees
    /\ \A b \in Accounts \ {a} : u.lastFeeIndex[b] = t.lastFeeIndex[b]

\* Nothing moves: fees may be waived and snapshots zeroed.
Quiet(t, u) ==
    /\ u.balances = t.balances
    /\ u.fees = t.fees
    /\ \A a \in Accounts :
          /\ u.lastFeeIndex[a] >= t.lastFeeIndex[a]
          /\ \A i \in Indices :
                u.snapshotBalances[a][i] \in {t.snapshotBalances[a][i], 0}

Kinds ==
    \/ \E S \in SUBSET Accounts : Movement(token, token', S)
    \/ Charge(token, token')
    \/ \E a \in Accounts : PayFees(a) /\ Payment(token, token', a)
    \/ Quiet(token, token')

\* A call that changes neither balances, fees, fee indices nor snapshots.
LEMMA QuietSame ==
    ASSUME NEW t \in Ledger, NEW u, u.balances = t.balances, u.fees = t.fees,
           u.lastFeeIndex = t.lastFeeIndex, u.snapshotBalances = t.snapshotBalances
    PROVE  Quiet(t, u)
  <1>1. t.lastFeeIndex \in [Accounts -> Nat]
    BY DEF Ledger
  <1>2. \A a \in Accounts : t.lastFeeIndex[a] >= t.lastFeeIndex[a]
    BY <1>1
  <1> QED BY <1>2 DEF Quiet

LEMMA StepKinds == TypeOK /\ [Next]_vars => Kinds
  <1> SUFFICES ASSUME TypeOK, [Next]_vars PROVE Kinds
    OBVIOUS
  <1> USE FundTokenAssumption
  <1>t. token \in Ledger /\ token' \in Ledger
    BY NextType DEF TypeOK
  <1>m. ASSUME NEW S \in SUBSET Accounts, Movement(token, token', S)
        PROVE  Kinds
    BY <1>m DEF Kinds
  <1>q. ASSUME Quiet(token, token') PROVE Kinds
    BY <1>q DEF Kinds
  <1>s. ASSUME token'.balances = token.balances, token'.fees = token.fees,
               token'.lastFeeIndex = token.lastFeeIndex,
               token'.snapshotBalances = token.snapshotBalances
        PROVE  Kinds
    BY <1>q, <1>s, <1>t, QuietSame
  <1>1. ASSUME NEW a \in Accounts, NEW n \in MintAmounts, Mint(a, n)
        PROVE  Kinds
    BY <1>1, <1>m, <1>t, MintedMovement DEF Mint
  <1>2. ASSUME NEW a \in Accounts, NEW n \in MoveAmounts, BurnFrom(a, n)
        PROVE  Kinds
    BY <1>2, <1>m, <1>t, BurnedMovement DEF BurnFrom
  <1>3. ASSUME NEW c \in FeeCharges, ChargeManagementFee(c)
        PROVE  Kinds
    <2>1. /\ token'.balances = token.balances
          /\ token'.snapshotBalances = token.snapshotBalances
          /\ Len(token'.fees) = Len(token.fees) + 1
      BY <1>3, <1>t DEF ChargeManagementFee, FeeCharged, Ledger
    <2>2. Len(token.fees) \in Nat /\ Len(token.fees) < MaxEvents
      BY <1>3, <1>t DEF ChargeManagementFee, Ledger
    <2>3. Len(token'.fees) <= MaxEvents
      BY <2>1, <2>2, MaxEventsAssumption
    <2> QED BY <2>1, <2>3 DEF Charge, Kinds
  <1>4. ASSUME NEW n \in DistAmounts, Distribute(n)
        PROVE  Kinds
    BY <1>4, <1>s, <1>t DEF Distribute, Distributed, Ledger
  <1>5. ASSUME NEW a \in Accounts, NEW i \in Indices, ConfirmDistribution(a, i)
        PROVE  Kinds
    BY <1>5, <1>s, <1>t DEF ConfirmDistribution, Confirmed, Ledger
  <1>6. ASSUME NEW a \in Accounts, NEW i \in Indices, CancelDistribution(a, i)
        PROVE  Kinds
    <2>1. /\ token'.balances = token.balances
          /\ token'.fees = token.fees
          /\ token'.lastFeeIndex = token.lastFeeIndex
          /\ token'.snapshotBalances = [token.snapshotBalances EXCEPT ![a][i] = 0]
      BY <1>6, <1>t DEF CancelDistribution, Cancelled, Ledger
    <2>2. /\ token.lastFeeIndex \in [Accounts -> Nat]
          /\ token.snapshotBalances \in [Accounts -> [Indices -> Nat]]
      BY <1>t DEF Ledger
    <2>3. \A b \in Accounts, j \in Indices :
            token'.snapshotBalances[b][j] \in {token.snapshotBalances[b][j], 0}
      BY <2>1, <2>2
    <2>4. \A b \in Accounts : token'.lastFeeIndex[b] >= token.lastFeeIndex[b]
      BY <2>1, <2>2
    <2> QED BY <1>q, <2>1, <2>3, <2>4 DEF Quiet
  <1>7. CASE CollectFees
    BY <1>7, <1>s, <1>t DEF CollectFees, Ledger
  <1>8. CASE Pause
    BY <1>8, <1>s, <1>t DEF Pause, Ledger
  <1>9. CASE Unpause
    BY <1>9, <1>s, <1>t DEF Unpause, Ledger
  <1>10. ASSUME NEW i \in MarkIds[token.isCommitToken],
                NEW S \in SUBSET Accounts, MarkFeesAsPaidUpToID(i, S)
         PROVE  Kinds
    <2>1. /\ token'.balances = token.balances
          /\ token'.fees = token.fees
          /\ token'.snapshotBalances = token.snapshotBalances
          /\ token'.lastFeeIndex =
               [a \in Accounts |-> IF a \in S THEN i ELSE token.lastFeeIndex[a]]
      BY <1>10, <1>t DEF MarkFeesAsPaidUpToID, FeesMarked, Ledger
    <2>2. \A a \in S : i >= token.lastFeeIndex[a]
      BY <1>10 DEF MarkFeesAsPaidUpToID, MayMarkFees
    <2>3. token.lastFeeIndex \in [Accounts -> Nat]
      BY <1>t DEF Ledger
    <2>4. \A a \in Accounts : token'.lastFeeIndex[a] >= token.lastFeeIndex[a]
      BY <2>1, <2>2, <2>3
    <2> QED BY <1>q, <2>1, <2>4 DEF Quiet
  <1>11. ASSUME NEW a \in Accounts, PayFees(a)
         PROVE  Kinds
    <2>1. Payment(token, token', a)
      BY <1>11, <1>t DEF PayFees, FeesSettled, Ledger, Payment
    <2> QED BY <1>11, <2>1 DEF Kinds
  <1>12. ASSUME NEW a \in Accounts, ClaimAllDistributions(a)
         PROVE  Kinds
    BY <1>12, <1>s, <1>t DEF ClaimAllDistributions, ClaimsTaken, Ledger
  <1>13. ASSUME NEW a \in Accounts, NEW b \in Accounts, NEW n \in MoveAmounts,
                Transfer(a, b, n)
         PROVE  Kinds
    <2>1. Movement(token, token', {a, b})
      BY <1>13, <1>t, TransferredMovement DEF Transfer
    <2> QED BY <1>m, <2>1
  <1>14. ASSUME NEW a \in Reviewed[token.isCommitToken], ComplianceChanges(a)
         PROVE  Kinds
    BY <1>14, <1>s, <1>t DEF ComplianceChanges
  <1>15. CASE UNCHANGED vars
    BY <1>15, <1>s, <1>t DEF vars
  <1> QED BY <1>1, <1>2, <1>3, <1>4, <1>5, <1>6, <1>7, <1>8, <1>9, <1>10, <1>11,
             <1>12, <1>13, <1>14, <1>15 DEF Next

\* What the arguments below need of a reachable state: what was confirmed
\* exists, and the events stay within the keys of the snapshots.
EventInv ==
    /\ LoopInv
    /\ Len(token.fees) <= MaxEvents
    /\ Len(token.distributions) <= MaxEvents

LEMMA EventInvInit == Init => EventInv
  <1> SUFFICES ASSUME Init PROVE EventInv
    OBVIOUS
  <1>1. token.fees = << >> /\ token.distributions = << >>
    BY DEF Init, Deployed
  <1> QED BY <1>1, LoopInvInit, MaxEventsAssumption DEF EventInv

LEMMA EventInvNext == EventInv /\ [Next]_vars => EventInv'
  <1> SUFFICES ASSUME EventInv, [Next]_vars PROVE EventInv'
    OBVIOUS
  <1>1. LoopInv' /\ Kinds
    BY LoopInvNext, StepKinds DEF EventInv, LoopInv
  <1>2. Len(token'.fees) <= MaxEvents
    BY <1>1 DEF EventInv, Kinds, Movement, Moved, Charge, Payment, Quiet
  <1>3. Len(token'.distributions) <= MaxEvents
    BY CommitStep DEF EventInv, LoopInv
  <1> QED BY <1>1, <1>2, <1>3 DEF EventInv

\* A call that charges no fee raises nobody's bill but by a payment of its own.
LEMMA BillsFall ==
    ASSUME EventInv, [Next]_vars, NEW a \in Accounts,
           ~ (Len(token'.fees) > Len(token.fees)), ~ PayFees(a)
    PROVE  ~ (PendingFees(token', a) > PendingFees(token, a))
  <1>1. /\ Kinds /\ token \in Ledger /\ token' \in Ledger
        /\ Len(token.fees) <= MaxEvents
    BY StepKinds, NextType DEF EventInv, LoopInv, TypeOK
  <1>2. Len(token.fees) \in Nat /\ Len(token'.fees) \in Nat
    BY <1>1 DEF Ledger
  <1>3. /\ token.lastFeeIndex[a] \in Nat
        /\ token.snapshotBalances[a] \in [Indices -> Nat]
    BY <1>1 DEF Ledger
  <1>s. ASSUME token'.fees = token.fees,
               token'.lastFeeIndex[a] >= token.lastFeeIndex[a],
               \A i \in Indices :
                  token'.snapshotBalances[a][i] <= token.snapshotBalances[a][i]
        PROVE  ~ (PendingFees(token', a) > PendingFees(token, a))
    BY <1>1, <1>s, PendingFeesFall
  <1>4. ASSUME NEW S \in SUBSET Accounts, Movement(token, token', S)
        PROVE  ~ (PendingFees(token', a) > PendingFees(token, a))
    <2>1. CASE a \in S
      <3>1. token'.fees = token.fees /\ token'.lastFeeIndex[a] = Len(token.fees)
        BY <1>4, <2>1 DEF Movement, Moved
      <3>2. PendingFees(token', a) = 0
        BY <1>1, <1>2, <3>1, NothingUnpaid
      <3>3. PendingFees(token, a) \in Nat
        <4>1. \A i \in Indices :
                token.snapshotBalances[a][i] <= token.snapshotBalances[a][i]
          BY <1>3
        <4> QED BY <1>1, <1>3, <4>1, PendingFeesFall
      <3> QED BY <3>2, <3>3
    <2>2. CASE a \notin S
      BY <1>3, <1>4, <1>s, <2>2 DEF Movement, Moved
    <2> QED BY <2>1, <2>2
  <1>5. CASE Charge(token, token')
    BY <1>2, <1>5 DEF Charge
  <1>6. ASSUME NEW b \in Accounts, PayFees(b), Payment(token, token', b)
        PROVE  ~ (PendingFees(token', a) > PendingFees(token, a))
    <2>1. a # b
      BY <1>6
    <2> QED BY <1>3, <1>6, <1>s, <2>1 DEF Payment
  <1>7. CASE Quiet(token, token')
    BY <1>3, <1>7, <1>s DEF Quiet
  <1> QED BY <1>1, <1>4, <1>5, <1>6, <1>7 DEF Kinds

\* Nobody raises another account's bill: not by a transfer to it, a waiver or
\* a cancelled distribution, although fees and distributions share the keys of
\* one snapshot map.
THEOREM BillsAreOnesOwn == Spec => OthersCannotRaiseBill
  <1>1. EventInv /\ [Next]_vars
          => [\A a \in Accounts :
                 PendingFees(token', a) > PendingFees(token, a)
                     => \/ Len(token'.fees) > Len(token.fees)
                        \/ PayFees(a)]_vars
    BY BillsFall
  <1> QED BY <1>1, EventInvInit, EventInvNext, PTL DEF Spec, OthersCannotRaiseBill

\* A snapshot whose key both counts have passed is never rewritten, but to
\* zero when a distribution is cancelled.
THEOREM HistoryIsFrozen == Spec => PastSnapshotsFrozen
  <1>1. TypeOK /\ [Next]_vars
          => [\A a \in Accounts, i \in Indices :
                 /\ i < Len(token.fees)
                 /\ i < Len(token.distributions)
                 => token'.snapshotBalances[a][i]
                       \in {token.snapshotBalances[a][i], 0}]_vars
    <2> SUFFICES ASSUME TypeOK, [Next]_vars, NEW a \in Accounts, NEW i \in Indices,
                        i < Len(token.fees), i < Len(token.distributions)
                 PROVE  token'.snapshotBalances[a][i]
                           \in {token.snapshotBalances[a][i], 0}
      OBVIOUS
    <2>1. Kinds
      BY StepKinds
    <2> QED BY <2>1 DEF Kinds, Movement, Charge, Payment, Quiet
  <1> QED BY <1>1, InitType, NextType, PTL DEF Spec, PastSnapshotsFrozen

-----------------------------------------------------------------------------
(* What ends a debt or a claim.  Every call leaves an account's bill and    *)
(* claim standing, or finds them settled, or is one of those that end them. *)

BillFate(a) ==
    \/ PayFees(a) \/ Waived(a) \/ Withdrawn(a) \/ Receives(a)
    \/ PendingFees(token, a) = 0
    \/ BillStands(token, token', a)

ClaimFate(a) ==
    \/ ClaimAllDistributions(a) \/ Withdrawn(a) \/ Receives(a)
    \/ TotalClaimable(token, a) = 0
    \/ ClaimStands(token, token', a)

\* A list that is kept, or that one event is added to, is extended.
LEMMA KeptOrAppended ==
    ASSUME NEW E, NEW s \in Seq(E), NEW e
    PROVE  Extends(s, s) /\ Extends(s, Append(s, e))
  <1>1. Len(s) \in Nat
    OBVIOUS
  <1> QED BY <1>1 DEF Extends

LEMMA BillKept ==
    ASSUME NEW t \in Ledger, NEW u, NEW a, u.fees = t.fees,
           u.lastFeeIndex[a] = t.lastFeeIndex[a],
           u.snapshotBalances[a] = t.snapshotBalances[a]
    PROVE  BillStands(t, u, a)
  <1>1. t.fees \in Seq(Fee)
    BY DEF Ledger
  <1> QED BY <1>1, KeptOrAppended DEF BillStands

LEMMA ClaimKept ==
    ASSUME NEW t \in Ledger, NEW u, NEW a, u.distributions = t.distributions,
           u.confirmedDistributions[a] = t.confirmedDistributions[a],
           u.lastDistributionIndex[a] = t.lastDistributionIndex[a],
           u.snapshotBalances[a] = t.snapshotBalances[a]
    PROVE  ClaimStands(t, u, a)
  <1>1. t.distributions \in Seq(Distribution)
    BY DEF Ledger
  <1> QED BY <1>1, KeptOrAppended DEF ClaimStands

\* A movement leaves whom it does not touch alone.
LEMMA MovementKeeps ==
    ASSUME NEW t \in Ledger, NEW u, NEW S \in SUBSET Accounts, Movement(t, u, S),
           NEW a \in Accounts \ S
    PROVE  BillStands(t, u, a) /\ ClaimStands(t, u, a)
  BY BillKept, ClaimKept DEF Movement, Moved

LEMMA StepFates ==
    ASSUME TypeOK, [Next]_vars, NEW b \in Accounts
    PROVE  BillFate(b) /\ ClaimFate(b)
  <1> DEFINE P == BillFate(b) /\ ClaimFate(b)
  <1> SUFFICES P
    OBVIOUS
  <1>t. token \in Ledger
    BY DEF TypeOK
  <1>k. ASSUME BillStands(token, token', b), ClaimStands(token, token', b)
        PROVE  P
    BY <1>k DEF BillFate, ClaimFate
  <1>s. ASSUME token'.fees = token.fees, token'.lastFeeIndex = token.lastFeeIndex,
               token'.snapshotBalances = token.snapshotBalances,
               token'.distributions = token.distributions,
               token'.confirmedDistributions = token.confirmedDistributions,
               token'.lastDistributionIndex = token.lastDistributionIndex
        PROVE  P
    BY <1>k, <1>s, <1>t, BillKept, ClaimKept
  <1>m. ASSUME NEW S \in SUBSET Accounts, Movement(token, token', S), b \notin S
        PROVE  P
    BY <1>k, <1>m, <1>t, MovementKeeps
  <1>r. ASSUME Settled(token, b) \/ Receives(b)
        PROVE  P
    BY <1>r DEF BillFate, ClaimFate, Settled
  <1> HIDE DEF P
  <1>1. ASSUME NEW a \in Accounts, NEW n \in MintAmounts, Mint(a, n)
        PROVE  P
    <2>1. Movement(token, token', {a})
      BY <1>1, <1>t, MintedMovement DEF Mint
    <2>2. a = b => Receives(b)
      BY <1>1 DEF Receives
    <2> QED BY <1>m, <1>r, <2>1, <2>2
  <1>2. ASSUME NEW a \in Accounts, NEW n \in MoveAmounts, BurnFrom(a, n)
        PROVE  P
    <2>1. Movement(token, token', {a})
      BY <1>2, <1>t, BurnedMovement DEF BurnFrom
    <2>2. Settled(token, a)
      BY <1>2 DEF BurnFrom, MayBurn, MayMove
    <2> QED BY <1>m, <1>r, <2>1, <2>2
  <1>3. ASSUME NEW c \in FeeCharges, ChargeManagementFee(c)
        PROVE  P
    <2> DEFINE fees == Append(token.fees, [fee |-> c.fee, price |-> c.price])
    <2>1. token' = [token EXCEPT !.fees = fees]
      BY <1>3 DEF ChargeManagementFee, FeeCharged
    <2>2. Extends(token.fees, fees)
      BY <1>t, KeptOrAppended DEF Ledger
    <2> HIDE DEF fees
    <2>3. BillStands(token, token', b)
      BY <1>t, <2>1, <2>2 DEF BillStands, Ledger
    <2>4. ClaimStands(token, token', b)
      BY <1>t, <2>1, ClaimKept DEF Ledger
    <2> QED BY <1>k, <2>3, <2>4
  <1>4. ASSUME NEW n \in DistAmounts, Distribute(n)
        PROVE  P
    <2> DEFINE dist == [scaledShare |-> ScaledShare(token, n, Scale), scale |-> Scale]
               dists == Append(token.distributions, dist)
    <2>1. token' = [token EXCEPT !.distributions = dists,
                      !.totalDistributionAmount = token.totalDistributionAmount + n]
      BY <1>4 DEF Distribute, Distributed
    <2>2. Extends(token.distributions, dists)
      BY <1>t, KeptOrAppended DEF Ledger
    <2> HIDE DEF dists
    <2>3. ClaimStands(token, token', b)
      BY <1>t, <2>1, <2>2 DEF ClaimStands, Ledger
    <2>4. BillStands(token, token', b)
      BY <1>t, <2>1, BillKept DEF Ledger
    <2> QED BY <1>k, <2>3, <2>4
  <1>5. ASSUME NEW a \in Accounts, NEW i \in Indices, ConfirmDistribution(a, i)
        PROVE  P
    <2>1. token' = Confirmed(token, a, i)
      BY <1>5 DEF ConfirmDistribution
    <2>2. /\ token'.distributions = token.distributions
          /\ token'.lastDistributionIndex = token.lastDistributionIndex
          /\ token'.snapshotBalances = token.snapshotBalances
          /\ token'.confirmedDistributions =
                [token.confirmedDistributions EXCEPT ![a] = @ \cup {i}]
          /\ token'.fees = token.fees
          /\ token'.lastFeeIndex = token.lastFeeIndex
      BY <1>t, <2>1 DEF Confirmed, Ledger
    <2>3. token.confirmedDistributions[b] \subseteq token'.confirmedDistributions[b]
      BY <1>t, <2>2 DEF Ledger
    <2>4. Extends(token.distributions, token'.distributions)
      BY <1>t, <2>2, KeptOrAppended DEF Ledger
    <2>5. ClaimStands(token, token', b) /\ BillStands(token, token', b)
      BY <1>t, <2>2, <2>3, <2>4, BillKept DEF ClaimStands
    <2> QED BY <1>k, <2>5
  <1>6. ASSUME NEW a \in Accounts, NEW i \in Indices, CancelDistribution(a, i)
        PROVE  P
    <2>1. CASE a = b
      <3>1. Withdrawn(b)
        BY <1>6, <2>1 DEF Withdrawn
      <3> QED BY <3>1 DEF P, BillFate, ClaimFate
    <2>2. CASE a # b
      <3>1. /\ token'.fees = token.fees
            /\ token'.lastFeeIndex = token.lastFeeIndex
            /\ token'.distributions = token.distributions
            /\ token'.confirmedDistributions = token.confirmedDistributions
            /\ token'.lastDistributionIndex = token.lastDistributionIndex
            /\ token'.snapshotBalances = [token.snapshotBalances EXCEPT ![a][i] = 0]
        BY <1>6, <1>t DEF CancelDistribution, Cancelled, Ledger
      <3>2. token'.snapshotBalances[b] = token.snapshotBalances[b]
        BY <1>t, <2>2, <3>1 DEF Ledger
      <3> QED BY <1>k, <1>t, <3>1, <3>2, BillKept, ClaimKept
    <2> QED BY <2>1, <2>2
  <1>7. CASE CollectFees
    BY <1>7, <1>s, <1>t DEF CollectFees, Ledger
  <1>8. CASE Pause
    BY <1>8, <1>s, <1>t DEF Pause, Ledger
  <1>9. CASE Unpause
    BY <1>9, <1>s, <1>t DEF Unpause, Ledger
  <1>10. ASSUME NEW i \in MarkIds[token.isCommitToken],
                NEW S \in SUBSET Accounts, MarkFeesAsPaidUpToID(i, S)
         PROVE  P
    <2>1. /\ token'.fees = token.fees
          /\ token'.snapshotBalances = token.snapshotBalances
          /\ token'.distributions = token.distributions
          /\ token'.confirmedDistributions = token.confirmedDistributions
          /\ token'.lastDistributionIndex = token.lastDistributionIndex
          /\ token'.lastFeeIndex =
               [a \in Accounts |-> IF a \in S THEN i ELSE token.lastFeeIndex[a]]
      BY <1>10, <1>t DEF MarkFeesAsPaidUpToID, FeesMarked, Ledger
    <2>2. ClaimStands(token, token', b)
      BY <1>t, <2>1, ClaimKept
    <2>3. BillFate(b)
      <3>1. CASE b \in S
        BY <1>10, <3>1 DEF Waived, BillFate
      <3>2. CASE b \notin S
        <4>1. BillStands(token, token', b)
          BY <1>t, <2>1, <3>2, BillKept
        <4> QED BY <4>1 DEF BillFate
      <3> QED BY <3>1, <3>2
    <2> QED BY <2>2, <2>3 DEF P, ClaimFate
  <1>11. ASSUME NEW a \in Accounts, PayFees(a)
         PROVE  P
    <2>1. /\ token'.fees = token.fees
          /\ token'.snapshotBalances = token.snapshotBalances
          /\ token'.distributions = token.distributions
          /\ token'.confirmedDistributions = token.confirmedDistributions
          /\ token'.lastDistributionIndex = token.lastDistributionIndex
          /\ a # b => token'.lastFeeIndex[b] = token.lastFeeIndex[b]
      BY <1>11, <1>t DEF PayFees, FeesSettled, Ledger
    <2>2. ClaimStands(token, token', b)
      BY <1>t, <2>1, ClaimKept
    <2>3. a # b => BillStands(token, token', b)
      BY <1>t, <2>1, BillKept
    <2> QED BY <1>11, <2>2, <2>3 DEF P, BillFate, ClaimFate
  <1>12. ASSUME NEW a \in Accounts, ClaimAllDistributions(a)
         PROVE  P
    <2>1. /\ token'.fees = token.fees
          /\ token'.lastFeeIndex = token.lastFeeIndex
          /\ token'.snapshotBalances = token.snapshotBalances
          /\ token'.distributions = token.distributions
          /\ token'.confirmedDistributions = token.confirmedDistributions
          /\ a # b => token'.lastDistributionIndex[b] = token.lastDistributionIndex[b]
      BY <1>12, <1>t DEF ClaimAllDistributions, ClaimsTaken, Ledger
    <2>2. BillStands(token, token', b)
      BY <1>t, <2>1, BillKept
    <2>3. a # b => ClaimStands(token, token', b)
      BY <1>t, <2>1, ClaimKept
    <2> QED BY <1>12, <2>2, <2>3 DEF P, BillFate, ClaimFate
  <1>13. ASSUME NEW a \in Accounts, NEW c \in Accounts, NEW n \in MoveAmounts,
                Transfer(a, c, n)
         PROVE  P
    <2>1. Movement(token, token', {a, c})
      BY <1>13, <1>t, TransferredMovement DEF Transfer
    <2>2. Settled(token, a)
      BY <1>13 DEF Transfer, MayMove
    <2>3. b = c => Receives(b)
      BY <1>13 DEF Receives
    <2> QED BY <1>m, <1>r, <2>1, <2>2, <2>3
  <1>14. ASSUME NEW a \in Reviewed[token.isCommitToken], ComplianceChanges(a)
         PROVE  P
    BY <1>14, <1>s DEF ComplianceChanges
  <1>15. CASE UNCHANGED vars
    BY <1>15, <1>s DEF vars
  <1> QED BY <1>1, <1>2, <1>3, <1>4, <1>5, <1>6, <1>7, <1>8, <1>9, <1>10, <1>11,
             <1>12, <1>13, <1>14, <1>15 DEF Next

\* In a reachable state bills and claims are numbers.
LEMMA BillsAndClaims ==
    ASSUME NEW t \in Ledger, ConfirmedExist(t), NEW a \in Accounts,
           Len(t.fees) <= MaxEvents, Len(t.distributions) <= MaxEvents
    PROVE  PendingFees(t, a) \in Nat /\ TotalClaimable(t, a) \in Nat
  <1>1. BillStands(t, t, a) /\ ClaimStands(t, t, a)
    BY BillKept, ClaimKept
  <1>2. ClaimsReadable(t, a)
    BY DEF ConfirmedExist, ClaimsReadable, Claimable, DistributionExists
  <1> QED BY <1>1, <1>2, StandingBill, StandingClaim

\* A debt and a confirmed claim end by the account's own payment or claim, a
\* waiver or a cancellation, or when tokens arrive, and by nothing else that
\* anyone may call.
THEOREM DebtsAndClaimsStand == Spec => OnlyReceiptForgives
  <1>1. EventInv /\ EventInv' /\ [Next]_vars
          => [\A a \in Accounts :
                 /\ PendingFees(token', a) < PendingFees(token, a)
                       => PayFees(a) \/ Waived(a) \/ Withdrawn(a) \/ Receives(a)
                 /\ TotalClaimable(token', a) < TotalClaimable(token, a)
                       => ClaimAllDistributions(a) \/ Withdrawn(a) \/ Receives(a)]_vars
    <2> SUFFICES ASSUME EventInv, EventInv', [Next]_vars, NEW a \in Accounts
                 PROVE  /\ PendingFees(token', a) < PendingFees(token, a)
                              => PayFees(a) \/ Waived(a) \/ Withdrawn(a) \/ Receives(a)
                        /\ TotalClaimable(token', a) < TotalClaimable(token, a)
                              => ClaimAllDistributions(a) \/ Withdrawn(a) \/ Receives(a)
      OBVIOUS
    <2>1. BillFate(a) /\ ClaimFate(a)
      BY StepFates DEF EventInv, LoopInv
    <2>2. /\ token \in Ledger /\ ConfirmedExist(token)
          /\ token' \in Ledger /\ ConfirmedExist(token')
          /\ Len(token'.fees) <= MaxEvents /\ Len(token'.distributions) <= MaxEvents
      BY DEF EventInv, LoopInv, TypeOK, ConfirmedExist
    <2>3. PendingFees(token', a) \in Nat /\ TotalClaimable(token', a) \in Nat
      BY <2>2, BillsAndClaims
    <2>4. ClaimsReadable(token, a) /\ ClaimsReadable(token', a)
      BY <2>2 DEF ConfirmedExist, ClaimsReadable, Claimable, DistributionExists
    <2>5. BillStands(token, token', a)
            => ~ (PendingFees(token', a) < PendingFees(token, a))
      BY <2>2, StandingBill
    <2>6. ClaimStands(token, token', a)
            => ~ (TotalClaimable(token', a) < TotalClaimable(token, a))
      BY <2>2, <2>4, StandingClaim
    <2>7. PendingFees(token, a) = 0 => ~ (PendingFees(token', a) < PendingFees(token, a))
      BY <2>3
    <2>8. TotalClaimable(token, a) = 0
            => ~ (TotalClaimable(token', a) < TotalClaimable(token, a))
      BY <2>3
    <2> QED BY <2>1, <2>5, <2>6, <2>7, <2>8 DEF BillFate, ClaimFate
  <1> QED BY <1>1, EventInvInit, EventInvNext, PTL DEF Spec, OnlyReceiptForgives

=============================================================================
