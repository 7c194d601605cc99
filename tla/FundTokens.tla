----------------------------- MODULE FundTokens -----------------------------
(***************************************************************************)
(* The fund's four tokens as FundToken machines.  Fund calls its tokens    *)
(* with the operators of FundTokenOps, several tokens in one transaction   *)
(* and next to checks and records of its own.  Seen from one token, each   *)
(* transaction is one call that token serves, or none: what FundToken's    *)
(* runs and proofs say of a token holds for every token of the fund.       *)
(*                                                                         *)
(* A transaction that approves several LPs calls mint on one token several *)
(* times.  It is several calls to the token, so an instance has one LP.    *)
(***************************************************************************)
EXTENDS Fund

\* The arguments and bounds of a token's calls that the fund's own allow.
MostTokens == Max({MaxCommittedGp, MaxCommittedLp \div price})
MostDistributed == Max(DistAmounts \cup {0})
WaivedIds(k) == {w.upToId : w \in {v \in Waivers : v.token = k}}

\* Token k of the fund, whose storage and USDC are entries of the fund's.
Token(k) == INSTANCE FundToken WITH
    token       <- tokens[k],
    cash        <- cash[k],
    TokenKinds  <- {k \in {"gpCommit", "lpCommit"}},
    MintAmounts <- 0..MostTokens,
    MoveAmounts <- 0..MostTokens,
    FeeCharges  <- {[fee |-> managementFee, price |-> price]},
    DistAmounts <- 0..MostDistributed,
    Scale       <- scale,
    MaxCash     <- MaxCash + MaxDistributions * MostDistributed,
    MarkIds     <- [isCommitToken \in BOOLEAN |-> WaivedIds(k)],
    Reviewed    <- [isCommitToken \in BOOLEAN |-> Reviewed],
    MaxSupply   <- [isCommitToken \in BOOLEAN |-> MostTokens]

\* Every transaction of the fund and of a holder is, for each of the four
\* tokens, one call of FundToken made in its own state, or leaves the token
\* alone: none writes a balance without its snapshot, records a distribution
\* without its USDC, or moves tokens that the token itself would refuse to
\* move.  What changes compliance alone is FundToken's ComplianceChanges.
TokensAreFundTokens ==
    /\ \A k \in TokenNames : Token(k)!Init
    /\ [][\A k \in TokenNames :
             UNCHANGED <<tokens[k], cash[k]>> \/ Token(k)!Next]_vars

=============================================================================
