--------------------------- MODULE MCFundToken ---------------------------
(***************************************************************************)
(* Small instances of FundToken: a balance of 4 under a fee of 250 per     *)
(* mille at price 4 owes 4, and of 8 owes 8.  Waivers, up to a fee and     *)
(* past the last one, and lapses of compliance are tried on the commit     *)
(* token, where the fund charges fees; events of both kinds on the other.  *)
(***************************************************************************)
EXTENDS FundToken, TLC

MCFeeCharges == {[fee |-> 250, price |-> 4]}
MCMarkIds == [isCommitToken \in BOOLEAN |-> IF isCommitToken THEN {0, 1, 3} ELSE {}]
MCReviewed == [isCommitToken \in BOOLEAN |-> IF isCommitToken THEN Accounts ELSE {}]
MCMaxSupply == [isCommitToken \in BOOLEAN |-> IF isCommitToken THEN 8 ELSE 4]
MCSymmetry == Permutations(Accounts)

=============================================================================
