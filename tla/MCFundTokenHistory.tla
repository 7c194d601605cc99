------------------------ MODULE MCFundTokenHistory ------------------------
(* The instance of MCFundToken with its history.                           *)
EXTENDS FundTokenHistory

MCFeeCharges == {[fee |-> 250, price |-> 4]}
MCMarkIds == [isCommitToken \in BOOLEAN |-> {}]
MCReviewed == [isCommitToken \in BOOLEAN |-> {}]
MCMaxSupply == [isCommitToken \in BOOLEAN |-> 4]

=============================================================================
