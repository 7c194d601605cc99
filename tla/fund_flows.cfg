SPECIFICATION StorySpec
CONSTANTS
  Accounts = {a1, a2}
  NoAccount = NoAccount
  MaxEvents = 2
  CallIdRange = 2
  scale = 100
  Times <- DistributionTimes
  price = 2
  carriedInterest = 200
  managementFee = 250
  InitialTerms <- StoryTerms
  TermChanges <- ClosingChanges
  CommitAmounts = {10000, 20001}
  GpCommitAmounts = {1000}
  CallAmounts = {7000}
  CallPrices = {1}
  DistAmounts = {7080, 23000}
  RedemptionAmounts = {}
  TransferAmounts = {}
  Waivers = {}
  Lps = {a1, a2}
  Gps = {a1}
  Redeemers = {}
  Reviewed = {}
  Holders = {a2}
  Pausing = FALSE
  MaxCommittedLp = 20001
  MaxCommittedGp = 2000
  MaxCalls = 3
  MaxFees = 0
  MaxDistributions = 2
  MaxCash = 0
INVARIANTS TypeOK CalledWithinCommitted GpTokensMatchCommitments
INVARIANTS ReturnsMatchDistributed EntriesInDayOrder CapitalWasCalled
PROPERTIES CommitTokensOnlyConvert CallSharesCovered
PROPERTIES CarryOnProfitOnly PrefBeforeCarry LpMadeWholeFirst
