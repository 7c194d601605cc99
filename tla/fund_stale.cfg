SPECIFICATION Spec
CONSTANTS
  Accounts = {a1, a2}
  NoAccount = NoAccount
  MaxEvents = 2
  CallIdRange = 2
  scale = 100
  Times <- DistributionTimes
  price = 1
  carriedInterest = 200
  managementFee = 250
  InitialTerms <- DistributionTerms
  TermChanges <- NoTermChanges
  CommitAmounts = {20000}
  GpCommitAmounts = {20}
  CallAmounts = {10010}
  CallPrices = {1}
  DistAmounts = {10120, 33000}
  RedemptionAmounts = {}
  TransferAmounts = {}
  Waivers = {}
  Lps = {a2}
  Gps = {a1}
  Redeemers = {}
  Reviewed = {}
  Holders = {a2}
  Pausing = FALSE
  MaxCommittedLp = 20000
  MaxCommittedGp = 20
  MaxCalls = 2
  MaxFees = 0
  MaxDistributions = 2
  MaxCash = 0
INVARIANTS CapitalInTotal
