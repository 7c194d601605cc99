SPECIFICATION FairSpec
CONSTANTS
  Accounts = {a1, a2}
  NoAccount = NoAccount
  MaxEvents = 2
  CallIdRange = 2
  scale = 10
  Times <- CapitalTimes
  price = 2
  carriedInterest = 200
  managementFee = 250
  InitialTerms <- CapitalTerms
  TermChanges <- NoTermChanges
  CommitAmounts = {4}
  GpCommitAmounts = {2}
  CallAmounts = {4}
  CallPrices = {1}
  DistAmounts = {2}
  RedemptionAmounts = {}
  TransferAmounts = {2}
  Waivers = {}
  Lps = {a2}
  Gps = {a1}
  Redeemers = {}
  Reviewed = {}
  Holders = {a2}
  Pausing = FALSE
  MaxCommittedLp = 4
  MaxCommittedGp = 2
  MaxCalls = 1
  MaxFees = 0
  MaxDistributions = 2
  MaxCash = 0
PROPERTIES SharesArePaid
