SPECIFICATION Spec
CONSTANTS
  Accounts = {a1, a2}
  NoAccount = NoAccount
  MaxEvents = 1
  CallIdRange = 2
  scale = 10
  Times <- CapitalTimes
  price = 2
  carriedInterest = 200
  managementFee = 250
  InitialTerms <- CapitalTerms
  TermChanges <- NoTermChanges
  CommitAmounts = {4}
  GpCommitAmounts = {2}
  CallAmounts = {4}
  CallPrices = {1}
  DistAmounts = {9}
  RedemptionAmounts = {2}
  TransferAmounts = {2}
  Waivers <- LpWaiver
  Lps = {a2}
  Gps = {a1}
  Redeemers = {a2}
  Reviewed = {a2}
  Holders = {a2}
  Pausing = TRUE
  MaxCommittedLp = 4
  MaxCommittedGp = 2
  MaxCalls = 1
  MaxFees = 1
  MaxDistributions = 1
  MaxCash = 0
INVARIANTS LpTokensWithinCommitments
PROPERTIES TokensAreFundTokens PausedMeansFrozen OnlyCompliantGain
