SPECIFICATION Spec
CONSTANTS
  Accounts = {a1, a2}
  NoAccount = NoAccount
  MaxEvents = 1
  CallIdRange = 2
  scale = 10
  Times <- CapitalTimes
  price = 2
  carriedInterest = 200
  managementFee = 250
  InitialTerms <- CapitalTerms
  TermChanges <- NoTermChanges
  CommitAmounts = {4}
  GpCommitAmounts = {2}
  CallAmounts = {4}
  CallPrices = {1}
  DistAmounts = {}
  RedemptionAmounts = {1}
  TransferAmounts = {}
  Waivers = {}
  Lps = {a1, a2}
  Gps = {a1}
  Redeemers = {}
  Reviewed = {}
  Holders = {a2}
  Pausing = FALSE
  MaxCommittedLp = 8
  MaxCommittedGp = 8
  MaxCalls = 2
  MaxFees = 0
  MaxDistributions = 0
  MaxCash = 0
INVARIANTS PendingCommitmentsCancellable
