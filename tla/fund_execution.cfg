SPECIFICATION ExecSpec
CONSTANTS
  a1 = a1
  a2 = a2
  Accounts = {a1, a2}
  NoAccount = NoAccount
  MaxEvents = 1
  CallIdRange = 1
  scale = 3
  Times <- MCTimes
  price = 1
  carriedInterest = 200
  managementFee = 250
  InitialTerms <- MCTerms
  TermChanges <- MCTermChanges
  CommitAmounts = {2}
  GpCommitAmounts = {4}
  CallAmounts = {4}
  CallPrices = {1}
  DistAmounts = {13}
  RedemptionAmounts = {2}
  TransferAmounts = {}
  Waivers = {}
  Lps = {a1, a2}
  Gps = {a1}
  Redeemers = {a2}
  Reviewed = {}
  Holders = {}
  Pausing = TRUE
  ApprovalLists <- MCApprovalLists
  WaiverLists <- MCWaiverLists
  Scenarios <- MCScenarios
  MaxCommittedLp = 4
  MaxCommittedGp = 8
  MaxCalls = 1
  MaxFees = 0
  MaxDistributions = 1
  MaxCash = 0
INVARIANTS ExecTypeOK
PROPERTIES ImplementsFund RevertsAsFund CallsEnd
