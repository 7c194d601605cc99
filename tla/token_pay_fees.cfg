SPECIFICATION Spec
CONSTANTS
  Accounts = {a1, a2}
  MaxEvents = 2
  TokenKinds = {TRUE}
  MintAmounts = {4}
  MoveAmounts = {4}
  FeeCharges <- MCFeeCharges
  DistAmounts = {4}
  Scale = 2
  MaxCash = 8
  MarkIds <- MCMarkIds
  Reviewed <- MCReviewed
  MaxSupply <- MCMaxSupply
SYMMETRY MCSymmetry
PROPERTIES PaymentLeavesNothing
