SPECIFICATION AccessSpec
CONSTANTS
  Accounts = {a1, a2}
  Expiries = {0, 2, 3}
  MaxTime = 2
  Users = {deployer, kyc, aml}
  DEFAULT_ADMIN_ROLE = DEFAULT_ADMIN_ROLE
  KYC_ADMIN = KYC_ADMIN
  AML_ADMIN = AML_ADMIN
  deployer = deployer
  _kycAdmin = kyc
  _complianceAdmin = aml
  NoOne = NoOne
  MaxRoleChanges = 2
SYMMETRY AccountSymmetry
INVARIANT TwoPeopleAdmit
PROPERTY RefinesCompliance
CHECK_DEADLOCK FALSE
