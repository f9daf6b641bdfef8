\* A draft of NaN makes every later draft of the account covered.
SPECIFICATION ToolsSpec
CONSTANTS
  checking = checking
  savings = savings
  closed = closed
  alice = alice
  bob = bob
  Accounts = {checking, savings, closed}
  Users = {alice, bob}
  Owner <- OwnerMap
  Active = {checking, savings}
  Opening <- OpeningBalance
  Amounts <- SomeAmounts
  NaN = NaN
  Limit = 2
  Beneficiaries = {shop, retired}
  ActiveBeneficiaries = {shop}
  IdemKeys = {k1}
  NoKey = NoKey
  DraftIds = {d1, d2, d3}
INVARIANT SufficientBalance
CHECK_DEADLOCK FALSE
