\* The merchant replaces a rejected wallet before the retry.
SPECIFICATION Spec
CONSTANTS
  Request = {r1, r2}
  Reference = {p1}
  Unquoted = {}
  Wallet = {good, badAddress}
  RegisteredNetwork = {good, badAddress}
  ValidAddress = {good}
  Null = Null
  MaxRetries = 1
  MaxFaults = 0
INVARIANT SettlementNamesPaidWallet
CHECK_DEADLOCK FALSE
