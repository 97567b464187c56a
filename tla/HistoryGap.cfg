\* An IPN captures a payment that NOWPayments invoiced.
SPECIFICATION Spec
CONSTANTS
  Request = {r1, r2}
  Reference = {p1}
  Unquoted = {}
  Wallet = {good}
  RegisteredNetwork = {good}
  ValidAddress = {good}
  Null = Null
  MaxRetries = 1
  MaxFaults = 0
INVARIANT HistoryEndsAtStatus
CHECK_DEADLOCK FALSE
