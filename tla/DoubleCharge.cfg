\* Two requests with one key, one of which dies after its charge.
SPECIFICATION Spec
CONSTANTS
  Request = {r1, r2}
  Reference = {p1}
  Unquoted = {}
  Wallet = {good}
  RegisteredNetwork = {good}
  ValidAddress = {good}
  Null = Null
  MaxRetries = 1
  MaxFaults = 1
INVARIANT AtMostOneCharge
CHECK_DEADLOCK FALSE
