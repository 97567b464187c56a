\* A payment captured by an IPN, under fairness.
SPECIFICATION FairSpec
CONSTANTS
  Request = {r1, r2}
  Reference = {p1}
  Unquoted = {}
  Wallet = {good}
  RegisteredNetwork = {good}
  ValidAddress = {good}
  Null = Null
  MaxRetries = 1
  MaxFaults = 0
PROPERTY CapturedPaymentsSettle
CHECK_DEADLOCK FALSE
