\* Cancellation and signature of one payment, refund and settlement of one.
SPECIFICATION Spec
CONSTANTS
  Request = {r1, r2, r3}
  Reference = {p1}
  Unquoted = {}
  Wallet = {good}
  RegisteredNetwork = {good}
  ValidAddress = {good}
  Null = Null
  MaxRetries = 1
  MaxFaults = 0
PROPERTY FinalStatusesStay
CHECK_DEADLOCK FALSE
