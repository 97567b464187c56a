\* No faults, one reference, wallets replaced by each other, two good ones and
\* one without a provider: payees and progress.
SPECIFICATION FairSpec
CONSTANTS
  Request = {r1, r2, r3}
  Reference = {p1}
  Unquoted = {}
  Wallet = {good, better, badNetwork}
  RegisteredNetwork = {good, better}
  ValidAddress = {good, better}
  Null = Null
  MaxRetries = 1
  MaxFaults = 0
INVARIANTS
  PayeesAccountedFor
PROPERTIES
  RequestsEnd
  TasksEnd
  RetriesSettle
CHECK_DEADLOCK FALSE
