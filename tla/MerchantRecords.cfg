SPECIFICATION Spec
CONSTANTS
  Request = {r1, r2, r3, r4}
  Null = Null
  Merchant = {"client", "other"}
  Client = "client"
  Address = {"a1", "a2", "client wallet", "placeholder"}
  ClientAddress = "client wallet"
  Placeholder = "placeholder"
  MaxStarts = 2
  Model = {"V2", "V3"}
  Field = {"printer", "reader"}
  Workload <- MCWorkload
SYMMETRY Symmetry
INVARIANTS
  TypeOK
  LatestPrimaryPays
  SeedFailureCauses
  ReportsKept
  ModelsAgreeUnlessOverlap
PROPERTIES
  SeedRestoresPayee
\* Every request may have ended and every start been used.
CHECK_DEADLOCK FALSE
