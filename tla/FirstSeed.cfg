SPECIFICATION Spec
CONSTANTS
  Request = {r1, r2}
  Null = Null
  Merchant = {"client", "other"}
  Client = "client"
  Address = {"a1", "a2", "client wallet", "placeholder"}
  ClientAddress = "client wallet"
  Placeholder = "placeholder"
  MaxStarts = 2
  Model = {"V2", "V3"}
  Field = {"printer", "reader"}
  Workload <- MCWorkload
SYMMETRY Symmetry
INVARIANTS
  SeedCompletes
CHECK_DEADLOCK FALSE
