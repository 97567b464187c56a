SPECIFICATION Spec
CONSTANTS
  r1 = r1
  r2 = r2
  r3 = r3
  r4 = r4
  Request = {r1, r2, r3, r4}
  Null = Null
  Caller = {"a", "b"}
  Window = 2
  Limit = 2
  AuthLimit = 1
  MaxCrashes = 1
  Workload <- MCWorkload
INVARIANTS
  TypeOK
  UsedTokensStayUsed
  OneActivePerLogin
  AdmittedWithinLimit
PROPERTIES
  LockoutsEnd
\* All requests may have been answered.
CHECK_DEADLOCK FALSE
