\* Three requests, two references, one of an unquoted currency, two faults: every
\* safety property.
SPECIFICATION Spec
CONSTANTS
  Request = {r1, r2, r3}
  Reference = {p1, p2}
  Unquoted = {p2}
  Wallet = {good, badAddress}
  RegisteredNetwork = {good, badAddress}
  ValidAddress = {good}
  Null = Null
  MaxRetries = 1
  MaxFaults = 2
SYMMETRY Symmetry
INVARIANTS
  PaymentInv
  TypeOK
  ChargedTwiceOnlyAfterCrash
  OnlySettledStatusesCommitted
  LoggedTransitionsAllowed
  HistoryEndsAtStatusUnlessIPN
  CompletedMeansPaidOut
  OnlyChargedPaymentsPaidOut
  SettledPaymentsHaveReceipts
  PendingHasTask
  TransfersWithinFaults
PROPERTIES
  OnlyStaleWritesBreakLifecycle
  ImplementsLedger
\* Every request runs once: the system stops when all of them have ended.
CHECK_DEADLOCK FALSE
