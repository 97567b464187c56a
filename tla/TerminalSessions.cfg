SPECIFICATION Spec
CONSTANTS
  Session = {s1, s2}
  Merchant = {m1}
  Key = {"k1"}
  Null = Null
  Reference = {x1, x2, x3, x4}
  MaxPending = 2
  MaxRestarts = 1
  MaxLost = 1
  ListLimit = 1
  Requested <- MCRequested
  Card <- MCCard
  Deployment <- MCDeployment
SYMMETRY Symmetry
INVARIANTS
  TypeOK
  MoneyFollowsSession
  BooksFollowSession
  OnePaymentPerKey
  AuditPrecedesAnswer
  ChangesAudited
  DashboardFollowsMoney
PROPERTIES
  NoSimulationInProduction
  ImplementsCardPayment
\* Nobody has to make another request, and names run out.
CHECK_DEADLOCK FALSE
