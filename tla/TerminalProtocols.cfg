\* One session of every protocol, with every card.
SPECIFICATION Spec
CONSTANTS
  Session = {s1}
  Merchant = {m1}
  Key = {"k1"}
  Null = Null
  Reference = {x1, x2}
  MaxPending = 2
  MaxRestarts = 1
  MaxLost = 1
  ListLimit = 1
  Requested <- AllRequested
  Card <- AllCards
  Deployment <- MCDeployment
SYMMETRY SymmetryOfReferences
INVARIANTS
  PartialAuthorizations
  ProtocolsDecideAlike
\* Nobody has to make another request, and names run out.
CHECK_DEADLOCK FALSE
