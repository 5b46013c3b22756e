SPECIFICATION Spec
CONSTANTS
  user = user
  redis = redis
  pdo = pdo
  curl = curl
  query = query
  apcu = apcu
  setopt = setopt
  enable = enable
  disable = disable
  Function = {redis, curl, pdo, enable, disable}
  KindOf <- MCKindOf
  main = main
  a1 = a1
  a2 = a2
  a3 = a3
  Fiber = {main}
  Main = main
  Address = {a1, a2, a3}
  Enabled = TRUE
  CollectInternal = TRUE
  DistinctTicks = TRUE
  MaxCalls = 5
  MaxRequests = 1
INVARIANT TypeOK
INVARIANT StackMatchesFrames
INVARIANT ParentsOutlive
INVARIANT StackInv
PROPERTY ChargedToRunningCall
PROPERTY ImplementsCallTree
