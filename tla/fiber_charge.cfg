SPECIFICATION Spec
CONSTANTS
  user = user
  redis = redis
  pdo = pdo
  curl = curl
  query = query
  apcu = apcu
  setopt = setopt
  enable = enable
  disable = disable
  Function = {user, redis}
  KindOf <- MCKindOf
  main = main
  fib = fib
  a1 = a1
  a2 = a2
  a3 = a3
  Fiber = {main, fib}
  Main = main
  Address = {a1, a2, a3}
  Enabled = TRUE
  CollectInternal = FALSE
  DistinctTicks = TRUE
  MaxCalls = 3
  MaxRequests = 1
PROPERTY ChargedToRunningCall
