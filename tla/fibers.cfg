SPECIFICATION Spec
CONSTANTS
  user = user
  redis = redis
  pdo = pdo
  curl = curl
  query = query
  apcu = apcu
  setopt = setopt
  enable = enable
  disable = disable
  Function = {user, redis, pdo, query, apcu, enable, disable}
  KindOf <- MCKindOf
  main = main
  fib = fib
  a1 = a1
  a2 = a2
  Fiber = {main, fib}
  Main = main
  Address = {a1, a2}
  Enabled = TRUE
  CollectInternal = FALSE
  DistinctTicks = TRUE
  MaxCalls = 4
  MaxRequests = 2
INVARIANT ProbesInvisible
INVARIANT IInv
INVARIANT ProfileInv
INVARIANT ChargeInv
INVARIANT ChargedOnce
PROPERTY EndsOwnNode
PROPERTY ReturnEndsNode
