SPECIFICATION TSpec
CONSTANTS
  t1 = t1
  t2 = t2
  agent = agent
  ip = ip
  zero = zero
  Thread = {t1, t2}
  Name = {agent}
  Numeric = {zero}
  Unix = Unix
  Free = Free
  AnyAddress = zero
  Paths <- TwoAgents
  Lz4 = TRUE
  Sampling = FALSE
  Fd = {1, 2}
  MaxMessages = 2
  MaxRequests = 2
INVARIANT TransportTypeOK
INVARIANT FreedOnce
INVARIANT NoSocketLeak
PROPERTY SendReturns
CHECK_DEADLOCK FALSE
