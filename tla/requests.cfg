SPECIFICATION Spec
CONSTANTS
  t1 = t1
  agent = agent
  ip = ip
  zero = zero
  Nobody = Nobody
  Thread = {t1}
  Name = {agent}
  Numeric = {ip, zero}
  Unix = Unix
  Free = Free
  AnyAddress = zero
  Paths <- Agents
  Lz4 = TRUE
  Sampling = FALSE
  Fd = {1}
  MaxMessages = 2
  MaxRequests = 2
INVARIANT LifecycleTypeOK
INVARIANT OwnAgent
INVARIANT ArrivesWhole
 
 
PROPERTY ResponseNotHeld
PROPERTY RequestsProceed
CHECK_DEADLOCK FALSE
