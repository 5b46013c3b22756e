SPECIFICATION Spec
CONSTANTS
  t1 = t1
  t2 = t2
  k1 = k1
  v1 = v1
  v2 = v2
  Thread = {t1, t2}
  Nobody = Nobody
  Key = {k1}
  Value = {v1, v2}
  NoValue = NoValue
  DistinctTicks = TRUE
  MaxSpans = 2
  MaxDumps = 0
  MaxRequests = 2
INVARIANT NoFreedAccess
CHECK_DEADLOCK FALSE
