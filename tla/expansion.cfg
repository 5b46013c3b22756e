SPECIFICATION Spec
CONSTANTS
  Kind = {"sql", "redis"}
  Limit = 1
  DistinctTicks = TRUE
  MaxNodes = 4
  MaxOps = 1
  MaxTime = 2
INVARIANT TypeOK
INVARIANT IInv
INVARIANT NamedParentIsSent
INVARIANT NearestAncestor
INVARIANT AllReported
