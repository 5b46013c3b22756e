SPECIFICATION Spec
CONSTANTS
  Kind = {"sql", "redis"}
  Limit = 1
  DistinctTicks = FALSE
  MaxNodes = 3
  MaxOps = 1
  MaxTime = 2
PROPERTY ExpansionEnds
