SPECIFICATION Spec
CONSTANTS
  x = x
  Plain = {x}
  Arrays = 3
  Heaps <- SmallHeaps
  MaxDepth = 1
  MaxItems = 2
  MaxCount = 3
INVARIANT SerializerTypeOK
INVARIANT WellFormed
INVARIANT PrintsText
CHECK_DEADLOCK FALSE
