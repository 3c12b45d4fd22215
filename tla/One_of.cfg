CONSTANTS
  Objects = {o1, o2, o3}
  Values = {v1, v2}
  Unspecified = unspecified
SPECIFICATION Spec
INVARIANTS DestroyersMatch TagMatches
PROPERTY ImplementsTaggedValue
CHECK_DEADLOCK FALSE
