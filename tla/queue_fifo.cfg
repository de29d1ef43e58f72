SPECIFICATION Spec
CONSTANTS
  p1 = p1
  p2 = p2
  p3 = p3
  i1 = i1
  i2 = i2
  None = None
  Threads = {p1, p2, p3}
  Initializers = {p1}
  Items = {i1, i2}
  MAX_ITEMS = 2
  MaxUseCount = 5
INVARIANT NoDanglingItem
PROPERTIES FifoSpec LeaksOnlyOnFailure
