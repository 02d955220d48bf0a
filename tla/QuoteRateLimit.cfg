CONSTANTS
  Requests = {k1, k2, k3}
  Window = 6
  Limit = 2
  Second = 2
  MaxLag = 1
  MaxTime = 9
  None = None
SPECIFICATION Spec
INVARIANTS
  WindowBound
CHECK_DEADLOCK FALSE
