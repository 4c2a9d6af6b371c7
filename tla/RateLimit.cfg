CONSTANTS
  Requests = {r1, r2, r3, r4}
  Limit = 2
  Window = 4
  MaxLatency = 1
  MaxTime = 13
  Unique = TRUE
SPECIFICATION Spec
INVARIANT Inv
INVARIANT AdmitBound
SYMMETRY Symmetric
CHECK_DEADLOCK FALSE
