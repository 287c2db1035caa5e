CONSTANTS
  Thread = {w1, w2}
  Limit = 2
  Window = 2
  Time = {0, 1, 2, 3}
SPECIFICATION Spec
INVARIANT AllowanceHolds
