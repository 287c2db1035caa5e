CONSTANTS
  Limit = 2
  Window = 3
  Time = {0, 1, 2, 3, 4, 5, 6, 7, 8}
SPECIFICATION Spec
INVARIANTS TypeOK AllowanceHolds DeniedOnlyWhenExhausted
