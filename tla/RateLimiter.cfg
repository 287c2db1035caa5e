CONSTANTS
  Thread = {w1, w2, w3}
  Limit = 2
  Window = 2
  Time = {0, 1, 2, 3}
SPECIFICATION Spec
INVARIANTS TypeOK OvershootIsBounded
