CONSTANTS
  Opens = {c1, c2}
  Reps = {r1, r2, r3}
  Limit = 2
  Layers = 1
  Preopens = 1
SPECIFICATION Spec
INVARIANT AllWithinLimit
CHECK_DEADLOCK FALSE
