CONSTANTS
  Opens = {c1, c2, c3, c4}
  Reps = {r1, r2, r3, r4}
  Limit = 2
  Layers = 1
  Preopens = 1
SPECIFICATION Spec
SYMMETRY Symmetry
INVARIANTS TypeOK ReservationsOwned LiveIsTable OpenedWithinLimit RefusedWhenFull
CHECK_DEADLOCK FALSE
