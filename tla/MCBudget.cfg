CONSTANTS
  Keys = {k1, k2}
  Limit = 5
  MaxU64 = 7
  MaxCharged = 12
SPECIFICATION Spec
INVARIANTS TypeOK AllowanceHeld RefusedForCause
