CONSTANTS
  Keys = {k1, k2}
  Limit = 3
  MaxU64 = 3
  MaxCharged = 6
SPECIFICATION Spec
INVARIANT AllowanceHeld
