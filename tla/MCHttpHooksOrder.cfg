SPECIFICATION Spec
CONSTANTS
  h1 = h1
  s1 = s1
  s2 = s2
  Requests <- Pair
  Preview <- PairPreview
INVARIANTS
  HandleReturnsFirst
