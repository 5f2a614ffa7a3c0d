SPECIFICATION Spec
CONSTANTS
  a1 = a1
  a2 = a2
  a3 = a3
  b1 = b1
  b2 = b2
  plugin = plugin
  other = other
  Calls <- FiveCalls
  Invocations <- TwoInvocations
  Inv <- Owner
SYMMETRY Symmetry
INVARIANTS
  TypeOK
  CountIsTold
  IndentationIsNesting
  LinesBalance
CHECK_DEADLOCK FALSE
