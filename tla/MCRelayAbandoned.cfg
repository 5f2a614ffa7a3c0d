CONSTANTS
  Total = 4
  Bound = 2
  Directions = {"read", "write"}
  Writes = {1, 3}
  Reads = {1, 3}
  MayCancel = FALSE
  MayLeave = TRUE
SPECIFICATION FairSpec
PROPERTIES DenialReported
CHECK_DEADLOCK FALSE
